SPECIFICATION Spec
CONSTANTS
  d1 = d1
  d2 = d2
  Nobody = nobody
  Doc <- TwoDocs
  MaxSaves = 2
  MaxCrashes = 2
  MaxFaults = 1
  MaxExt = 0
  CrashTears = TRUE
SYMMETRY Documents
INVARIANT TypeOK
INVARIANT OldPairRecoverable
INVARIANT DocumentsSeeWholeSaves
PROPERTY ImplementsAtomicPair
