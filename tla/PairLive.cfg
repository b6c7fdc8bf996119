SPECIFICATION FairSpec
CONSTANTS
  d1 = d1
  d2 = d2
  Nobody = nobody
  Doc <- OneDoc
  MaxSaves = 2
  MaxCrashes = 2
  MaxFaults = 0
  MaxExt = 0
  CrashTears = FALSE
INVARIANT StagesOwned
PROPERTY Resolves
