SPECIFICATION FairSpec
CONSTANTS
  d1 = d1
  d2 = d2
  Nobody = nobody
  Doc <- OneDoc
  MaxSaves = 1
  MaxCrashes = 1
  MaxFaults = 2
  MaxExt = 1
  CrashTears = TRUE
INVARIANT OutcomeTruthful
INVARIANT RecoveryComplete
PROPERTY CommitFinal
PROPERTY OwnerReleased
PROPERTY OnlyKnownFilesRemoved
