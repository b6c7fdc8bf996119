SPECIFICATION Spec
CONSTANTS
  d1 = d1
  d2 = d2
  Nobody = nobody
  Doc <- OneDoc
  MaxSaves = 2
  MaxCrashes = 0
  MaxFaults = 1
  MaxExt = 0
  CrashTears = TRUE
INVARIANT StagesOwned
