CONSTANTS
    Task = {t1, t2}
    Path <- MCPath
    Initial <- MCInitial
    Identity = {1, 2, 3, 4}
    MaxEnlist = 2
    MaxRuns = 2
SPECIFICATION LiveSpec
INVARIANTS
    Exclusive
PROPERTIES
    Finishes
    PoisonPasses
CHECK_DEADLOCK FALSE
