CONSTANTS
    w1 = w1
    w2 = w2
    a = a
    c = c
    Worker <- TwoWorkers
    Job <- Jobs
    Files <- Mixed
    Capacity = 2
SPECIFICATION FairSpec
INVARIANTS
    FairTurns
    ProgressCoherent
    OutcomeFaithful
    StoppedCancels
    ShutdownDrains
PROPERTIES
    EndedForGood
    AdmittedEnds
    DrainReturns
\* After a shutdown the workers are gone.
CHECK_DEADLOCK FALSE
