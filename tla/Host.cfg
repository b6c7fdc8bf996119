CONSTANTS
    Session = {s1}
    Generation = {1, 2}
    MaxWork = 2
    ReservedWork = 1
    MaxJobs = 2
    MaxRequests = 5
SPECIFICATION FairSpec
INVARIANTS
    SavedIsInstalled
    PendingCountsWork
PROPERTIES
    ControlReturns
    FileIoEnds
\* After a shutdown nothing is left to do.
CHECK_DEADLOCK FALSE
