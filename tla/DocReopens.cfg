CONSTANTS
    Blank = blank
    Paint = {blank, ink}
    Released = released
    NoFile = nofile
    MaxEvents = 4
    MaxCommits = 2
    MaxBranches = 2
    MaxId = 2
    MaxSteps = 6
    CheckpointInterval = 9
SPECIFICATION FileSpec
INVARIANT
    SavedReopens
CHECK_DEADLOCK FALSE
