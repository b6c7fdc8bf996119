CONSTANTS
    Blank = blank
    Paint = {blank, ink}
    Released = released
    NoFile = nofile
    MaxEvents = 4
    MaxCommits = 2
    MaxBranches = 2
    MaxId = 2
    MaxSteps = 6
    CheckpointInterval = 2
SPECIFICATION FileSpec
INVARIANTS
    CleanMeansSaved
    SavedOpens
CHECK_DEADLOCK FALSE
