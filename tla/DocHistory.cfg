CONSTANTS
    Blank = blank
    Paint = {blank, ink}
    Released = released
    MaxEvents = 6
    MaxCommits = 4
    MaxBranches = 3
    MaxId = 3
SPECIFICATION Spec
INVARIANTS
    HistoryIsBranch
    IdsNeverReused
    JournalReplays
PROPERTIES
    BranchesKept
    ImplementsUndoStack
CHECK_DEADLOCK FALSE
