CONSTANTS
    Cell = {a, b}
    MaxOps = 5
    MaxFailures = 2
SPECIFICATION Spec
INVARIANTS
    PublishedKept
    AssociationsSound
    ReservationsMatchJobs
\* The user stops at the bound, or closes the document.
CHECK_DEADLOCK FALSE
