CONSTANTS
    Pages = {p1, p2}
    Questions = {q1}
    Resolutions = {r1}
    MaxRevision = 1
    MaxAsked = 2
    MayClose = FALSE
    None = None
SPECIFICATION Spec
CHECK_DEADLOCK FALSE
INVARIANTS
    SelectedOnce
