CONSTANTS
    Digests = {d1}
    Turns = {1, 2}
    Rebuilders = {t1}
    MaxRevision = 3
    MayClose = TRUE
    None = None
SPECIFICATION FairSpec
CHECK_DEADLOCK FALSE
INVARIANTS
    GeneratedOnce
    WaitingIsTrue
PROPERTIES
    HistoryNeverGoesBack
    WaitingEnds
