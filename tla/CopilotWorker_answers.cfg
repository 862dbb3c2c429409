CONSTANTS
    Pages = {p1, p2}
    Questions = {q1}
    Resolutions = {r1, r2}
    MaxRevision = 2
    MaxAsked = 2
    MayClose = TRUE
    None = None
SPECIFICATION FairSpec
CHECK_DEADLOCK FALSE
INVARIANTS
    ComposedOnce
    ShownIsNarrated
    SelectsAlone
PROPERTIES
    QuestionsAreAnswered
