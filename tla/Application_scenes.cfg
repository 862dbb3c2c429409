CONSTANTS
    Games = {civ6, civ7}
    Threads = {t1, t2}
    MaxWritten = 2
    MaxChoices = 2
    MayFail = TRUE
    Requests = {r1, r2}
    Labels = {objective}
    Values = {v1}
    Limit = 2
    MaxSitting = 2
    MaxTurn = 2
    MaxRevision = 3
    MaxPublished = 3
    MaxContextRevision = 2
    MaxToggles = 2
    None = None
SPECIFICATION AppSpec
INVARIANTS
    PinnedIsActive
    WatchesActive
    ReportsOfThisSitting
    HistoryIsNewestTurns
PROPERTIES
    GameFollowed
    PagesTold
    RevisionTellsReports
    PageFollows
    ScreenNeverGoesBack
CHECK_DEADLOCK FALSE
