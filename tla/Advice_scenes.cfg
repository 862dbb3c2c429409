CONSTANTS
    Queries <- SmallQueries
    Files <- SmallFiles
    MaxGameTurn = 2
    Nothing = Nothing
    Unreadable = Unreadable
    MaxGame = 2
    MaxLogTurn = 2
    MaxRows = 3
    MaxLoads = 2
    Rivals = {1}
    Raider = 9
    Units = {u1}
    OwnUnits = {w1}
    Guides = {"workflow", "naval", "culture", "science"}
    PlanTurns = 4
    MaxLogged = 3
    Stats = {"culture", "science"}
    Families = {"culture", "science"}
    Cities = {"rome", "ostia"}
    Items = {"library", "museum"}
    ItemGuides = {"library", "museum"}
    Figures = {2}
    MaxFacts = 4
    Requests = {r1, r2}
    MaxAttempts = 2
    MaxLookups = 1
    Missing = Missing
    NoRow = NoRow
    Raised = Raised
    Truths <- SmallTruths
    Readings <- SmallReadings
    LastTurn = 2
    MaxSessions = 2
    MaxRewrites = 1
    MaxRecorded = 2
    MaxCatalogs = 2
    None = None
    Seatings <- SmallSeatings
    Tiles <- SmallTiles
    YieldsOf <- SmallYieldsOf
    StatedYield <- SmallStatedYield
    Ratios <- SmallRatios
    Database <- SmallDatabase
    StampOf <- SmallStampOf
    Subjects <- SmallSubjects
    Contexts <- SmallContexts
    Messages <- SmallMessages
    Numerals <- SmallNumerals
    Selectable <- SmallSelectable
INIT AdviceInit
NEXT AdviceNext
SYMMETRY Symmetry
INVARIANTS
    FiguresOfOwnReply
    FinishedTurnsOnly
    FiledUnderOwnPlayer
    FrontierAgrees
    EachGapOnce
    CitationsResolve
    DefenceLeads
    ServedWasInstalled
    ChangesAreTrue
    AnswerIsVouchedFor
PROPERTIES
    SilenceOnlyAges
CHECK_DEADLOCK FALSE
