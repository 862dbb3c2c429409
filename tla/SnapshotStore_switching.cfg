CONSTANTS
    Games = {civ6, civ7}
    Keys = {}
    Turns = {1}
    Threads = {t1, t2}
    None = None
    MaxRevision = 3
    MaxGeneration = 2
SPECIFICATION Spec
INVARIANTS
    TypeOK
    SnapshotOfThisSitting
    SessionWithinOneSitting
    ArchiveSessionHoldsOneGame
PROPERTIES
    ImplementsFeed
