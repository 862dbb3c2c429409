CONSTANTS
    Games = {civ6, civ7}
    Keys = {}
    Turns = {1}
    Threads = {t1}
    None = None
    MaxRevision = 1
    MaxGeneration = 1
SPECIFICATION Spec
INVARIANTS
    ArchivedUnderOwnRoot
