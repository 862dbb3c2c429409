CONSTANTS
    Games = {civ6, civ7}
    Keys = {k1, k2}
    Turns = {1, 2}
    Threads = {t1}
    None = None
    MaxRevision = 4
    MaxGeneration = 1
SPECIFICATION Spec
SYMMETRY Symmetry
INVARIANTS
    TurnsAdvanceWithinSession
    OneSavePerSession
    WipeEndsSession
