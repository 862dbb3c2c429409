CONSTANTS
    Games = {civ6}
    Subjects = {s1}
    Requests = {r1}
    SittingsPerProcess = 1
    MaxSitting = 3
    FirstFiles = {"absent", "current"}
    ReadMayFail = FALSE
    None = None
SPECIFICATION Spec
INVARIANTS
    NoNoteLost
