CONSTANTS
    Games = {civ6}
    Subjects = {s1}
    Requests = {r1}
    SittingsPerProcess = 2
    MaxSitting = 2
    FirstFiles = {"current"}
    ReadMayFail = FALSE
    None = None
SPECIFICATION Spec
INVARIANTS
    NoNoteLost
