CONSTANTS
    Games = {civ6, civ7}
    Subjects = {s1}
    Requests = {r1, r2}
    SittingsPerProcess = 2
    MaxSitting = 2
    FirstFiles = {"current", "damaged", "newer"}
    ReadMayFail = TRUE
    None = None
SPECIFICATION Spec
SYMMETRY Symmetry
INVARIANTS
    AppliedWasRecordedOrAccepted
    NoteLostOnlyAfterWarning
