SPECIFICATION Spec
CONSTANTS
    Requests = {r1, r2}
    Users = {u1, u2}
    Roles = {"OWNER"}
    Paths <- MCCallingPaths
    ClientIds = {i1}
    FailureCodes = {"DEADLINE_EXCEEDED"}
SYMMETRY Symmetry
INVARIANTS
    CallsCarryTheCaller
    OneIdEverywhere
    LogTellsTheAnswer
