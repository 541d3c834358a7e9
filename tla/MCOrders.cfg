SPECIFICATION Spec
CONSTANTS
    Requests = {r1, r2, r3}
    Orders = {o1, o2}
    Customers = {c1, c2}
    Roles <- MCRoles
    Targets <- MCTargets
    Windows <- MCWindows
    FailureCodes <- MCFailureCodes
    MaxRestarts = 1
SYMMETRY Symmetry
INVARIANTS
    TypeOK
    WrittenAsAsked
    EveryAnswerIsBacked
    FilteredListIsExact
