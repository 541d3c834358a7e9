SPECIFICATION Spec
CONSTANTS
    Requests = {r1, r2, r3}
    Orders = {o1, o2}
    Roles <- MCRoles
    FailureCodes <- MCFailureCodes
    MaxRestarts = 1
SYMMETRY Symmetry
INVARIANTS
    TypeOK
    AckedPaymentListed
    EveryPaymentIsBacked
    StoreMatchesAnswers
    NoDoubleCount
PROPERTIES
    FallbackListIsFresh
    KeepsBook
