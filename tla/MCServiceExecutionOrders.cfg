SPECIFICATION Spec
CONSTANTS
    Requests = {r1, r2}
    Orders = {o1, o2}
    FailureCodes <- MCFailureCodes
    MaxRestarts = 1
INVARIANTS
    EveryMarkIsBacked
PROPERTIES
    EveryRequestEnds
