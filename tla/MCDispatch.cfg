SPECIFICATION Spec
CONSTANTS
    Requests = {r1, r2, r3}
    Orders = {o1}
    Workers = {w1, w2}
    Skilled = {w1}
    Responses <- MCResponses
    Accepting <- MCAccepting
    Limits = {1}
    FailureCodes <- MCFailureCodes
    MaxRestarts = 1
SYMMETRY Symmetry
INVARIANTS
    TypeOK
    EveryAnswerIsBacked
    ReadingsAgree
    OneOutcome
