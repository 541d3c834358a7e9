SPECIFICATION Spec
CONSTANTS
    Requests = {r1, r2, r3}
    Orders = {o1}
    FailureCodes <- MCFailureCodes
    MaxRestarts = 0
INVARIANTS
    CompletedStaysCompleted
