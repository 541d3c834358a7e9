SPECIFICATION Spec
CONSTANTS
    Requests = {r1, r2}
    Orders = {o1}
    Customers = {c1}
    Roles = {"OWNER"}
    Targets <- MCOneTarget
    Windows <- MCDefaultWindow
    FailureCodes <- MCFailureCodes
    MaxRestarts = 0
INVARIANTS
    PlainListIsComplete
