SPECIFICATION Spec
CONSTANTS
    Requests = {r1, r2, r3}
    Orders = {o1}
    Roles <- MCRoles
    FailureCodes <- MCFailureCodes
    MaxRestarts = 1
INVARIANTS
    HeldPaymentListed
