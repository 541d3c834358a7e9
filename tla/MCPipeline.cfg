SPECIFICATION Spec
CONSTANTS
    Requests = {r1}
    Users = {u1, u2}
    Roles <- MCRoles
    Paths <- MCPaths
    ClientIds = {i1}
    FailureCodes <- MCFailureCodes
INVARIANTS
    TypeOK
    OnlyCheckedRequestsCall
PROPERTIES
    EveryRequestAnswered
