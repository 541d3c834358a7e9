SPECIFICATION Spec
CONSTANTS
    Requests = {r1, r2, r3}
    Workers = {w1, w2}
    Orders = {o1}
    Statuses <- MCStatuses
    Events <- MCEvents
    Dates = {d1, d2}
    FailureCodes <- MCFailureCodes
    MaxRestarts = 1
SYMMETRY Symmetry
INVARIANTS
    TypeOK
    ReadingsAgree
    AckedWorkerIsListed
    AckedEventsAreShown
