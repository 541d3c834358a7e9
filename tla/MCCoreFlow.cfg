SPECIFICATION Spec
CONSTANTS
    Requests <- MCRequests
    FailureCodes = {"DEADLINE_EXCEEDED"}
    MaxRestarts = 1
    MaxFailures = 2
    Deployments = {"services", "mocks"}
INVARIANTS
    TypeOK
    VerificationHolds
    PaidMeansConfirmed
    NoCallOnClosedChannel
PROPERTIES
    StopEnds
