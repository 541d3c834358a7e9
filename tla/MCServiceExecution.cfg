SPECIFICATION Spec
CONSTANTS
    Requests = {r1, r2, r3}
    Orders = {o1}
    FailureCodes <- MCFailureCodes
    MaxRestarts = 1
SYMMETRY Symmetry
INVARIANTS
    TypeOK
    EveryMarkIsBacked
    StatusFitsMarks
    BrokenRecordIsReported
    DoubledOnlyByOvertaking
PROPERTIES
    HistoryGoesOnlyWithReplacement
    KeepsRecords
