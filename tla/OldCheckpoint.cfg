CONSTANTS
    j1 = j1
    j2 = j2
    j3 = j3
    s1 = s1
    s2 = s2
    NoJob = NoJob
    Jobs = {j1, j2, j3}
    Sweepers = {}
    NumPages = 2
    AutoRetryLimit = 0
    UserActions <- RetryAndResume
    FaultKinds <- WorkerFaults
    MaxFaults = 2
    SlowWork = FALSE
    SerialRequests = TRUE
SPECIFICATION Spec
INVARIANT CompletedDocumentIsWhole
CHECK_DEADLOCK FALSE
