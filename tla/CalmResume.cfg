CONSTANTS
    j1 = j1
    j2 = j2
    j3 = j3
    s1 = s1
    s2 = s2
    NoJob = NoJob
    Jobs = {j1, j2, j3}
    Sweepers = {s1, s2}
    NumPages = 2
    AutoRetryLimit = 1
    UserActions <- RetryAndResume
    FaultKinds <- CalmFaults
    MaxFaults = 2
    SlowWork = FALSE
    SerialRequests = TRUE
SPECIFICATION Spec
SYMMETRY RowSweepSymmetry
INVARIANT OneWriter
INVARIANT OneActiveJob
INVARIANT AutoRetriesWithinLimit
INVARIANT CompletedIndexMatchesPages
INVARIANT CompletedPartIsStored
PROPERTY KeepsLifecycle
CHECK_DEADLOCK FALSE
