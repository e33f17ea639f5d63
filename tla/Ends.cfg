CONSTANTS
    j1 = j1
    j2 = j2
    j3 = j3
    s1 = s1
    s2 = s2
    NoJob = NoJob
    Jobs = {j1, j2, j3}
    Sweepers = {s1, s2}
    NumPages = 1
    AutoRetryLimit = 1
    UserActions <- RetryOnly
    FaultKinds <- CalmFaults
    MaxFaults = 1
    SlowWork = FALSE
    SerialRequests = TRUE
SPECIFICATION FairSpec
PROPERTY EveryJobEnds
CHECK_DEADLOCK FALSE
