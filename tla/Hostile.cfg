CONSTANTS
    j1 = j1
    j2 = j2
    j3 = j3
    s1 = s1
    s2 = s2
    NoJob = NoJob
    Jobs = {j1, j2}
    Sweepers = {s1}
    NumPages = 2
    AutoRetryLimit = 1
    UserActions <- EveryAction
    FaultKinds <- EveryFault
    MaxFaults = 2
    SlowWork = TRUE
    SerialRequests = FALSE
SPECIFICATION Spec
SYMMETRY RowSymmetry
INVARIANT TypeOK
 
CHECK_DEADLOCK FALSE
