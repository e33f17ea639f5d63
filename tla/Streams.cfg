CONSTANTS
    Kinds <- MCKinds
    MaxEvents = 4
    MaxQueue = 4
    MaxFaults = 1
SPECIFICATION Spec
INVARIANT TypeOK
INVARIANT EventsReachTheClient
PROPERTY ClientsAreTold
CHECK_DEADLOCK FALSE
