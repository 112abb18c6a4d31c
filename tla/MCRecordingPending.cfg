SPECIFICATION Spec
CONSTANTS
    c1 = c1
    c2 = c2
    Clients <- TwoClients
    Operations <- AllOperations
    Attempts = 1
    MaxRecordings = 2

CHECK_DEADLOCK FALSE
INVARIANTS StopPendingIsTrue
