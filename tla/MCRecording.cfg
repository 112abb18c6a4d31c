SPECIFICATION FairSpec
CONSTANTS
    c1 = c1
    c2 = c2
    Clients <- TwoClients
    Operations <- AllOperations
    Attempts = 2
    MaxRecordings = 2
CHECK_DEADLOCK FALSE
INVARIANTS TypeOK FinalizingExplained FreshRecording StoppedIsOver
PROPERTIES FinalizingEnds
