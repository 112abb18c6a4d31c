SPECIFICATION FairSpec
CONSTANTS
    t1 = t1
    t2 = t2
    Threads <- TwoThreads
    Attempts = 2
    MaxInstances = 2
    MaxEvents = 3
CHECK_DEADLOCK FALSE
INVARIANTS TypeOK NoFalseSequenceAlarm VerifiedOnPinned
PROPERTIES OperationsReturn
