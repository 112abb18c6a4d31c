SPECIFICATION FairSpec
CONSTANTS
    c1 = c1
    c2 = c2
    Callers <- TwoCallers
    MaxTime = 2
    MaxBudget = 1
    EventLimit = 1
    MaxWaiting = 1
    Codes = {"ok"}
CHECK_DEADLOCK FALSE
INVARIANTS OwnAnswer CleanConnection
PROPERTIES ImplementsVendorCall CallersReturn
