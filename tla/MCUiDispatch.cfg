SPECIFICATION FairSpec
CONSTANTS
    c1 = c1
    c2 = c2
    Calls <- TwoCalls
    MaxTime = 1
    MaxBudget = 2
    UiTimeout = 1
CHECK_DEADLOCK FALSE
INVARIANTS TypeOK SettledNeverPerformed DeadlineHonoured SequenceCausal
PROPERTIES ImplementsVendorCall HandlersReturn TasksDisposed
