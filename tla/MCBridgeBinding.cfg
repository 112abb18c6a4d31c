SPECIFICATION Spec
CONSTANTS
    t1 = t1
    t2 = t2
    Threads <- TwoThreads
    Attempts = 1
    MaxInstances = 2
    MaxEvents = 1

CHECK_DEADLOCK FALSE
INVARIANTS MutationsBound
