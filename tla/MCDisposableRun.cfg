SPECIFICATION FairSpec
CONSTANTS
    NoPid = 0
    Scenarios <- AllScenarios
    Disturbances = 1
    Interrupts = 1
CHECK_DEADLOCK FALSE
INVARIANTS
    NeverAbandoned EvidenceEarned GateIsExact AskedOnce
    FirstErrorReported LeftOpenIsHeld
PROPERTIES ProgramEnds
