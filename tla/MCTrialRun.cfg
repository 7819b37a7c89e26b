CONSTANTS
    Scenarios <- SmallScenarios
    Revisions = {1, 2}
    MaxTime = 20
    Drain = 1
    MaxLate = 1
SPECIFICATION RunSpec
INVARIANTS
    RunTypeOK
    JudgedOnFullEvidence
    ObservedFaultIsInForce
    DoneIsFinished
    FailureIsATimeout
PROPERTIES
    TrialEnds
CHECK_DEADLOCK FALSE
