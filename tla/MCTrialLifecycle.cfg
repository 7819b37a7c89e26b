CONSTANTS
    Scenarios <- SmallScenarios
    Revisions = {1, 2}
    MaxTime = 10
SPECIFICATION Spec
INVARIANTS
    FaultLastsItsDuration
    DeactivatedBeforeFinish
PROPERTIES
    HistoryIsKept
    EachActionOnce
