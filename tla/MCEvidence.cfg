CONSTANTS
    Kinds = {"raw", "faulted", "counters", "violation", "recovery", "command"}
    Timelines <- SmallTimelines
    FaultWithin = 3
    Delay = 2
    Tolerance = 1
    WatchdogWithin = 2
    Violation = "message_age_exceeded"
    CommandWithin = 1
    ObservedWithin = 2
    RobotWithin = 1
    Hold = 4
    Period = 1
    MaxEvents = 4
    MaxTime = 7
SPECIFICATION Spec
INVARIANTS
    TypeOK
    HoldScanFindsFirst
PROPERTIES
    VerdictSettles
    EvidenceNeverErased
CHECK_DEADLOCK FALSE
