CONSTANTS
    Faults <- SmallFaults
    MaxAge = 4
    Period = 2
    Window = 6
    LossNum = 2
    LossDen = 3
    Rounding = 0
    Depth = 2
    FaultFrom = 1
    FaultUntil = 20
    Duration = 9
    MaxTime = 20
    Readiness = 3
    Baseline = 2
    Observation = 10
    FaultWithin = 8
    Tolerance = 1
    WatchdogWithin = 6
    CommandWithin = 1
    ObservedWithin = 1
    RobotWithin = 8
    Hold = 3
    Drain = 1
    Lags = {0, 1}
SPECIFICATION TrialSpec
INVARIANTS
    FaultTrialPasses
    QuietTrialIsQuiet
    NothingShownUnapplied
CHECK_DEADLOCK FALSE
