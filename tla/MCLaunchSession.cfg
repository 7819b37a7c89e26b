CONSTANTS
    Faults <- SmallFaults
    MaxAge = 3
    Period = 2
    Window = 6
    LossNum = 1
    LossDen = 2
    Rounding = 0
    Depth = 2
    FaultFrom = 2
    FaultUntil = 4
    Duration = 2
    MaxTime = 12
SPECIFICATION SessionSpec
INVARIANTS
    FaultForWholeSession
