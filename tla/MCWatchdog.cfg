CONSTANTS
    MaxAge = 3
    Period = 2
    Window = 5
    LossNum = 2
    LossDen = 5
    Rounding = 0
    ClockSteps = TRUE
    MaxTime = 24
    MaxArrivals = 12
    Lateness = 1
    WildTime = 6
    WildArrivals = 3
SPECIFICATION MCSpec
INVARIANTS
    TypeOK
    FreshnessIsNewestStamp
    HealthyNeverFlagged
    EveryArrivalInWindowCounted
PROPERTY
    LatchIsPermanent
