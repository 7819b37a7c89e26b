CONSTANTS
    Configs <- AllModes
    InitialConfig <- PassThrough
    MaxPending = 2
    ExternalRng = TRUE
    MaxTime = 4
    MaxReceived = 4
SPECIFICATION MCSpec
INVARIANTS
    TypeOK
    PendingOnlyWhileDelaying
    InnerClockNeverAhead
    OnlyHeldSamplesRepeat
    InArrivalOrder
PROPERTIES
    PendingKeptOrEmitted
    HeldSampleFrozen
    OvertakingEndsWithLatency
    KeepsLedger
