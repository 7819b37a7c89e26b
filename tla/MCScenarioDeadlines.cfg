CONSTANTS
    Absent = Absent
    Unfit = Unfit
    Seconds <- SomeSeconds
    Percents <- SomePercents
    Amounts <- SomeAmounts
    TimerLimit = 2
    FloatLimit = 3
SPECIFICATION Spec
INVARIANTS
    DeadlinesWithinObservation
CHECK_DEADLOCK FALSE
