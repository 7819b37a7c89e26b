CONSTANTS
    Batches = {b1, b2}
    Paths = {p1, p2}
    Repeats = {0, 2}
    Exclusive = TRUE
SPECIFICATION Spec
INVARIANTS
    TypeOK
PROPERTIES
    KeepsStore
    ExitTellsOutcome
CHECK_DEADLOCK FALSE
