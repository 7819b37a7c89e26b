CONSTANTS
    Batches = {b1, b2}
    Paths = {p1, p2}
    Repeats = {0, 2}
    Exclusive = FALSE
SPECIFICATION Spec
INVARIANTS
    TrialsShareNoTopics
CHECK_DEADLOCK FALSE
