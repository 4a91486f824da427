SPECIFICATION Spec
CONSTANTS
    Alignment = 2
    HeapLimit = 8
    Ids = {0, 1}
    Sizes = {1, 3}
    MaxOps = 4
    maxfill = 1
    Expensive = FALSE
CHECK_DEADLOCK FALSE
INVARIANTS
    ExhaustionReported
