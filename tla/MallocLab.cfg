SPECIFICATION Spec
CONSTANTS
    Alignment = 2
    HeapLimit = 32
    Ids = {0, 1}
    Sizes = {1, 3, 5}
    MaxOps = 6
    maxfill = 2
    Expensive = TRUE
CHECK_DEADLOCK FALSE
INVARIANTS
    VerdictValid
    RangesMatchBlocks
    DataIntact
    TotalIsLive
