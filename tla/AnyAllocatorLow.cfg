SPECIFICATION Spec
CONSTANTS
    Alignment = 2
    HeapLimit = 12
    Sizes = {2, 3}
INVARIANTS
    OverlapDetected
