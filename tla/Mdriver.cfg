SPECIFICATION FairSpec
CONSTANTS
    kbest = 3
    maxsamples = 5
    epsilon = 10
    min_time = 40
    min_reps = 2
    Noise = {0, 2}
    MaxTraces = 2
    Cost = 10
    LibcCost = 5
    Weight = {"WALL", "WUTIL", "WPERF"}
    Util = {1}
CHECK_DEADLOCK FALSE
INVARIANTS
    BestSamples
    IndexOfValidTraces
    TimeoutHitsOne
PROPERTIES
    EvaluationEnds
