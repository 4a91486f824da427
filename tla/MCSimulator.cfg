SPECIFICATION FairSpec
CONSTANTS
    process1 = process1
    process2 = process2
    process3 = process3
    a = a
    Process = {process1, process2, process3}
    Address = {a}
    TraceFile <- InOrder
    MaxTrace = 3
    StartTimes = {0, 9}
    quantum = 5
    contextSwitchTime = 1
    non_mem_inst_length = 3
    Frac_mem_inst = 1
    Swap_latency = 12
    Swap_interrupt_handling_time = 1
    w = 10
    FirstDiskRead = 5
    DiskReadStep = 1
INVARIANTS
    OnePlace
    ChargedForExecuted
    TimesAddUp
    ListOperationsAgree
PROPERTIES
    SimulationEnds
