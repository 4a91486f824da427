------------------------------ MODULE Simulator ------------------------------
(***************************************************************************)
(* The simulator of project 3 (simulator.c): processes with their traces   *)
(* move between the lists of gll.c as quanta end, pages fault and the disk *)
(* interrupts.  A step is one call of readPage, one of the other functions *)
(* or one branch of the loop of simulate.  Of the statistics the times are  *)
(* kept, in w bits; the counters are left out.                             *)
(***************************************************************************)
EXTENDS Gll

CONSTANTS
    Process, Address,
    TraceFile,          \* the processes in the order of the input file
    MaxTrace,           \* bound on the requests of a process
    StartTimes,         \* the times of arrival
    quantum, contextSwitchTime,
    non_mem_inst_length, Frac_mem_inst, Swap_latency, Swap_interrupt_handling_time,
    w,                  \* the width of the times
    FirstDiskRead,      \* nextDiskReadTime at the start
    DiskReadStep        \* and what diskToMemory adds to it

NONMEM  == "NONMEM"
Request == {NONMEM} \cup Address

ASSUME SimulatorAssumption ==
    /\ TraceFile \in Seq(Process) /\ IsInjective(TraceFile)
    /\ Range(TraceFile) = Process /\ Process # {} /\ {NULL, NONMEM} \cap Address = {}
    /\ NULL \notin Process /\ MaxTrace \in Nat /\ StartTimes \subseteq Nat
    /\ quantum \in Nat \ {0} /\ contextSwitchTime \in Nat
    /\ non_mem_inst_length \in Nat \ {0} /\ Frac_mem_inst \in {0, 1}
    /\ {Swap_latency, w} \subseteq Nat /\ Swap_interrupt_handling_time \in Nat \ {0}
    /\ FirstDiskRead \in Nat /\ DiskReadStep \in Nat

VARIABLES
    trace, start_time,          \* the input
    processList, readyProcess, runningProcess, blockedProcess,
    memReq, fracLeft, user_time, OS_time,   \* fields of the PCBs
    userTime, OSTime,           \* of all processes, and of the system
    tlb, pt,                    \* mem_address of tlb[0] and pt[0]
    current_time, nextQuanta, nextDiskReadTime,
    stopTime, simPause,         \* of processSimulator
    done,                       \* the processes in perProcessStats
    pc

input == <<trace, start_time>>
lists == <<processList, readyProcess, runningProcess, blockedProcess>>
pcb   == <<memReq, fracLeft, user_time, OS_time>>
times == <<userTime, OSTime>>
pages == <<tlb, pt>>
clock == <<current_time, nextQuanta, nextDiskReadTime>>
local == <<stopTime, simPause>>
vars  == <<input, lists, pcb, times, pages, clock, local, done, pc>>

\* What is stored of an address, and the pointer it is compared with.
Zero       == <<"zero", 0>>
Byte(a)    == <<"low byte of the pointer to", a>>
Vaddr(a)   == <<"number", a>>
Pointer(a) == <<"pointer to", a>>

\* A list that is read: gll_pushBack for each of its items.
PushAll(list, data) ==
    LET read[n \in 0 .. Len(data)] ==
          IF n = 0 THEN list ELSE gll_pushBack(read[n - 1], data[n])
    IN  read[Len(data)]

Init ==
    /\ trace \in [Process -> UNION {[1 .. n -> Request] : n \in 0 .. MaxTrace}]
    /\ start_time \in [Process -> StartTimes]
    /\ processList = PushAll(gll_init, TraceFile)
    /\ readyProcess = gll_init /\ runningProcess = gll_init /\ blockedProcess = gll_init
    /\ memReq = [p \in Process |-> gll_init]
    /\ fracLeft = [p \in Process |-> 0] /\ user_time = [p \in Process |-> 0]
    /\ OS_time = user_time /\ userTime = 0 /\ OSTime = 0
    /\ tlb = Zero /\ pt = Zero
    /\ current_time = 0 /\ nextQuanta = quantum /\ nextDiskReadTime = FirstDiskRead
    /\ stopTime = 0 /\ simPause = 2
    /\ done = {} /\ pc = "init"

-----------------------------------------------------------------------------
(* readPage and processSimulator *)

running == gll_first(runningProcess)

\* processSimulator returns at the time now, and simulate sets the next quantum.
Return(pause, now) ==
    /\ simPause' = pause /\ pc' = "arrive"
    /\ nextQuanta' = IF now = nextQuanta THEN now + quantum ELSE nextQuanta

NothingRuns ==
    /\ pc = "process" /\ running = NULL /\ Return(2, current_time)
    /\ UNCHANGED <<input, lists, pcb, times, pages, current_time, nextDiskReadTime, stopTime, done>>

DiskInterrupt ==
    /\ pc = "process" /\ running # NULL /\ current_time > nextDiskReadTime
    /\ Return(4, current_time)
    /\ UNCHANGED <<input, lists, pcb, times, pages, current_time, nextDiskReadTime, stopTime, done>>

Continue ==
    /\ pc = "process" /\ running # NULL /\ current_time <= nextDiskReadTime
    /\ stopTime' = current_time + quantum /\ pc' = "read"
    /\ UNCHANGED <<input, lists, pcb, times, pages, clock, simPause, done>>

QuantumEnds ==
    /\ pc = "read" /\ current_time >= stopTime /\ Return(1, current_time)
    /\ UNCHANGED <<input, lists, pcb, times, pages, current_time, nextDiskReadTime, stopTime, done>>

\* The running process uses as much of needed as its quantum has; fracLeft is
\* what it becomes when the request is complete.
Charge(needed, rest) ==
    LET p    == running
        time == IF stopTime - current_time < needed THEN stopTime - current_time ELSE needed
    IN  /\ current_time' = current_time + time
        /\ user_time' = [user_time EXCEPT ![p] = @ + time]
        /\ userTime' = (userTime + time) % 2 ^ w
        /\ fracLeft' = [fracLeft EXCEPT ![p] = IF time < needed THEN needed - time ELSE rest]
        /\ memReq' = [memReq EXCEPT ![p] = IF time < needed THEN @ ELSE gll_pop(@)]

Reads == pc = "read" /\ current_time < stopTime

NoRequest ==
    /\ Reads /\ gll_first(memReq[running]) = NULL /\ Return(-1, current_time)
    /\ UNCHANGED <<input, lists, pcb, times, pages, current_time, nextDiskReadTime, stopTime, done>>

\* Mutant: fracLeft is not reset.
NonMemStale ==
    /\ Reads /\ gll_first(memReq[running]) = NONMEM
    /\ LET left == fracLeft[running]
       IN  Charge(IF left > 0 THEN left ELSE non_mem_inst_length, left)
    /\ IF gll_first(memReq'[running]) = NULL THEN Return(-1, current_time')
       ELSE UNCHANGED <<simPause, pc, nextQuanta>>
    /\ UNCHANGED <<input, lists, OS_time, OSTime, pages, nextDiskReadTime, stopTime, done>>

NonMem ==
    /\ Reads /\ gll_first(memReq[running]) = NONMEM
    /\ LET left == fracLeft[running]
       IN  Charge(IF left > 0 THEN left ELSE non_mem_inst_length, 0)
    /\ IF gll_first(memReq'[running]) = NULL THEN Return(-1, current_time')
       ELSE UNCHANGED <<simPause, pc, nextQuanta>>
    /\ UNCHANGED <<input, lists, OS_time, OSTime, pages, nextDiskReadTime, stopTime, done>>

\* The test of tlb[0] in each round, and of pt[0] in the first and only one.
Resident(a) == tlb = Pointer(a) \/ pt = Pointer(a)

Block ==
    /\ blockedProcess' = gll_pushBack(blockedProcess, running)
    /\ runningProcess' = gll_pop(runningProcess)

\* An address is charged and taken off the list before it is looked up.
Mem ==
    /\ Reads /\ gll_first(memReq[running]) \in Address
    /\ Charge(Frac_mem_inst, fracLeft[running])
    /\ IF gll_first(memReq'[running]) = NULL
       THEN Return(-1, current_time') /\ UNCHANGED <<runningProcess, blockedProcess>>
       ELSE IF Resident(gll_first(memReq[running]))
       THEN UNCHANGED <<runningProcess, blockedProcess, simPause, pc, nextQuanta>>
       ELSE Return(0, current_time') /\ Block
    /\ UNCHANGED <<input, processList, readyProcess, OS_time, OSTime, pages,
                   nextDiskReadTime, stopTime, done>>

-----------------------------------------------------------------------------
(* diskToMemory *)

DiskCalled == pc \in {"disk", "idle disk"}
DiskReturn == pc' = IF pc = "disk" THEN "pause" ELSE "process"
faulted    == gll_first(blockedProcess)
FirstOfFaulted == IF faulted = NULL THEN NULL ELSE gll_first(memReq[faulted])

\* Without a blocked process, or without a request of it, a null pointer is read.
DiskCrash ==
    /\ DiskCalled /\ FirstOfFaulted = NULL
    /\ pc' = "crashed"
    /\ UNCHANGED <<input, lists, pcb, times, pages, clock, local, done>>

SkipNonMem ==
    /\ DiskCalled /\ FirstOfFaulted = NONMEM
    /\ memReq' = [memReq EXCEPT ![faulted] = gll_pop(@)]
    /\ DiskReturn
    /\ UNCHANGED <<input, lists, fracLeft, user_time, OS_time, times, pages, clock, local, done>>

\* The address goes to every entry of both tables: none is ever marked as used, so
\* the search for the least recently used one never starts.

\* Mutant: the process at the end of the list leaves it, not the first.
SwapInLast ==
    /\ DiskCalled /\ FirstOfFaulted \in Address
    /\ current_time' = current_time + Swap_latency
    /\ nextDiskReadTime' = nextDiskReadTime + DiskReadStep
    /\ tlb' = Byte(FirstOfFaulted) /\ pt' = Vaddr(FirstOfFaulted)
    /\ memReq' = [memReq EXCEPT ![faulted] = gll_pop(@)]
    /\ readyProcess' = gll_pushBack(readyProcess, faulted)
    /\ blockedProcess' = gll_remove(blockedProcess, blockedProcess.size - 1)
    /\ DiskReturn
    /\ OS_time' = [OS_time EXCEPT ![faulted] = @ + Swap_interrupt_handling_time]
    /\ UNCHANGED <<input, processList, runningProcess, fracLeft, user_time, times, nextQuanta,
                   local, done>>

SwapIn ==
    /\ DiskCalled /\ FirstOfFaulted \in Address
    /\ current_time' = current_time + Swap_latency
    /\ nextDiskReadTime' = nextDiskReadTime + DiskReadStep
    /\ tlb' = Byte(FirstOfFaulted) /\ pt' = Vaddr(FirstOfFaulted)
    /\ memReq' = [memReq EXCEPT ![faulted] = gll_pop(@)]
    /\ readyProcess' = gll_pushBack(readyProcess, faulted)
    /\ blockedProcess' = gll_pop(blockedProcess)
    /\ DiskReturn
    /\ OS_time' = [OS_time EXCEPT ![faulted] = @ + Swap_interrupt_handling_time]
    /\ UNCHANGED <<input, processList, runningProcess, fracLeft, user_time, times, nextQuanta,
                   local, done>>

-----------------------------------------------------------------------------
(* simulate *)

arriving == gll_first(processList)

\* The trace of the first process of processList is read; it becomes ready.
MoveToReady ==
    /\ memReq' = [memReq EXCEPT ![arriving] = PushAll(@, trace[arriving])]
    /\ readyProcess' = gll_pushBack(readyProcess, arriving)
    /\ processList' = gll_pop(processList)

Due == arriving # NULL /\ start_time[arriving] <= current_time

Arrive ==
    /\ pc \in {"init", "arrive"} /\ Due /\ MoveToReady
    /\ UNCHANGED <<input, runningProcess, blockedProcess, fracLeft, user_time, OS_time, times, pages,
                   clock, local, done, pc>>

\* The name of the first process goes to executionOrder; if none is ready, NULL
\* is in its place.
StartFirst ==
    /\ pc = "init" /\ ~ Due
    /\ runningProcess' = gll_pushBack(runningProcess, gll_first(readyProcess))
    /\ readyProcess' = gll_pop(readyProcess)
    /\ pc' = IF gll_first(runningProcess') = NULL THEN "crashed" ELSE "process"
    /\ UNCHANGED <<input, processList, blockedProcess, pcb, times, pages, clock, local, done>>

AllArrived ==
    /\ pc = "arrive" /\ ~ Due
    /\ pc' = IF simPause = 4 THEN "disk" ELSE "pause"
    /\ UNCHANGED <<input, lists, pcb, times, pages, clock, local, done>>

AfterFault ==
    /\ pc = "pause" /\ simPause = 0
    /\ nextDiskReadTime' = current_time + Swap_latency
    /\ pc' = "schedule"
    /\ UNCHANGED <<input, lists, pcb, times, pages, current_time, nextQuanta, local, done>>

\* with cleanUpProcess, which destroys memReq
AfterEnd ==
    /\ pc = "pause" /\ simPause = -1
    /\ done' = done \cup {running}
    /\ memReq' = [memReq EXCEPT ![running] = gll_init]
    /\ runningProcess' = gll_pop(runningProcess)
    /\ pc' = "schedule"
    /\ UNCHANGED <<input, processList, readyProcess, blockedProcess, fracLeft, user_time,
                   OS_time, times, pages, clock, local>>

AfterInterrupt ==
    /\ pc = "pause" /\ simPause \in {1, 4}
    /\ readyProcess' = gll_pushBack(readyProcess, running)
    /\ runningProcess' = gll_pop(runningProcess)
    /\ nextQuanta' = IF simPause = 1 THEN current_time + quantum ELSE nextQuanta
    /\ pc' = "schedule"
    /\ UNCHANGED <<input, processList, blockedProcess, pcb, times, pages, current_time,
                   nextDiskReadTime, local, done>>

AfterNothing ==
    /\ pc = "pause" /\ simPause = 2 /\ pc' = "schedule"
    /\ UNCHANGED <<input, lists, pcb, times, pages, clock, local, done>>

\* When no process is ready, NULL becomes an entry of runningProcess.
schedulingRR ==
    /\ pc = "schedule"
    /\ runningProcess' = gll_push(runningProcess, gll_first(readyProcess))
    /\ readyProcess' = gll_pop(readyProcess)
    /\ LET time == IF gll_first(runningProcess') = NULL THEN 0 ELSE contextSwitchTime
       IN  /\ current_time' = current_time + time
           /\ OSTime' = (OSTime + time) % 2 ^ w
    /\ pc' = "idle"
    /\ UNCHANGED <<input, processList, blockedProcess, pcb, userTime, pages, nextQuanta,
                   nextDiskReadTime, local, done>>

Idle == running = NULL /\ gll_first(readyProcess) = NULL

NotIdle ==
    /\ pc = "idle" /\ ~ Idle /\ pc' = "process"
    /\ UNCHANGED <<input, lists, pcb, times, pages, clock, local, done>>

\* Mutant: the loop ends when nothing is blocked.
AllDoneEarly ==
    /\ pc = "idle" /\ Idle /\ faulted = NULL
    /\ pc' = "done"
    /\ UNCHANGED <<input, lists, pcb, times, pages, clock, local, done>>

AllDone ==
    /\ pc = "idle" /\ Idle /\ faulted = NULL /\ arriving = NULL
    /\ pc' = "done"
    /\ UNCHANGED <<input, lists, pcb, times, pages, clock, local, done>>

\* Nothing to do before the next process starts.  The clock is set to the last end
\* of a quantum before that, and what is left counts twice.
NextArrival ==
    /\ pc = "idle" /\ Idle /\ faulted = NULL /\ arriving # NULL
    /\ MoveToReady
    /\ LET start  == start_time[arriving]
           behind == IF nextQuanta < start THEN start - nextQuanta ELSE 0
           rounds == (behind + quantum - 1) \div quantum
           now    == IF rounds = 0 THEN current_time ELSE nextQuanta + quantum * (rounds - 1)
       IN  /\ current_time' = start
           /\ OSTime' = (OSTime + 2 * (start - now)) % 2 ^ w
           /\ nextQuanta' = nextQuanta + quantum * rounds
    /\ pc' = "process"
    /\ UNCHANGED <<input, runningProcess, blockedProcess, fracLeft, user_time, OS_time, userTime,
                   pages, nextDiskReadTime, local, done>>

\* Mutant: the clock is put back and the time of the system is not.
NextDiskClock ==
    /\ pc = "idle" /\ Idle /\ faulted # NULL
    /\ current_time' = 0
    /\ pc' = "idle disk"
    /\ UNCHANGED <<input, lists, pcb, times, pages, nextQuanta, nextDiskReadTime, local, done>>

\* timeOfNextPendingDiskInterrupt is 0: no process that starts then or later
\* goes first, and the clock is put back.
NextDiskInterrupt ==
    /\ pc = "idle" /\ Idle /\ faulted # NULL
    /\ current_time' = 0 /\ OSTime' = (OSTime - current_time) % 2 ^ w
    /\ pc' = "idle disk"
    /\ UNCHANGED <<input, lists, pcb, userTime, pages, nextQuanta, nextDiskReadTime, local, done>>

Stop == pc \in {"done", "crashed"} /\ UNCHANGED vars

Next ==
    \/ Arrive \/ StartFirst
    \/ NothingRuns \/ DiskInterrupt \/ Continue \/ QuantumEnds
    \/ NoRequest \/ NonMem \/ Mem
    \/ AllArrived \/ DiskCrash \/ SkipNonMem \/ SwapIn
    \/ AfterFault \/ AfterEnd \/ AfterInterrupt \/ AfterNothing \/ schedulingRR
    \/ NotIdle \/ AllDone \/ NextArrival \/ NextDiskInterrupt
    \/ Stop

Spec == Init /\ [][Next]_vars
FairSpec == Spec /\ WF_vars(Next)

-----------------------------------------------------------------------------
(* Properties *)

\* How often p is in a list.
Entries(list, p) == Cardinality({k \in DOMAIN Data(list) : Data(list)[k] = p})

\* A process is always in one list, once, or finished: the loop of simulate
\* (simulator.c:516) neither loses one nor runs it twice.
OnePlace ==
    \A p \in Process :
        Entries(processList, p) + Entries(readyProcess, p) + Entries(runningProcess, p)
          + Entries(blockedProcess, p) + (IF p \in done THEN 1 ELSE 0) = 1

\* A request is executed, or dropped by a process that waits.
Execute(s, request) ==
    IF s.waits THEN [waits |-> request = NONMEM, time |-> s.time]
    ELSE IF request = NONMEM THEN [waits |-> FALSE, time |-> s.time + non_mem_inst_length]
    ELSE [waits |-> TRUE, time |-> s.time + Frac_mem_inst]

\* The time of the first n requests of a process, and whether it then waits for the
\* disk.  After an address that is not the last request it does: what follows is
\* dropped, up to and with the next address.
Charged(requests) ==
    LET charged[n \in 0 .. Len(requests)] ==
          IF n = 0 THEN [waits |-> FALSE, time |-> 0]
          ELSE Execute(charged[n - 1], requests[n])
    IN  charged

\* A process that finished was charged each request it executed, once and in full:
\* neither an instruction that quanta cut into pieces (fracLeft, simulator.c:150)
\* nor a fault, for which readPage and diskToMemory each take a request off the
\* list (simulator.c:189, 387, 476), changes the time of another.
ChargedForExecuted == \A p \in done : user_time[p] = Charged(trace[p])[Len(trace[p])].time

\* The times that are printed agree: the user time with that of the processes, and
\* the user and the OS time with the clock, which goes backwards when only blocked
\* processes are left (simulator.c:659), but for the waits for the disk, each of
\* which is in OS_time.  Idle time breaks this: it is counted otherwise
\* (simulator.c:633).
TimesAddUp ==
    LET Sum(f) == FoldFunction(+, 0, f)
        Waits  == Sum(OS_time) \div Swap_interrupt_handling_time
    IN  /\ userTime = Sum(user_time) % 2 ^ w
        /\ Range(start_time) = {0} =>
              (userTime + OSTime + Swap_latency * Waits) % 2 ^ w = current_time % 2 ^ w

\* On the lists as they are after each round of simulate, NULL entries among them
\* (simulator.c:232), each operation of gll.c, those the simulator does not call too,
\* does what it does to the sequence (gll.c:129, 246).
ListOperationsAgree ==
    pc = "idle" =>
        \A list \in {processList, readyProcess, runningProcess, blockedProcess} :
            OperationsAgree(list, Head(TraceFile))

\* The README lists inputs with an "infinite loop": the loop ends on every input,
\* in a crash or when every process has finished.  "Something is still pending"
\* (simulator.c:91) is never printed, although gll_first takes a NULL entry of
\* runningProcess for an empty list.
SimulationEnds == <>(pc = "crashed" \/ (pc = "done" /\ done = Process))
=============================================================================
