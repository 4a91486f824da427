------------------------------- MODULE Mdriver -------------------------------
(***************************************************************************)
(* The trace driver of project 2 around the evaluation of one trace        *)
(* (main, run_tests, printresults and timeout_handler in mdriver.c): which *)
(* traces are checked, measured and counted, and what the one alarm of the *)
(* program, which may ring anywhere, does to them.  What eval_mm_valid     *)
(* checks of a trace is in MallocLab.tla; here a trace is only known by    *)
(* what the allocator makes of it.                                         *)
(***************************************************************************)
EXTENDS Fcyc, FiniteSetsExt

CONSTANTS
    MaxTraces,          \* bound on num_global_tracefiles
    Cost, LibcCost,     \* of a run of a trace
    Weight,             \* the weights of traces
    Util                \* the results of eval_mm_util

\* Checked and right twice, wrong at once, wrong in the second check only
\* because the heap is not as new, never done.
Behaviour == {"right", "wrong", "wrong again", "loops"}

ASSUME MdriverAssumption ==
    /\ MaxTraces \in Nat \ {0} /\ Cost \in Nat /\ LibcCost \in Nat
    /\ Weight \subseteq {"WNONE", "WALL", "WUTIL", "WPERF"} /\ Util \subseteq Nat

VARIABLES
    num,                \* num_global_tracefiles
    behaves, weights,   \* of the traces
    onetime_flag,
    alarm,              \* "none", "set" or "rung"
    jmpbuf,             \* timeout_jmpbuf is set
    errors,
    libc_stats, mm_stats,
    global_libc_sum_stats, global_mm_sum_stats,
    total,              \* what main adds up for the index
    i, pass, pc

input  == <<num, behaves, weights, onetime_flag>>
stats  == <<libc_stats, mm_stats>>
sums   == <<global_libc_sum_stats, global_mm_sum_stats, total>>
vars   == <<fcycvars, input, alarm, jmpbuf, errors, stats, sums, i, pass, pc>>

NoStats == [weight |-> "WNONE", ops |-> 0, valid |-> FALSE, secs |-> 0, util |-> 0]
NoSum   == [util |-> <<0, 0>>, ops |-> 0, secs |-> 0]

Init ==
    /\ FcycInit
    /\ num \in 1 .. MaxTraces
    /\ behaves \in [1 .. num -> Behaviour] /\ weights \in [1 .. num -> Weight]
    /\ onetime_flag \in BOOLEAN
    /\ alarm \in {"none", "set"} /\ jmpbuf = FALSE /\ errors = 0
    /\ libc_stats = [k \in 1 .. num |-> NoStats] /\ mm_stats = libc_stats
    /\ global_libc_sum_stats = NoSum /\ global_mm_sum_stats = NoSum /\ total = NoSum
    /\ i = 1 /\ pass = 1
    /\ pc \in {"libc", "reference"}     \* with and without -l

-----------------------------------------------------------------------------
(* Sums over the traces of set T *)

PerfOf(T, s) == {k \in T : s[k].weight \in {"WALL", "WPERF"}}
UtilOf(T, s) == {k \in T : s[k].weight \in {"WALL", "WUTIL"}}
Sum(f(_), T) == MapThenSumSet(f, T)

\* The average utilization is a sum and the number of traces in it.
SumOver(T, s) ==
    [util |-> LET u == UtilOf(T, s)
              IN  <<Sum(LAMBDA k : s[k].util, u), Cardinality(u)>>,
     ops  |-> Sum(LAMBDA k : s[k].ops, PerfOf(T, s)),
     secs |-> Sum(LAMBDA k : s[k].secs, PerfOf(T, s))]

Valid(s) == {k \in 1 .. num : s[k].valid}

printresults(s) == IF errors = 0 THEN SumOver(Valid(s), s) ELSE NoSum

-----------------------------------------------------------------------------
(* main, up to run_tests *)

read_trace(s) == [s EXCEPT ![i].weight = weights[i], ![i].ops = i]

\* With libc a trace is valid, or eval_libc_valid ends the program (Exit); what its
\* requests do is libc's.
LibcTrace ==
    /\ pc = "libc" /\ i <= num
    /\ libc_stats' = [read_trace(libc_stats) EXCEPT ![i].valid = TRUE]
    /\ fsec(LibcCost) /\ pc' = "libc speed"
    /\ UNCHANGED <<input, alarm, jmpbuf, errors, mm_stats, sums, i, pass>>

LibcTimed ==
    /\ pc = "libc speed" /\ FreeValues
    /\ libc_stats' = [libc_stats EXCEPT ![i].secs = result]
    /\ i' = i + 1 /\ pc' = "libc"
    /\ UNCHANGED <<input, alarm, jmpbuf, errors, mm_stats, sums, pass>>

LibcDone ==
    /\ pc = "libc" /\ i > num
    /\ global_libc_sum_stats' = printresults(libc_stats)
    /\ i' = 1 /\ pc' = "reference"
    /\ UNCHANGED <<fcycvars, input, alarm, jmpbuf, errors, stats, global_mm_sum_stats,
                   total, pass>>

measure_ref_throughput ==
    /\ pc = "reference" /\ pc' = "read"
    /\ UNCHANGED <<fcycvars, input, alarm, jmpbuf, errors, stats, sums, i, pass>>

-----------------------------------------------------------------------------
(* run_tests *)

ReadTrace ==
    /\ pc = "read" /\ i <= num
    /\ mm_stats' = read_trace(mm_stats) /\ pc' = "setjmp"
    /\ UNCHANGED <<fcycvars, input, alarm, jmpbuf, errors, libc_stats, sums, i, pass>>

SetJmp ==
    /\ pc = "setjmp" /\ jmpbuf' = TRUE /\ pass' = 1 /\ pc' = "valid"
    /\ UNCHANGED <<fcycvars, input, alarm, errors, stats, sums, i>>

Checked(valid) ==
    /\ mm_stats' = [mm_stats EXCEPT ![i].valid = valid]
    /\ pc' = IF onetime_flag THEN "report" ELSE IF valid THEN "util" ELSE "free"

CheckPasses ==
    /\ pc = "valid" /\ behaves[i] \in {"right"} \cup (IF pass = 1 THEN {"wrong again"} ELSE {})
    /\ IF pass = 1 THEN pass' = 2 /\ UNCHANGED <<mm_stats, pc>>
                   ELSE Checked(TRUE) /\ UNCHANGED pass
    /\ UNCHANGED <<fcycvars, input, alarm, jmpbuf, errors, libc_stats, sums, i>>

\* with malloc_error
CheckFails ==
    /\ pc = "valid" /\ behaves[i] = (IF pass = 1 THEN "wrong" ELSE "wrong again")
    /\ errors' = errors + 1 /\ Checked(FALSE)
    /\ UNCHANGED <<fcycvars, input, alarm, jmpbuf, libc_stats, sums, i, pass>>

eval_mm_util ==
    /\ pc = "util"
    /\ \E u \in Util : mm_stats' = [mm_stats EXCEPT ![i].util = u]
    /\ fsec(Cost) /\ pc' = "speed"
    /\ UNCHANGED <<input, alarm, jmpbuf, errors, libc_stats, sums, i, pass>>

Timed ==
    /\ pc = "speed" /\ FreeValues
    /\ mm_stats' = [mm_stats EXCEPT ![i].secs = result] /\ pc' = "free"
    /\ UNCHANGED <<input, alarm, jmpbuf, errors, libc_stats, sums, i, pass>>

\* The loops of fsec around eval_mm_speed and eval_libc_speed, of which only the cost
\* is known here.
Time ==
    /\ FindReps \/ TakeSample
    /\ UNCHANGED <<input, alarm, jmpbuf, errors, stats, sums, i, pass, pc>>

FreeTrace ==
    /\ pc = "free" /\ i' = i + 1 /\ pc' = "read"
    /\ UNCHANGED <<fcycvars, input, alarm, jmpbuf, errors, stats, sums, pass>>

RunDone ==
    /\ pc = "read" /\ i > num /\ pc' = "report"
    /\ UNCHANGED <<fcycvars, input, alarm, jmpbuf, errors, stats, sums, i, pass>>

-----------------------------------------------------------------------------
(* The alarm, and the ends of the program *)

Ended == pc \in {"end", "exit", "undefined"}

\* Mutants: the trace is tried again; the tests stop, as the comment on run_tests
\* has it.
LandRetry ==
    /\ mm_stats' = [mm_stats EXCEPT ![i].valid = FALSE]
    /\ Abandon /\ pc' = "valid"
LandStop ==
    /\ mm_stats' = [mm_stats EXCEPT ![i].valid = FALSE]
    /\ Abandon /\ pc' = "report"

\* setjmp returns a second time, to the trace that i has reached.
Land ==
    /\ mm_stats' = [mm_stats EXCEPT ![i].valid = FALSE]
    /\ Abandon /\ pc' = "free"

\* Mutant: no error is counted.
RingQuiet ==
    /\ alarm = "set" /\ pc \in {"valid", "util", "speed"}
    /\ alarm' = "rung" /\ Land
    /\ UNCHANGED <<input, jmpbuf, errors, libc_stats, sums, i, pass>>

Ring ==
    /\ alarm = "set" /\ pc \in {"valid", "util", "speed"}
    /\ alarm' = "rung" /\ errors' = 1 /\ Land
    /\ UNCHANGED <<input, jmpbuf, libc_stats, sums, i, pass>>

\* Between two traces the jump goes to the setjmp of the one before, with a
\* pointer to a trace that may be free: the process dies, or goes on as if the
\* next trace had timed out.
RingBetween ==
    /\ alarm = "set" /\ pc \in {"free", "read", "setjmp"} /\ jmpbuf /\ i <= num
    /\ alarm' = "rung" /\ errors' = 1
    /\ Land \/ (pc' = "undefined" /\ UNCHANGED <<fcycvars, mm_stats>>)
    /\ UNCHANGED <<input, jmpbuf, libc_stats, sums, i, pass>>

\* Before the first setjmp and after run_tests there is nothing to jump to.
RingOutside ==
    /\ alarm = "set" /\ ~ Ended
    /\ ~ jmpbuf \/ pc = "report" \/ (pc = "read" /\ i > num)
    /\ alarm' = "rung" /\ errors' = 1 /\ pc' = "undefined"
    /\ UNCHANGED <<fcycvars, input, jmpbuf, stats, sums, i, pass>>

\* unix_error and app_error: libc fails, the reference driver or a trace cannot
\* be read, or malloc fails where it did not in eval_mm_valid.
Exit ==
    /\ pc \in {"libc", "libc speed", "reference", "read", "util", "speed"} /\ i <= num
    /\ pc' = "exit"
    /\ UNCHANGED <<fcycvars, input, alarm, jmpbuf, errors, stats, sums, i, pass>>

Report ==
    /\ pc = "report"
    /\ global_mm_sum_stats' = IF onetime_flag THEN NoSum ELSE printresults(mm_stats)
    /\ total' = SumOver(1 .. num, mm_stats)
    /\ pc' = "end"
    /\ UNCHANGED <<fcycvars, input, alarm, jmpbuf, errors, stats, global_libc_sum_stats,
                   i, pass>>

Stop == Ended /\ UNCHANGED vars

main ==
    \/ LibcTrace \/ LibcTimed \/ LibcDone \/ measure_ref_throughput
    \/ ReadTrace \/ SetJmp \/ CheckPasses \/ CheckFails \/ eval_mm_util \/ Time \/ Timed
    \/ FreeTrace \/ RunDone \/ Exit \/ Report

timeout_handler == Ring \/ RingBetween \/ RingOutside

Next == main \/ timeout_handler \/ Stop
Spec == Init /\ [][Next]_vars
FairSpec == Spec /\ WF_vars(main) /\ WF_vars(timeout_handler)

-----------------------------------------------------------------------------
(* Properties *)

\* A performance index is given only when no error was counted, and then every
\* trace was found valid and measured: main adds up the times and utilizations of
\* all traces (mdriver.c:543), which "are only defined if valid is true"
\* (mdriver.c:125), and gets what printresults gets from the valid ones.
IndexOfValidTraces ==
    pc = "end" /\ errors = 0 /\ ~ onetime_flag =>
        /\ Valid(mm_stats) = 1 .. num
        /\ total = global_mm_sum_stats
        /\ \A k \in 1 .. num : mm_stats[k].secs >= Cost + Min(Noise)

\* A trace that the allocator gets wrong is never counted as correct, and one that
\* it gets right always is, but for the one that the alarm interrupted: the traces
\* behind that one are still checked (mdriver.c:269).
TimeoutHitsOne ==
    pc = "end" /\ ~ onetime_flag =>
        LET right == {k \in 1 .. num : behaves[k] = "right"}
        IN  /\ Valid(mm_stats) \subseteq right
            /\ Cardinality(right \ Valid(mm_stats)) <= (IF alarm = "rung" THEN 1 ELSE 0)

\* Without an endless trace the program ends, however the clock varies; and an
\* alarm that is still set ends the check of a trace, endless or not.  After it
\* has rung nothing ends the next endless trace.
EvaluationEnds ==
    /\ (\A k \in 1 .. num : behaves[k] # "loops") ~> Ended
    /\ \A k \in 1 .. MaxTraces : (pc = "valid" /\ i = k /\ alarm = "set") ~> (i > k \/ Ended)
=============================================================================
