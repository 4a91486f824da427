--------------------------------- MODULE Fcyc ---------------------------------
(***************************************************************************)
(* The timing of project 2 (fsec in fcyc.c, on the clock of clock.c): the  *)
(* function under test is repeated until the clock can tell how long that  *)
(* takes, and then timed until the kbest smallest samples are close to     *)
(* each other or there are maxsamples of them.  fcyc is the same code with *)
(* cycles for seconds; mdriver does not call it.                           *)
(***************************************************************************)
EXTENDS Integers, SequencesExt

CONSTANTS
    kbest, maxsamples,
    epsilon,            \* in percent
    min_time,           \* min_ticks * timer_resolution, in units of the cost
    min_reps,
    Noise               \* what the clock may add to one run of the function

ASSUME FcycAssumption ==
    /\ kbest \in Nat \ {0} /\ maxsamples \in Nat \ {0} /\ epsilon \in Nat
    /\ min_time \in Nat \ {0} /\ min_reps \in Nat \ {0} /\ Noise \subseteq Int
    /\ IsFiniteSet(Noise)

VARIABLES
    timing,             \* where fsec is: "idle", "reps", "samples" or "done"
    cost,               \* what one run of the function takes
    reps,
    values,             \* the best samples, in order
    samples,            \* all samples (KEEP_SAMPLES); samplecount is its length
    result

fcycvars == <<timing, cost, reps, values, samples, result>>

FcycInit ==
    /\ timing = "idle" /\ cost = 0 /\ reps = 0
    /\ values = <<>> /\ samples = <<>> /\ result = 0

\* A call of fsec for a function that takes c.
fsec(c) ==
    /\ timing = "idle"
    /\ timing' = "reps" /\ cost' = c /\ reps' = min_reps
    /\ UNCHANGED <<values, samples, result>>

\* What the clock may say of reps runs.
get_timer == {reps * (cost + n) : n \in Noise}

FindReps ==
    /\ timing = "reps"
    /\ \E sec \in get_timer :
         IF sec < min_time
         THEN reps' = reps + reps /\ UNCHANGED <<timing, values, samples>>
         ELSE timing' = "samples" /\ values' = <<>> /\ samples' = <<>> /\ UNCHANGED reps
    /\ UNCHANGED <<cost, result>>

\* The insertion sort from the end on.
Insert(s, val) ==
    LET pos == CHOOSE p \in 0 .. Len(s) : /\ p = 0 \/ s[p] <= val
                                          /\ \A q \in p + 1 .. Len(s) : s[q] > val
    IN  SubSeq(s, 1, pos) \o <<val>> \o SubSeq(s, pos + 1, Len(s))

\* Mutant: compares with the best value, not with the worst of the kbest.
add_sample_best(val) ==
    IF Len(samples) < kbest THEN Insert(values, val)
    ELSE IF val < values[1] THEN Insert(Front(values), val) ELSE values

add_sample(val) ==
    IF Len(samples) < kbest THEN Insert(values, val)
    ELSE IF val < values[kbest] THEN Insert(Front(values), val) ELSE values

has_converged(vals, count) ==
    count >= kbest /\ (100 + epsilon) * vals[1] >= 100 * vals[kbest]

\* A reading that is not positive is not a sample.
TakeSample ==
    /\ timing = "samples"
    /\ \E sec \in {t \div reps : t \in get_timer} :
         IF sec > 0
         THEN values' = add_sample(sec) /\ samples' = Append(samples, sec)
         ELSE UNCHANGED <<values, samples>>
    /\ IF has_converged(values', Len(samples')) \/ Len(samples') >= maxsamples
       THEN timing' = "done" /\ result' = values'[1]
       ELSE UNCHANGED <<timing, result>>
    /\ UNCHANGED <<cost, reps>>

FreeValues ==
    /\ timing = "done" /\ timing' = "idle" /\ values' = <<>> /\ samples' = <<>>
    /\ UNCHANGED <<cost, reps, result>>

\* A longjmp out of fsec; values stays allocated until the next init_sampler.
Abandon ==
    /\ timing' = "idle"
    /\ UNCHANGED <<cost, reps, values, samples, result>>

-----------------------------------------------------------------------------
(* Properties *)

Below(s, v)    == Cardinality({k \in DOMAIN s : s[k] < v})
NotAbove(s, v) == Cardinality({k \in DOMAIN s : s[k] <= v})

\* values has the kbest smallest of all samples, the k-th smallest at k, and the time
\* that fsec returns is the smallest (add_sample replaces the worst value and sorts),
\* also when an alarm has ended the measurement before.
BestSamples ==
    /\ Len(values) = IF Len(samples) < kbest THEN Len(samples) ELSE kbest
    /\ \A k \in DOMAIN values :
         Below(samples, values[k]) < k /\ k <= NotAbove(samples, values[k])
    /\ timing = "samples" => Len(samples) < maxsamples
    /\ timing = "done" => \A k \in DOMAIN samples : result <= samples[k]
=============================================================================
