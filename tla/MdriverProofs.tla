---------------------------- MODULE MdriverProofs ----------------------------
(***************************************************************************)
(* Proofs about Mdriver.tla, and the timing of Fcyc.tla in it, for any     *)
(* number of traces, any behaviour of the allocator on them, any moment of *)
(* the alarm and any clock.                                                *)
(***************************************************************************)
EXTENDS Mdriver, FiniteSetTheorems, SequenceTheorems, TLAPS

-----------------------------------------------------------------------------
(* The inductive invariant *)

\* What one run of the function under test may seem to take.
Reading == {cost + n : n \in Noise}

\* While fsec measures, it keeps times that the clock gave for one run, and at the
\* end at least one of them, the first of which it returns.
Measured ==
    /\ cost \in Nat /\ reps \in Nat /\ result \in Int
    /\ timing \in {"reps", "samples"} => reps > 0
    /\ timing \in {"samples", "done"} =>
         /\ values \in Seq(Reading) /\ samples \in Seq(Int)
         /\ Len(values) = IF Len(samples) < kbest THEN Len(samples) ELSE kbest
    /\ timing = "done" => result \in Reading

Stats == [weight : {"WNONE"} \cup Weight, ops : Nat, valid : BOOLEAN, secs : Int, util : Nat]

Types ==
    /\ num \in 1 .. MaxTraces /\ i \in 1 .. num + 1 /\ pass \in {1, 2}
    /\ behaves \in [1 .. num -> Behaviour] /\ weights \in [1 .. num -> Weight]
    /\ onetime_flag \in BOOLEAN /\ alarm \in {"none", "set", "rung"} /\ errors \in Nat
    /\ mm_stats \in [1 .. num -> Stats]

\* Where the driver is: inside a trace, past run_tests, or measuring.
Places ==
    /\ pc \in {"libc speed", "setjmp", "valid", "util", "speed", "free"} => i <= num
    /\ pc \in {"report", "end"} /\ ~ onetime_flag => i = num + 1
    /\ pc = "reference" => i = 1
    /\ pc = "speed" => cost = Cost

\* From the call of run_tests on, i counts the traces of the allocator.
Testing == pc \in {"read", "setjmp", "valid", "util", "speed", "free", "report", "end"}

\* The traces whose check has come to an end, and those that were measured as well.
Behind == {k \in 1 .. num : Testing /\ (k < i \/ (k = i /\ pc \in {"util", "speed", "free"}))}
Done   == {k \in 1 .. num : Testing /\ (k < i \/ (k = i /\ pc = "free"))}

\* Without an error each trace that is behind the driver is valid and measured.
NoErrorYet ==
    errors = 0 /\ ~ onetime_flag =>
        /\ \A k \in Behind : mm_stats[k].valid
        /\ \A k \in Done : mm_stats[k].secs >= Cost + Min(Noise)

\* The right traces behind the driver that do not count.
Missed == {k \in Behind : behaves[k] = "right" /\ ~ mm_stats[k].valid}

OnlyOneHit ==
    /\ \A k \in 1 .. num : mm_stats[k].valid => behaves[k] = "right"
    /\ alarm # "rung" => Missed = {}
    /\ \A j, k \in Missed : j = k

\* The verdict of main is given on these.
Verdict ==
    pc = "end" /\ ~ onetime_flag =>
        /\ global_mm_sum_stats = printresults(mm_stats)
        /\ total = SumOver(1 .. num, mm_stats)

IInv == Measured /\ Types /\ Places /\ NoErrorYet /\ OnlyOneHit /\ Verdict

-----------------------------------------------------------------------------
(* The timing *)

\* A nonempty finite set of integers has a least element: of its parts up to an
\* element one is minimal.
LEMMA LeastInteger ==
    ASSUME NEW S \in SUBSET Int, IsFiniteSet(S), S # {}
    PROVE  \E m \in S : \A k \in S : m <= k
<1> DEFINE UpTo(m) == {k \in S : k <= m}
           Less    == StrictSubsetOrdering(S)
<1>1. IsWellFoundedOn(Less, FiniteSubsetsOf(S))
  BY FS_StrictSubsetOrderingWellFounded
<1>2. \A m \in S : UpTo(m) \in FiniteSubsetsOf(S)
  <2>1. \A m \in S : UpTo(m) \in SUBSET S
    OBVIOUS
  <2>2. \A m \in S : IsFiniteSet(UpTo(m))
    BY <2>1, FS_Subset
  <2> QED BY <2>1, <2>2 DEF FiniteSubsetsOf
<1>3. ASSUME NEW k \in S, NEW m \in S, k < m PROVE <<UpTo(k), UpTo(m)>> \in Less
  <2>0. k \in Int /\ m \in Int
    OBVIOUS
  <2>1. m \in UpTo(m) /\ m \notin UpTo(k)
    BY <1>3, <2>0
  <2>2. ASSUME NEW x \in UpTo(k) PROVE x \in UpTo(m)
    <3>1. x \in S /\ x <= k /\ x \in Int
      BY <2>2
    <3>2. x <= m
      BY <3>1, <2>0, <1>3
    <3> QED BY <3>1, <3>2
  <2>3. UpTo(k) \in SUBSET S /\ UpTo(m) \in SUBSET S
    OBVIOUS
  <2> HIDE DEF UpTo
  <2>4. UpTo(k) \subseteq UpTo(m) /\ UpTo(k) # UpTo(m)
    BY <2>1, <2>2
  <2> QED BY <2>3, <2>4 DEF StrictSubsetOrdering, Less
<1> HIDE DEF Less
<1>4. {UpTo(m) : m \in S} \subseteq FiniteSubsetsOf(S) /\ {UpTo(m) : m \in S} # {}
  BY <1>2
<1> HIDE DEF UpTo
<1>5. PICK B \in {UpTo(m) : m \in S} : \A C \in {UpTo(m) : m \in S} : ~ (<<C, B>> \in Less)
  BY <1>1, <1>4, WFMin
<1>6. PICK m \in S : B = UpTo(m)
  BY <1>5
<1>7. \A k \in S : ~ (k < m)
  BY <1>3, <1>5, <1>6
<1> QED BY <1>7

\* No reading is below the cost and the least that the clock adds.
LEMMA LeastNoise ==
    ASSUME NEW n \in Noise
    PROVE  Min(Noise) \in Int /\ Min(Noise) <= n
<1>1. PICK m \in Noise : \A k \in Noise : m <= k
  BY LeastInteger, FcycAssumption
<1> QED BY <1>1, FcycAssumption DEF Min

\* The sequence t is s with val put in behind its first p elements.
Inserted(s, val, p, t) ==
    /\ p \in 0 .. Len(s) /\ (p = 0 \/ s[p] <= val) /\ \A q \in p + 1 .. Len(s) : s[q] > val
    /\ Len(t) = Len(s) + 1
    /\ \A k \in 1 .. Len(s) + 1 :
         t[k] = IF k <= p THEN s[k] ELSE IF k = p + 1 THEN val ELSE s[k - 1]

\* The insertion sort finds a place in the list, which is longer by one value then.
LEMMA InsertSorts ==
    ASSUME NEW S \in SUBSET Int, NEW s \in Seq(S), NEW val \in S
    PROVE  /\ Insert(s, val) \in Seq(S) /\ Len(Insert(s, val)) = Len(s) + 1
           /\ \E p \in 0 .. Len(s) : Inserted(s, val, p, Insert(s, val))
<1> DEFINE n == Len(s)
           Place(p) == (p = 0 \/ s[p] <= val) /\ \A q \in p + 1 .. n : s[q] > val
           pos == CHOOSE p \in 0 .. n : Place(p)
<1>1. n \in Nat /\ \A k \in 1 .. n : s[k] \in S
  BY LenProperties, ElementOfSeq
<1>2. \E p \in 0 .. n : Place(p)
  <2> DEFINE D == {d \in 0 .. n : n - d = 0 \/ s[n - d] <= val}
  <2>1. n \in D
    BY <1>1
  <2>2. IsFiniteSet(D) /\ D \in SUBSET Int
    <3>1. IsFiniteSet(0 .. n)
      BY <1>1, FS_Interval
    <3> QED BY <3>1, FS_Subset
  <2>3. PICK d \in D : \A k \in D : d <= k
    BY <2>1, <2>2, LeastInteger
  <2>4. n - d \in 0 .. n /\ (n - d = 0 \/ s[n - d] <= val)
    BY <1>1, <2>3
  <2>5. ASSUME NEW q \in n - d + 1 .. n PROVE s[q] > val
    <3>1. q \in 1 .. n /\ n - q \in 0 .. n /\ n - (n - q) = q /\ ~ (d <= n - q) /\ q # 0
      BY <1>1, <2>3
    <3>2. n - q \notin D
      BY <3>1, <2>3
    <3>3. ~ (s[q] <= val)
      BY <3>1, <3>2
    <3>4. s[q] \in Int /\ val \in Int
      BY <3>1, <1>1
    <3> HIDE DEF D
    <3> QED BY <3>3, <3>4
  <2> QED BY <2>4, <2>5
<1>3. pos \in 0 .. n
  BY <1>2
<1>4. Insert(s, val) = SubSeq(s, 1, pos) \o <<val>> \o SubSeq(s, pos + 1, n)
  BY DEF Insert
<1> HIDE DEF pos
<1>5. SubSeq(s, 1, pos) \in Seq(S) /\ Len(SubSeq(s, 1, pos)) = pos
  <2>1. \A k \in 1 .. pos : s[k] \in S
    BY <1>1, <1>3
  <2>2. /\ SubSeq(s, 1, pos) \in Seq(S)
        /\ Len(SubSeq(s, 1, pos)) = IF 1 <= pos THEN pos - 1 + 1 ELSE 0
    BY <2>1, <1>1, <1>3, SubSeqProperties
  <2> QED BY <2>2, <1>1, <1>3
<1>6. SubSeq(s, pos + 1, n) \in Seq(S) /\ Len(SubSeq(s, pos + 1, n)) = n - pos
  <2>1. \A k \in pos + 1 .. n : s[k] \in S
    BY <1>1, <1>3
  <2>2. /\ SubSeq(s, pos + 1, n) \in Seq(S)
        /\ Len(SubSeq(s, pos + 1, n)) = IF pos + 1 <= n THEN n - (pos + 1) + 1 ELSE 0
    BY <2>1, <1>1, <1>3, SubSeqProperties
  <2> QED BY <2>2, <1>1, <1>3
<1>7. <<val>> \in Seq(S) /\ Len(<<val>>) = 1
  OBVIOUS
<1> DEFINE front == SubSeq(s, 1, pos)
           back  == SubSeq(s, pos + 1, n)
           upto  == front \o <<val>>
<1>8. /\ upto \in Seq(S) /\ Len(upto) = pos + 1
      /\ \A k \in 1 .. pos + 1 : upto[k] = IF k <= pos THEN front[k] ELSE <<val>>[k - pos]
  BY <1>5, <1>7, ConcatProperties
<1>9. /\ \A k \in 1 .. pos : front[k] = s[k]
      /\ back \in Seq(S) /\ Len(back) = n - pos
      /\ \A k \in 1 .. n - pos : back[k] = s[pos + k]
  <2>1. \A k \in 1 .. pos : front[k] = s[1 + k - 1] /\ 1 + k - 1 = k
    BY <1>3, <1>5
  <2>2. \A k \in 1 .. n - pos : back[k] = s[pos + 1 + k - 1] /\ pos + 1 + k - 1 = pos + k
    BY <1>3, <1>6
  <2> QED BY <1>6, <2>1, <2>2
<1> HIDE DEF front, back, upto
<1>10. /\ upto \o back \in Seq(S)
       /\ Len(upto \o back) = (pos + 1) + (n - pos)
       /\ \A k \in 1 .. (pos + 1) + (n - pos) :
            (upto \o back)[k] = IF k <= pos + 1 THEN upto[k] ELSE back[k - (pos + 1)]
  <2>1. upto \in Seq(S) /\ back \in Seq(S) /\ Len(upto) = pos + 1 /\ Len(back) = n - pos
    BY <1>8, <1>9
  <2>2. /\ upto \o back \in Seq(S)
        /\ Len(upto \o back) = Len(upto) + Len(back)
        /\ \A k \in 1 .. Len(upto) + Len(back) :
             (upto \o back)[k] = IF k <= Len(upto) THEN upto[k] ELSE back[k - Len(upto)]
    BY ONLY <2>1, ConcatProperties
  <2> QED BY <2>1, <2>2
<1>11. ASSUME NEW k \in 1 .. n + 1
       PROVE  (upto \o back)[k]
                = IF k <= pos THEN s[k] ELSE IF k = pos + 1 THEN val ELSE s[k - 1]
  <2>1. k \in 1 .. (pos + 1) + (n - pos)
    BY <1>1, <1>3
  <2>2. CASE k <= pos + 1
    <3>1. k \in 1 .. pos + 1 /\ (k <= pos => k \in 1 .. pos)
      BY <1>3, <2>2
    <3>2. (upto \o back)[k] = IF k <= pos THEN front[k] ELSE <<val>>[k - pos]
      BY <1>8, <1>10, <2>1, <2>2, <3>1
    <3>3. ~ (k <= pos) => k = pos + 1 /\ k - pos = 1
      BY <1>3, <3>1
    <3>4. CASE k <= pos
      BY <1>9, <3>1, <3>2, <3>4
    <3>5. CASE ~ (k <= pos)
      <4>1. (upto \o back)[k] = <<val>>[1]
        BY <3>2, <3>3, <3>5
      <4> QED BY <3>3, <3>5, <4>1
    <3> QED BY <3>4, <3>5
  <2>3. CASE ~ (k <= pos + 1)
    <3> DEFINE l == k - (pos + 1)
    <3>1. l \in 1 .. n - pos /\ pos + l = k - 1 /\ ~ (k <= pos) /\ k # pos + 1
      BY <1>1, <1>3, <2>3
    <3>2. (upto \o back)[k] = back[l]
      BY <1>10, <2>1, <2>3
    <3> HIDE DEF l
    <3>3. back[l] = s[pos + l]
      BY <1>9, <3>1
    <3> QED BY <3>1, <3>2, <3>3
  <2> QED BY <2>2, <2>3
<1>12. Place(pos)
  BY <1>2 DEF pos
<1>13. (pos + 1) + (n - pos) = n + 1
  BY <1>1, <1>3
<1>14. Inserted(s, val, pos, upto \o back)
  BY <1>3, <1>10, <1>11, <1>12, <1>13 DEF Inserted
<1>15. Insert(s, val) = upto \o back
  BY <1>4 DEF upto, front, back
<1> HIDE DEF Place
<1>16. Insert(s, val) \in Seq(S)
  BY <1>10, <1>15
<1>17. Len(Insert(s, val)) = n + 1
  BY <1>10, <1>13, <1>15
<1>18. Inserted(s, val, pos, Insert(s, val))
  BY <1>14, <1>15
<1> QED BY <1>3, <1>16, <1>17, <1>18

LEMMA InsertKeeps ==
    ASSUME NEW S \in SUBSET Int, NEW s \in Seq(S), NEW val \in S
    PROVE  Insert(s, val) \in Seq(S) /\ Len(Insert(s, val)) = Len(s) + 1
BY ONLY InsertSorts, s \in Seq(S), val \in S, S \in SUBSET Int

\* A reading of the clock is the time of one run, with its noise.
LEMMA OneRun ==
    ASSUME NEW r \in Nat \ {0}, NEW x \in Int
    PROVE  (r * x) \div r = x
OBVIOUS

\* What a sample does to the kept values.
LEMMA AddSampleKeeps ==
    ASSUME NEW S \in SUBSET Int, values \in Seq(S), samples \in Seq(Int), NEW val \in S,
           Len(values) = IF Len(samples) < kbest THEN Len(samples) ELSE kbest
    PROVE  /\ add_sample(val) \in Seq(S)
           /\ Len(add_sample(val))
                = IF Len(samples) + 1 < kbest THEN Len(samples) + 1 ELSE kbest
<1>1. Len(samples) \in Nat /\ Len(values) \in Nat /\ kbest \in Nat \ {0}
  BY LenProperties, FcycAssumption
<1>2. CASE Len(samples) < kbest
  BY <1>1, <1>2, InsertKeeps DEF add_sample
<1>3. CASE ~ (Len(samples) < kbest) /\ val < values[kbest]
  <2>1. add_sample(val) = Insert(Front(values), val)
    BY <1>3 DEF add_sample
  <2>2. Front(values) \in Seq(S) /\ Len(Front(values)) = kbest - 1
    <3>1. \A k \in 1 .. kbest - 1 : values[k] \in S
      BY <1>1, <1>3, ElementOfSeq
    <3>2. Front(values) = SubSeq(values, 1, kbest - 1)
      BY <1>1, <1>3 DEF Front
    <3>3. /\ SubSeq(values, 1, kbest - 1) \in Seq(S)
          /\ Len(SubSeq(values, 1, kbest - 1))
               = IF 1 <= kbest - 1 THEN kbest - 1 - 1 + 1 ELSE 0
      BY <3>1, <1>1, SubSeqProperties
    <3> QED BY <3>2, <3>3, <1>1
  <2> DEFINE front == Front(values)
  <2>3. Insert(front, val) \in Seq(S) /\ Len(Insert(front, val)) = kbest - 1 + 1
    <3> HIDE DEF front
    <3>1. front \in Seq(S) /\ Len(front) = kbest - 1
      BY <2>2 DEF front
    <3>2. Insert(front, val) \in Seq(S) /\ Len(Insert(front, val)) = Len(front) + 1
      BY ONLY <3>1, InsertKeeps, val \in S, S \in SUBSET Int
    <3> QED BY <3>1, <3>2
  <2> QED BY <2>1, <2>3, <1>1, <1>3
<1>4. CASE ~ (Len(samples) < kbest) /\ ~ (val < values[kbest])
  BY <1>1, <1>4 DEF add_sample
<1> QED BY <1>2, <1>3, <1>4

\* A call into the timing, a step of the loops in it, or a jump out of it.
TimingStep ==
    \/ \E c \in Nat : fsec(c)
    \/ FindReps \/ TakeSample \/ FreeValues \/ Abandon \/ UNCHANGED fcycvars

\* It keeps what is known of the readings.
LEMMA MeasuredKept ==
    ASSUME Measured, TimingStep
    PROVE  Measured'
<1>0. Noise \subseteq Int /\ kbest \in Nat \ {0} /\ maxsamples \in Nat \ {0}
      /\ min_reps \in Nat \ {0}
  BY FcycAssumption
<1>1. CASE \E c \in Nat : fsec(c)
  BY <1>1, <1>0 DEF fsec, Measured
<1>2. CASE FindReps
  <2>1. timing = "reps" /\ UNCHANGED <<cost, result>> /\ cost \in Nat /\ result \in Int
        /\ reps \in Nat /\ reps > 0
    BY <1>2 DEF FindReps, Measured
  <2>2. CASE reps' = reps + reps /\ UNCHANGED <<timing, values, samples>>
    BY <2>1, <2>2 DEF Measured
  <2>3. CASE timing' = "samples" /\ values' = <<>> /\ samples' = <<>> /\ UNCHANGED reps
    <3>1. values' \in Seq(Reading') /\ samples' \in Seq(Int) /\ Len(values') = 0
          /\ Len(samples') = 0
      BY <2>3
    <3> QED BY <2>1, <2>3, <3>1, <1>0 DEF Measured
  <2> QED BY <1>2, <2>2, <2>3 DEF FindReps
<1>3. CASE TakeSample
  <2>1. timing = "samples" /\ UNCHANGED <<cost, reps>> /\ cost \in Nat /\ result \in Int
        /\ reps \in Nat \ {0} /\ Reading \subseteq Int
    BY <1>0, <1>3 DEF TakeSample, Measured, Reading
  <2>2. values \in Seq(Reading) /\ samples \in Seq(Int)
        /\ Len(values) = IF Len(samples) < kbest THEN Len(samples) ELSE kbest
    BY <2>1 DEF Measured
  <2>3. Reading' = Reading
    BY <2>1 DEF Reading
  <2>4. PICK t \in get_timer :
          IF t \div reps > 0
          THEN values' = add_sample(t \div reps) /\ samples' = Append(samples, t \div reps)
          ELSE UNCHANGED <<values, samples>>
    BY <1>3 DEF TakeSample
  <2>5. t \div reps \in Reading /\ t \div reps \in Int
    <3>1. PICK n \in Noise : t = reps * (cost + n)
      BY DEF get_timer
    <3>2. cost + n \in Int /\ cost + n \in Reading
      BY <1>0, <2>1 DEF Reading
    <3>3. t \div reps = cost + n
      BY <2>1, <3>1, <3>2, OneRun
    <3> QED BY <3>2, <3>3
  <2>6. values' \in Seq(Reading) /\ samples' \in Seq(Int)
        /\ Len(values') = IF Len(samples') < kbest THEN Len(samples') ELSE kbest
    <3>1. CASE t \div reps > 0
      <4> DEFINE sec == t \div reps
      <4>0. sec \in Int /\ samples' = Append(samples, sec)
        BY <2>4, <2>5, <3>1
      <4> HIDE DEF sec
      <4>1. samples' \in Seq(Int) /\ Len(samples') = Len(samples) + 1
        BY <2>2, <4>0, AppendProperties
      <4>2. sec \in Reading
        BY <2>5 DEF sec
      <4>3. /\ add_sample(sec) \in Seq(Reading)
            /\ Len(add_sample(sec))
                 = IF Len(samples) + 1 < kbest THEN Len(samples) + 1 ELSE kbest
        BY <2>1, <2>2, <4>2, AddSampleKeeps
      <4>4. values' = add_sample(sec)
        BY <2>4, <3>1 DEF sec
      <4> QED BY <4>1, <4>3, <4>4
    <3>2. CASE ~ (t \div reps > 0)
      BY <2>2, <2>4, <3>2
    <3> QED BY <3>1, <3>2
  <2>7. CASE timing' = "done" /\ result' = values'[1]
             /\ (has_converged(values', Len(samples')) \/ Len(samples') >= maxsamples)
    <3>1. Len(samples') \in Nat /\ Len(samples') >= 1
      BY <1>0, <2>6, <2>7, LenProperties DEF has_converged
    <3>2. 1 \in 1 .. Len(values')
      BY <1>0, <2>6, <3>1
    <3>3. values'[1] \in Reading
      BY <2>6, <3>2, ElementOfSeq
    <3> QED BY <2>1, <2>3, <2>6, <2>7, <3>3 DEF Measured
  <2>8. CASE UNCHANGED <<timing, result>>
    BY <2>1, <2>3, <2>6, <2>8 DEF Measured
  <2> QED BY <1>3, <2>7, <2>8 DEF TakeSample
<1>4. CASE FreeValues
  BY <1>4 DEF FreeValues, Measured
<1>5. CASE Abandon
  BY <1>5 DEF Abandon, Measured
<1>6. CASE UNCHANGED fcycvars
  BY <1>6 DEF fcycvars, Measured, Reading
<1> QED BY <1>1, <1>2, <1>3, <1>4, <1>5, <1>6 DEF TimingStep

\* The time fsec has returned is a reading, so never below the least one.
LEMMA ResultBound ==
    ASSUME Measured, timing = "done"
    PROVE  result \in Int /\ result >= cost + Min(Noise)
<1>1. PICK n \in Noise : result = cost + n
  BY DEF Measured, Reading
<1>2. Min(Noise) \in Int /\ Min(Noise) <= n /\ n \in Int
  BY LeastNoise, FcycAssumption
<1> QED BY <1>1, <1>2 DEF Measured

-----------------------------------------------------------------------------
(* The best samples: the k-th value is the k-th smallest sample. *)

\* How many elements of s are below v, not above it, below w, not above it.
Counted(s, v, w) ==
    /\ Below(s, v) \in Nat /\ NotAbove(s, v) \in Nat
    /\ Below(s, v) <= NotAbove(s, v) /\ NotAbove(s, v) <= Len(s)
    /\ v <= w => NotAbove(s, v) <= NotAbove(s, w) /\ Below(s, v) <= Below(s, w)
    /\ v < w => NotAbove(s, v) <= Below(s, w)

LEMMA CountsOrdered ==
    ASSUME NEW s \in Seq(Int), NEW v \in Int, NEW w \in Int
    PROVE  Counted(s, v, w)
<1> DEFINE D == 1 .. Len(s)
           LessV == {k \in D : s[k] < v}
           UpToV == {k \in D : s[k] <= v}
           LessW == {k \in D : s[k] < w}
           UpToW == {k \in D : s[k] <= w}
<1>1. Len(s) \in Nat /\ DOMAIN s = D /\ \A k \in D : s[k] \in Int
  BY LenProperties, ElementOfSeq
<1>2. IsFiniteSet(D) /\ Cardinality(D) = Len(s)
  <2> DEFINE n == Len(s)
  <2>1. n \in Nat
    BY <1>1
  <2> HIDE DEF n
  <2>2. IsFiniteSet(1 .. n) /\ Cardinality(1 .. n) = IF 1 > n THEN 0 ELSE n - 1 + 1
    BY <2>1, FS_Interval
  <2>3. IsFiniteSet(1 .. n) /\ Cardinality(1 .. n) = n
    BY <2>1, <2>2
  <2> QED BY <2>3 DEF n
<1>3. /\ Below(s, v) = Cardinality(LessV) /\ NotAbove(s, v) = Cardinality(UpToV)
      /\ Below(s, w) = Cardinality(LessW) /\ NotAbove(s, w) = Cardinality(UpToW)
  BY <1>1 DEF Below, NotAbove
<1>4. /\ LessV \subseteq UpToV /\ UpToV \subseteq D /\ LessW \subseteq D /\ UpToW \subseteq D
      /\ v <= w => UpToV \subseteq UpToW /\ LessV \subseteq LessW
      /\ v < w => UpToV \subseteq LessW
  BY <1>1
<1> HIDE DEF LessV, UpToV, LessW, UpToW, D
<1>5. IsFiniteSet(UpToV) /\ IsFiniteSet(LessW) /\ IsFiniteSet(UpToW) /\ IsFiniteSet(LessV)
  BY <1>2, <1>4, FS_Subset
<1>6. Cardinality(LessV) \in Nat /\ Cardinality(UpToV) \in Nat
  BY <1>5, FS_CardinalityType
<1>7. Cardinality(LessV) <= Cardinality(UpToV) /\ Cardinality(UpToV) <= Len(s)
  BY <1>2, <1>4, <1>5, FS_Subset
<1>8. v <= w => /\ Cardinality(UpToV) <= Cardinality(UpToW)
                /\ Cardinality(LessV) <= Cardinality(LessW)
  BY <1>4, <1>5, FS_Subset
<1>9. v < w => Cardinality(UpToV) <= Cardinality(LessW)
  BY <1>4, <1>5, FS_Subset
<1> QED BY <1>3, <1>6, <1>7, <1>8, <1>9 DEF Counted

\* One sample more.
CountedMore(s, x, v) ==
    /\ Below(Append(s, x), v) = Below(s, v) + (IF x < v THEN 1 ELSE 0)
    /\ NotAbove(Append(s, x), v) = NotAbove(s, v) + (IF x <= v THEN 1 ELSE 0)

LEMMA CountsAppend ==
    ASSUME NEW s \in Seq(Int), NEW x \in Int, NEW v \in Int
    PROVE  CountedMore(s, x, v)
<1> DEFINE n == Len(s)
           t == Append(s, x)
           D == 1 .. n
           Less == {k \in D : s[k] < v}
           UpTo == {k \in D : s[k] <= v}
<1>1. n \in Nat /\ DOMAIN s = D /\ IsFiniteSet(D)
  BY LenProperties, FS_Interval
<1>2. /\ DOMAIN t = D \cup {n + 1} /\ n + 1 \notin D /\ t[n + 1] = x
      /\ \A k \in D : t[k] = s[k]
  <2>1. /\ t \in Seq(Int) /\ Len(t) = n + 1 /\ t[n + 1] = x
        /\ \A k \in 1 .. n : t[k] = s[k]
    BY AppendProperties
  <2>2. DOMAIN t = 1 .. n + 1
    BY <2>1, LenProperties
  <2>3. 1 .. n + 1 = D \cup {n + 1} /\ n + 1 \notin D
    BY <1>1
  <2> QED BY <2>1, <2>2, <2>3
<1>3. IsFiniteSet(Less) /\ IsFiniteSet(UpTo)
  BY <1>1, FS_Subset
<1>4. n + 1 \notin Less /\ n + 1 \notin UpTo
  BY <1>2
<1>5. /\ {k \in DOMAIN t : t[k] < v} = IF x < v THEN Less \cup {n + 1} ELSE Less
      /\ {k \in DOMAIN t : t[k] <= v} = IF x <= v THEN UpTo \cup {n + 1} ELSE UpTo
  <2> HIDE DEF t, D
  <2> QED BY <1>2
<1>6. /\ Below(s, v) = Cardinality(Less) /\ NotAbove(s, v) = Cardinality(UpTo)
      /\ Below(t, v) = Cardinality(IF x < v THEN Less \cup {n + 1} ELSE Less)
      /\ NotAbove(t, v) = Cardinality(IF x <= v THEN UpTo \cup {n + 1} ELSE UpTo)
  BY <1>1, <1>5 DEF Below, NotAbove
<1> HIDE DEF Less, UpTo, t, n
<1>7. /\ Cardinality(Less \cup {n + 1}) = Cardinality(Less) + 1
      /\ Cardinality(UpTo \cup {n + 1}) = Cardinality(UpTo) + 1
      /\ Cardinality(Less) \in Nat /\ Cardinality(UpTo) \in Nat
  BY <1>3, <1>4, FS_AddElement, FS_CardinalityType
<1>8. Below(t, v) = Below(s, v) + (IF x < v THEN 1 ELSE 0)
  BY <1>6, <1>7
<1>9. NotAbove(t, v) = NotAbove(s, v) + (IF x <= v THEN 1 ELSE 0)
  BY <1>6, <1>7
<1> QED BY <1>8, <1>9 DEF CountedMore, t

\* vs has the smallest elements of s, the k-th at k.
Ranked(s, vs) == \A k \in 1 .. Len(vs) : Below(s, vs[k]) < k /\ k <= NotAbove(s, vs[k])

\* So vs is sorted.
LEMMA RankedSorted ==
    ASSUME NEW s \in Seq(Int), NEW vs \in Seq(Int), Ranked(s, vs),
           NEW k \in 1 .. Len(vs), NEW l \in 1 .. Len(vs), k <= l
    PROVE  vs[k] <= vs[l]
<1>1. vs[k] \in Int /\ vs[l] \in Int /\ Len(vs) \in Nat
  BY LenProperties, ElementOfSeq
<1>2. Counted(s, vs[l], vs[k]) /\ Counted(s, vs[k], vs[k])
  BY <1>1, CountsOrdered
<1>3. Below(s, vs[k]) < k /\ l <= NotAbove(s, vs[l])
  BY DEF Ranked
<1>4. Below(s, vs[k]) \in Nat /\ NotAbove(s, vs[l]) \in Nat
  BY <1>2 DEF Counted
<1>5. ~ (vs[l] < vs[k])
  <2> SUFFICES ASSUME vs[l] < vs[k] PROVE FALSE
    OBVIOUS
  <2>1. NotAbove(s, vs[l]) <= Below(s, vs[k])
    BY <1>2 DEF Counted
  <2> QED BY <1>1, <1>3, <1>4, <2>1
<1> QED BY <1>1, <1>5

\* A sample that is put in where the insertion sort finds its place.
LEMMA InsertRanked ==
    ASSUME NEW s \in Seq(Int), NEW vs \in Seq(Int), Ranked(s, vs), NEW val \in Int,
           Below(s, val) <= Len(vs),
           NEW p \in 0 .. Len(vs), NEW t, Inserted(vs, val, p, t)
    PROVE  Ranked(Append(s, val), t)
<1>1. /\ Len(vs) \in Nat /\ \A k \in 1 .. Len(vs) : vs[k] \in Int
  BY LenProperties, ElementOfSeq
<1>2. /\ p = 0 \/ vs[p] <= val
      /\ \A q \in p + 1 .. Len(vs) : vs[q] > val
      /\ Len(t) = Len(vs) + 1
      /\ \A k \in 1 .. Len(vs) + 1 :
           t[k] = IF k <= p THEN vs[k] ELSE IF k = p + 1 THEN val ELSE vs[k - 1]
  BY DEF Inserted
<1>3. Counted(s, val, val) /\ CountedMore(s, val, val)
  BY CountsOrdered, CountsAppend
<1>4. SUFFICES ASSUME NEW k \in 1 .. Len(vs) + 1
               PROVE  Below(Append(s, val), t[k]) < k /\ k <= NotAbove(Append(s, val), t[k])
  BY <1>2 DEF Ranked
<1>5. CASE k <= p
  <2> DEFINE v == vs[k]
  <2>1. k \in 1 .. Len(vs) /\ p \in 1 .. Len(vs) /\ t[k] = v /\ v \in Int /\ vs[p] \in Int
    BY <1>1, <1>2, <1>5
  <2>2. v <= vs[p]
    BY <1>5, <2>1, RankedSorted
  <2>3. v <= val
    BY <1>2, <2>1, <2>2
  <2>4. Below(s, v) < k /\ k <= NotAbove(s, v)
    BY <2>1 DEF Ranked
  <2> HIDE DEF v
  <2>5. Counted(s, v, v) /\ CountedMore(s, val, v)
    BY <2>1, CountsOrdered, CountsAppend
  <2>6. Below(s, v) \in Nat /\ NotAbove(s, v) \in Nat
    BY <2>5 DEF Counted
  <2>7. /\ Below(Append(s, val), v) = Below(s, v)
        /\ NotAbove(Append(s, val), v) >= NotAbove(s, v)
    BY <2>1, <2>3, <2>5, <2>6 DEF CountedMore
  <2>8. NotAbove(Append(s, val), v) \in Nat
    BY <2>5, <2>6 DEF CountedMore
  <2> QED BY <2>1, <2>4, <2>6, <2>7, <2>8
<1>6. CASE k = p + 1
  <2>1. t[k] = val
    BY <1>2, <1>6
  <2>2. /\ Below(s, val) \in Nat /\ NotAbove(s, val) \in Nat
        /\ Below(s, val) <= NotAbove(s, val)
    BY <1>3 DEF Counted
  <2>3. Below(s, val) <= p
    <3>1. CASE p = Len(vs)
      BY <3>1
    <3>2. CASE p # Len(vs)
      <4> DEFINE w == vs[p + 1]
      <4>1. p + 1 \in 1 .. Len(vs) /\ w \in Int /\ val < w
        BY <1>1, <1>2, <3>2
      <4>2. Below(s, w) < p + 1
        BY <4>1 DEF Ranked
      <4> HIDE DEF w
      <4>3. Counted(s, val, w) /\ Counted(s, w, w)
        BY <4>1, CountsOrdered
      <4>4. NotAbove(s, val) <= Below(s, w) /\ Below(s, w) \in Nat
        BY <4>1, <4>3 DEF Counted
      <4> QED BY <2>2, <4>2, <4>4
    <3> QED BY <3>1, <3>2
  <2>4. p <= NotAbove(s, val)
    <3>1. CASE p = 0
      BY <2>2, <3>1
    <3>2. CASE p # 0
      <4> DEFINE u == vs[p]
      <4>1. p \in 1 .. Len(vs) /\ u \in Int /\ u <= val
        BY <1>1, <1>2, <3>2
      <4>2. p <= NotAbove(s, u)
        BY <4>1 DEF Ranked
      <4> HIDE DEF u
      <4>3. Counted(s, u, val)
        BY <4>1, CountsOrdered
      <4>4. NotAbove(s, u) <= NotAbove(s, val) /\ NotAbove(s, u) \in Nat
        BY <4>1, <4>3 DEF Counted
      <4> QED BY <2>2, <4>2, <4>4
    <3> QED BY <3>1, <3>2
  <2>5. /\ Below(Append(s, val), val) = Below(s, val)
        /\ NotAbove(Append(s, val), val) = NotAbove(s, val) + 1
    BY <1>3, <2>2 DEF CountedMore
  <2> QED BY <1>6, <2>1, <2>2, <2>3, <2>4, <2>5
<1>7. CASE ~ (k <= p) /\ k # p + 1
  <2> DEFINE v == vs[k - 1]
  <2>1. /\ k - 1 \in 1 .. Len(vs) /\ k - 1 \in p + 1 .. Len(vs)
        /\ t[k] = v /\ v \in Int /\ val < v
    BY <1>1, <1>2, <1>7
  <2>2. Below(s, v) < k - 1 /\ k - 1 <= NotAbove(s, v)
    BY <2>1 DEF Ranked
  <2> HIDE DEF v
  <2>3. Counted(s, v, v) /\ CountedMore(s, val, v)
    BY <2>1, CountsOrdered, CountsAppend
  <2>4. Below(s, v) \in Nat /\ NotAbove(s, v) \in Nat
    BY <2>3 DEF Counted
  <2>5. /\ Below(Append(s, val), v) = Below(s, v) + 1
        /\ NotAbove(Append(s, val), v) = NotAbove(s, v) + 1
    BY <2>1, <2>3 DEF CountedMore
  <2> QED BY <1>1, <2>1, <2>2, <2>4, <2>5
<1> QED BY <1>5, <1>6, <1>7

\* What add_sample keeps are the smallest samples.
LEMMA AddSampleRanked ==
    ASSUME values \in Seq(Int), samples \in Seq(Int), NEW val \in Int,
           Len(values) = IF Len(samples) < kbest THEN Len(samples) ELSE kbest,
           Ranked(samples, values)
    PROVE  Ranked(Append(samples, val), add_sample(val))
<1>1. /\ Len(samples) \in Nat /\ Len(values) \in Nat /\ kbest \in Nat \ {0}
      /\ \A k \in 1 .. Len(values) : values[k] \in Int
  BY LenProperties, ElementOfSeq, FcycAssumption
<1>2. Counted(samples, val, val)
  BY CountsOrdered
<1>3. CASE Len(samples) < kbest
  <2>1. PICK p \in 0 .. Len(values) : Inserted(values, val, p, Insert(values, val))
    BY InsertSorts
  <2>2. Below(samples, val) <= Len(values)
    <3>1. /\ Below(samples, val) \in Nat /\ NotAbove(samples, val) \in Nat
          /\ Below(samples, val) <= NotAbove(samples, val)
          /\ NotAbove(samples, val) <= Len(samples)
      BY <1>2 DEF Counted
    <3> QED BY <1>1, <1>3, <3>1
  <2>3. add_sample(val) = Insert(values, val)
    BY <1>3 DEF add_sample
  <2> DEFINE t == Insert(values, val)
  <2>4. Inserted(values, val, p, t)
    BY <2>1
  <2> HIDE DEF t
  <2>5. Ranked(Append(samples, val), t)
    BY <2>2, <2>4, InsertRanked
  <2> QED BY <2>3, <2>5 DEF t
<1>4. CASE ~ (Len(samples) < kbest) /\ val < values[kbest]
  <2> DEFINE front == SubSeq(values, 1, kbest - 1)
             last  == values[kbest]
  <2>1. Len(values) = kbest /\ kbest \in 1 .. Len(values) /\ last \in Int
    BY <1>1, <1>4
  <2>2. /\ front \in Seq(Int) /\ Len(front) = kbest - 1
        /\ \A k \in 1 .. kbest - 1 : front[k] = values[k]
    <3>1. \A k \in 1 .. kbest - 1 : values[k] \in Int
      BY <1>1, <2>1
    <3>2. /\ front \in Seq(Int)
          /\ Len(front) = IF 1 <= kbest - 1 THEN kbest - 1 - 1 + 1 ELSE 0
          /\ \A k \in 1 .. kbest - 1 - 1 + 1 : front[k] = values[1 + k - 1]
      BY <3>1, <1>1, <2>1, SubSeqProperties
    <3>3. Len(front) = kbest - 1 /\ kbest - 1 - 1 + 1 = kbest - 1
      BY <1>1, <3>2
    <3>4. \A k \in 1 .. kbest - 1 : 1 + k - 1 = k
      OBVIOUS
    <3> QED BY <3>2, <3>3, <3>4
  <2>3. add_sample(val) = Insert(front, val)
    <3>1. Front(values) = front
      BY <2>1 DEF Front
    <3> QED BY <1>4, <3>1 DEF add_sample
  <2> HIDE DEF front
  <2>4. Ranked(samples, front)
    <3> SUFFICES ASSUME NEW k \in 1 .. kbest - 1
                 PROVE  Below(samples, front[k]) < k /\ k <= NotAbove(samples, front[k])
      BY <2>2 DEF Ranked
    <3>1. k \in 1 .. Len(values)
      BY <1>1, <2>1
    <3> QED BY <2>2, <3>1 DEF Ranked
  <2>5. Below(samples, val) <= Len(front)
    <3>1. Below(samples, last) < kbest
      BY <2>1 DEF Ranked
    <3>2. val < last
      BY <1>4
    <3> HIDE DEF last
    <3>3. Counted(samples, val, last) /\ Counted(samples, last, last)
      BY <2>1, CountsOrdered
    <3>4. /\ Below(samples, val) <= Below(samples, last)
          /\ Below(samples, val) \in Nat /\ Below(samples, last) \in Nat
      BY <2>1, <3>2, <3>3 DEF Counted
    <3> QED BY <1>1, <2>2, <3>1, <3>4
  <2>6. PICK p \in 0 .. Len(front) : Inserted(front, val, p, Insert(front, val))
    BY <2>2, InsertSorts
  <2> DEFINE t == Insert(front, val)
  <2>7. Inserted(front, val, p, t)
    BY <2>6
  <2> HIDE DEF t
  <2>8. Ranked(Append(samples, val), t)
    BY <2>2, <2>4, <2>5, <2>7, InsertRanked
  <2> QED BY <2>3, <2>8 DEF t
<1>5. CASE ~ (Len(samples) < kbest) /\ ~ (val < values[kbest])
  <2>1. add_sample(val) = values /\ Len(values) = kbest /\ kbest \in 1 .. Len(values)
    BY <1>1, <1>5 DEF add_sample
  <2>2. SUFFICES ASSUME NEW k \in 1 .. Len(values)
                 PROVE  /\ Below(Append(samples, val), values[k]) < k
                        /\ k <= NotAbove(Append(samples, val), values[k])
    BY <2>1 DEF Ranked
  <2> DEFINE v == values[k]
  <2>3. v <= values[kbest] /\ v \in Int /\ values[kbest] \in Int
    <3>1. k <= kbest
      BY <1>1, <2>1
    <3>2. v <= values[kbest]
      BY <2>1, <3>1, RankedSorted
    <3> QED BY <1>1, <2>1, <3>2
  <2>4. ~ (val < v)
    BY <1>5, <2>3
  <2>5. Below(samples, v) < k /\ k <= NotAbove(samples, v)
    BY DEF Ranked
  <2> HIDE DEF v
  <2>6. Counted(samples, v, v) /\ CountedMore(samples, val, v)
    BY <2>3, CountsOrdered, CountsAppend
  <2>7. Below(samples, v) \in Nat /\ NotAbove(samples, v) \in Nat
    BY <2>6 DEF Counted
  <2>8. Below(Append(samples, val), v) = Below(samples, v)
    BY <2>4, <2>6, <2>7 DEF CountedMore
  <2>9. /\ NotAbove(Append(samples, val), v) \in Nat
        /\ NotAbove(Append(samples, val), v) >= NotAbove(samples, v)
    BY <2>6, <2>7 DEF CountedMore
  <2> QED BY <1>1, <2>5, <2>7, <2>8, <2>9 DEF v
<1> QED BY <1>3, <1>4, <1>5

\* The first value is the smallest sample.
LEMMA FirstIsLeast ==
    ASSUME NEW s \in Seq(Int), NEW vs \in Seq(Int), Ranked(s, vs), Len(vs) >= 1
    PROVE  \A k \in DOMAIN s : vs[1] <= s[k]
<1> DEFINE least == vs[1]
           Less == {k \in DOMAIN s : s[k] < least}
<1>1. 1 \in 1 .. Len(vs) /\ least \in Int /\ DOMAIN s = 1 .. Len(s) /\ Len(s) \in Nat
      /\ \A k \in DOMAIN s : s[k] \in Int
  BY LenProperties, ElementOfSeq
<1>2. Cardinality(Less) < 1
  BY <1>1 DEF Ranked, Below
<1>3. IsFiniteSet(Less)
  <2>1. IsFiniteSet(DOMAIN s)
    BY <1>1, FS_Interval
  <2> QED BY <2>1, FS_Subset
<1>4. Less = {}
  <2> HIDE DEF Less
  <2>1. Cardinality(Less) = 0
    BY <1>2, <1>3, FS_CardinalityType
  <2> QED BY <1>3, <2>1, FS_EmptySet
<1> HIDE DEF least
<1>5. \A k \in DOMAIN s : ~ (s[k] < least)
  BY <1>4
<1> QED BY <1>1, <1>5 DEF least

-----------------------------------------------------------------------------
(* The driver *)

\* This is all that the driver does with the timing.
LEMMA TimingSteps == ASSUME [Next]_vars PROVE TimingStep
<1>0. Cost \in Nat /\ LibcCost \in Nat
  BY MdriverAssumption
<1>1. CASE LibcTrace
  BY <1>0, <1>1 DEF TimingStep, LibcTrace
<1>2. CASE LibcTimed
  BY <1>2 DEF TimingStep, LibcTimed
<1>3. CASE LibcDone
  BY <1>3 DEF TimingStep, LibcDone
<1>4. CASE measure_ref_throughput
  BY <1>4 DEF TimingStep, measure_ref_throughput
<1>5. CASE ReadTrace
  BY <1>5 DEF TimingStep, ReadTrace
<1>6. CASE SetJmp
  BY <1>6 DEF TimingStep, SetJmp
<1>7. CASE CheckPasses
  BY <1>7 DEF TimingStep, CheckPasses
<1>8. CASE CheckFails
  BY <1>8 DEF TimingStep, CheckFails
<1>9. CASE eval_mm_util
  BY <1>0, <1>9 DEF TimingStep, eval_mm_util
<1>10. CASE Timed
  BY <1>10 DEF TimingStep, Timed
<1>11. CASE Time
  BY <1>11 DEF TimingStep, Time
<1>12. CASE FreeTrace
  BY <1>12 DEF TimingStep, FreeTrace
<1>13. CASE RunDone
  BY <1>13 DEF TimingStep, RunDone
<1>14. CASE Exit
  BY <1>14 DEF TimingStep, Exit
<1>15. CASE Report
  BY <1>15 DEF TimingStep, Report
<1>16. CASE Ring
  BY <1>16 DEF TimingStep, Ring, Land
<1>17. CASE RingBetween
  <2>1. Abandon \/ UNCHANGED fcycvars
    BY <1>17 DEF RingBetween, Land
  <2> QED BY <2>1 DEF TimingStep
<1>18. CASE RingOutside
  BY <1>18 DEF TimingStep, RingOutside
<1>19. CASE Stop
  BY <1>19 DEF TimingStep, Stop, vars
<1>20. CASE UNCHANGED vars
  BY <1>20 DEF TimingStep, vars
<1> QED
  BY <1>1, <1>2, <1>3, <1>4, <1>5, <1>6, <1>7, <1>8, <1>9, <1>10,
     <1>11, <1>12, <1>13, <1>14, <1>15, <1>16, <1>17, <1>18, <1>19, <1>20
  DEF Next, main, timeout_handler

\* So the timing keeps its invariants.
LEMMA MeasuredStep == ASSUME Measured, [Next]_vars PROVE Measured'
BY TimingSteps, MeasuredKept

\* The statistics of the other traces are left alone.
OthersKept ==
    /\ mm_stats' \in [1 .. num -> Stats]
    /\ \A k \in (1 .. num) \ {i} : mm_stats'[k] = mm_stats[k]

\* A verdict.
LEMMA ValidSet ==
    ASSUME Types, i <= num, NEW v \in BOOLEAN,
           mm_stats' = [mm_stats EXCEPT ![i].valid = v]
    PROVE  OthersKept /\ mm_stats'[i].valid = v /\ mm_stats'[i].secs = mm_stats[i].secs
<1> DEFINE new == [mm_stats[i] EXCEPT !.valid = v]
<1>1. i \in 1 .. num /\ i \in Nat /\ weights[i] \in Weight
      /\ mm_stats \in [1 .. num -> Stats] /\ mm_stats[i] \in Stats
  BY MdriverAssumption DEF Types
<1>2. new \in Stats /\ new.valid = v /\ new.secs = mm_stats[i].secs
  BY <1>1 DEF Stats
<1>3. mm_stats' = [mm_stats EXCEPT ![i] = new]
  BY <1>1
<1> HIDE DEF new
<1> QED BY <1>1, <1>2, <1>3 DEF OthersKept

\* A time.
LEMMA SecsSet ==
    ASSUME Types, i <= num, NEW x \in Int,
           mm_stats' = [mm_stats EXCEPT ![i].secs = x]
    PROVE  OthersKept /\ mm_stats'[i].valid = mm_stats[i].valid /\ mm_stats'[i].secs = x
<1> DEFINE new == [mm_stats[i] EXCEPT !.secs = x]
<1>1. i \in 1 .. num /\ i \in Nat /\ weights[i] \in Weight
      /\ mm_stats \in [1 .. num -> Stats] /\ mm_stats[i] \in Stats
  BY MdriverAssumption DEF Types
<1>2. new \in Stats /\ new.valid = mm_stats[i].valid /\ new.secs = x
  BY <1>1 DEF Stats
<1>3. mm_stats' = [mm_stats EXCEPT ![i] = new]
  BY <1>1
<1> HIDE DEF new
<1> QED BY <1>1, <1>2, <1>3 DEF OthersKept

\* A utilization.
LEMMA UtilSet ==
    ASSUME Types, i <= num, NEW u \in Nat,
           mm_stats' = [mm_stats EXCEPT ![i].util = u]
    PROVE  OthersKept /\ mm_stats'[i].valid = mm_stats[i].valid
           /\ mm_stats'[i].secs = mm_stats[i].secs
<1> DEFINE new == [mm_stats[i] EXCEPT !.util = u]
<1>1. i \in 1 .. num /\ i \in Nat /\ weights[i] \in Weight
      /\ mm_stats \in [1 .. num -> Stats] /\ mm_stats[i] \in Stats
  BY MdriverAssumption DEF Types
<1>2. new \in Stats /\ new.valid = mm_stats[i].valid
           /\ new.secs = mm_stats[i].secs
  BY <1>1 DEF Stats
<1>3. mm_stats' = [mm_stats EXCEPT ![i] = new]
  BY <1>1
<1> HIDE DEF new
<1> QED BY <1>1, <1>2, <1>3 DEF OthersKept

\* A trace that is read.
LEMMA TraceRead ==
    ASSUME Types, i <= num, mm_stats' = read_trace(mm_stats)
    PROVE  OthersKept /\ mm_stats'[i].valid = mm_stats[i].valid
           /\ mm_stats'[i].secs = mm_stats[i].secs
<1> DEFINE new == [[mm_stats[i] EXCEPT !.weight = weights[i]] EXCEPT !.ops = i]
<1>1. i \in 1 .. num /\ i \in Nat /\ weights[i] \in Weight
      /\ mm_stats \in [1 .. num -> Stats] /\ mm_stats[i] \in Stats
  BY MdriverAssumption DEF Types
<1>2. new \in Stats /\ new.valid = mm_stats[i].valid
           /\ new.secs = mm_stats[i].secs
  BY <1>1 DEF Stats
<1>3. mm_stats' = [mm_stats EXCEPT ![i] = new]
  BY <1>1 DEF read_trace
<1> HIDE DEF new
<1> QED BY <1>1, <1>2, <1>3 DEF OthersKept

\* No step turns to another trace than i.
LEMMA StatsStep == ASSUME Measured, Types, Places, [Next]_vars PROVE OthersKept
<1> USE MdriverAssumption
<1>0. ASSUME mm_stats' = mm_stats PROVE OthersKept
  BY <1>0 DEF OthersKept, Types
<1>1. CASE LibcTrace
  BY <1>1, <1>0 DEF LibcTrace, read_trace, stats
<1>2. CASE LibcTimed
  BY <1>2, <1>0 DEF LibcTimed, stats
<1>3. CASE LibcDone
  BY <1>3, <1>0 DEF LibcDone, stats
<1>4. CASE measure_ref_throughput
  BY <1>4, <1>0 DEF measure_ref_throughput, stats
<1>5. CASE ReadTrace
  BY <1>5, TraceRead DEF ReadTrace
<1>6. CASE SetJmp
  BY <1>6, <1>0 DEF SetJmp, stats
<1>7. CASE CheckPasses
  <2>1. i <= num /\ (mm_stats' = mm_stats \/ mm_stats' = [mm_stats EXCEPT ![i].valid = TRUE])
    BY <1>7 DEF CheckPasses, Checked, Places
  <2> QED BY <2>1, <1>0, ValidSet
<1>8. CASE CheckFails
  <2>1. i <= num /\ (mm_stats' = mm_stats \/ mm_stats' = [mm_stats EXCEPT ![i].valid = FALSE])
    BY <1>8 DEF CheckFails, Checked, Places
  <2> QED BY <2>1, <1>0, ValidSet
<1>9. CASE eval_mm_util
  <2>1. i <= num /\ \E u \in Util : mm_stats' = [mm_stats EXCEPT ![i].util = u]
    BY <1>9 DEF eval_mm_util, Places
  <2>2. Util \subseteq Nat
    BY MdriverAssumption
  <2> QED BY <2>1, <2>2, UtilSet
<1>10. CASE Timed
  <2>1. i <= num /\ result \in Int /\ mm_stats' = [mm_stats EXCEPT ![i].secs = result]
    BY <1>10 DEF Timed, Places, Measured
  <2> QED BY <2>1, SecsSet
<1>11. CASE Time
  BY <1>11, <1>0 DEF Time, stats
<1>12. CASE FreeTrace
  BY <1>12, <1>0 DEF FreeTrace, stats
<1>13. CASE RunDone
  BY <1>13, <1>0 DEF RunDone, stats
<1>14. CASE Exit
  BY <1>14, <1>0 DEF Exit, stats
<1>15. CASE Report
  BY <1>15, <1>0 DEF Report, stats
<1>16. CASE Ring
  <2>1. i <= num /\ mm_stats' = [mm_stats EXCEPT ![i].valid = FALSE]
    BY <1>16 DEF Ring, Land, Places
  <2> QED BY <2>1, ValidSet
<1>17. CASE RingBetween
  <2>1. i <= num /\ (mm_stats' = mm_stats \/ mm_stats' = [mm_stats EXCEPT ![i].valid = FALSE])
    BY <1>17 DEF RingBetween, Land, Places
  <2> QED BY <2>1, <1>0, ValidSet
<1>18. CASE RingOutside
  BY <1>18, <1>0 DEF RingOutside, Ended, stats
<1>19. CASE Stop
  BY <1>19, <1>0 DEF Stop, Ended, vars, stats, input, sums
<1>20. CASE UNCHANGED vars
  BY <1>20, <1>0 DEF vars, stats, input, sums
<1> QED
  BY <1>1, <1>2, <1>3, <1>4, <1>5, <1>6, <1>7, <1>8, <1>9, <1>10,
     <1>11, <1>12, <1>13, <1>14, <1>15, <1>16, <1>17, <1>18, <1>19, <1>20
  DEF Next, main, timeout_handler

\* The types hold after every step.
LEMMA TypesStep == ASSUME Measured, Types, Places, [Next]_vars PROVE Types'
<1>1. ASSUME UNCHANGED input, i' \in 1 .. num + 1, pass' \in {1, 2},
             alarm' \in {"none", "set", "rung"}, errors' \in Nat
      PROVE  Types'
  BY <1>1, StatsStep DEF Types, OthersKept, input
<1> DEFINE Small == /\ UNCHANGED input /\ i' \in 1 .. num + 1 /\ pass' \in {1, 2}
                   /\ alarm' \in {"none", "set", "rung"} /\ errors' \in Nat
<1>2. num \in Nat \ {0} /\ i \in 1 .. num + 1 /\ pass \in {1, 2} /\ errors \in Nat
      /\ alarm \in {"none", "set", "rung"} /\ (i <= num => i + 1 \in 1 .. num + 1)
      /\ 1 \in 1 .. num + 1
  BY MdriverAssumption DEF Types
<1>3. Small
  <2>1. CASE LibcTrace
    BY <1>2, <2>1 DEF LibcTrace, read_trace, input, Places
  <2>2. CASE LibcTimed
    BY <1>2, <2>2 DEF LibcTimed, input, Places
  <2>3. CASE LibcDone
    BY <1>2, <2>3 DEF LibcDone, input, Places
  <2>4. CASE measure_ref_throughput
    BY <1>2, <2>4 DEF measure_ref_throughput, input, Places
  <2>5. CASE ReadTrace
    BY <1>2, <2>5 DEF ReadTrace, read_trace, input, Places
  <2>6. CASE SetJmp
    BY <1>2, <2>6 DEF SetJmp, input, Places
  <2>7. CASE CheckPasses
    BY <1>2, <2>7 DEF CheckPasses, Checked, input, Places
  <2>8. CASE CheckFails
    <3>1. errors' = errors + 1 /\ UNCHANGED <<input, alarm, i, pass>>
      BY <2>8 DEF CheckFails
    <3>2. errors + 1 \in Nat
      BY <1>2
    <3> QED BY <1>2, <3>1, <3>2
  <2>9. CASE eval_mm_util
    BY <1>2, <2>9 DEF eval_mm_util, input, Places
  <2>10. CASE Timed
    BY <1>2, <2>10 DEF Timed, input, Places
  <2>11. CASE Time
    BY <1>2, <2>11 DEF Time, input, Places
  <2>12. CASE FreeTrace
    BY <1>2, <2>12 DEF FreeTrace, input, Places
  <2>13. CASE RunDone
    BY <1>2, <2>13 DEF RunDone, input, Places
  <2>14. CASE Exit
    BY <1>2, <2>14 DEF Exit, input, Places
  <2>15. CASE Report
    BY <1>2, <2>15 DEF Report, input, Places
  <2>16. CASE Ring
    BY <1>2, <2>16 DEF Ring, Land, input, Places
  <2>17. CASE RingBetween
    BY <1>2, <2>17 DEF RingBetween, Land, input, Places
  <2>18. CASE RingOutside
    BY <1>2, <2>18 DEF RingOutside, Ended, input, Places
  <2>19. CASE Stop
    BY <1>2, <2>19 DEF Stop, Ended, vars, stats, input, sums, Places
  <2>20. CASE UNCHANGED vars
    BY <1>2, <2>20 DEF vars, stats, input, sums, Places
  <2> QED
    BY <2>1, <2>2, <2>3, <2>4, <2>5, <2>6, <2>7, <2>8, <2>9, <2>10,
       <2>11, <2>12, <2>13, <2>14, <2>15, <2>16, <2>17, <2>18, <2>19, <2>20
    DEF Next, main, timeout_handler
<1> QED BY <1>1, <1>3

\* The index of the trace is right, and what is measured is the allocator.
LEMMA PlacesStep == ASSUME Measured, Types, Places, [Next]_vars PROVE Places'
<1> USE MdriverAssumption DEF Types, Places, input, stats, sums
<1>1. CASE LibcTrace
  BY <1>1 DEF LibcTrace, read_trace, fsec
<1>2. CASE LibcTimed
  BY <1>2 DEF LibcTimed
<1>3. CASE LibcDone
  BY <1>3 DEF LibcDone
<1>4. CASE measure_ref_throughput
  BY <1>4 DEF measure_ref_throughput
<1>5. CASE ReadTrace
  BY <1>5 DEF ReadTrace, read_trace
<1>6. CASE SetJmp
  BY <1>6 DEF SetJmp
<1>7. CASE CheckPasses
  BY <1>7 DEF CheckPasses, Checked
<1>8. CASE CheckFails
  BY <1>8 DEF CheckFails, Checked
<1>9. CASE eval_mm_util
  BY <1>9 DEF eval_mm_util, fsec
<1>10. CASE Timed
  BY <1>10 DEF Timed
<1>11. CASE Time
  BY <1>11 DEF Time, FindReps, TakeSample
<1>12. CASE FreeTrace
  BY <1>12 DEF FreeTrace
<1>13. CASE RunDone
  BY <1>13 DEF RunDone
<1>14. CASE Exit
  BY <1>14 DEF Exit
<1>15. CASE Report
  BY <1>15 DEF Report
<1>16. CASE Ring
  BY <1>16 DEF Ring, Land
<1>17. CASE RingBetween
  BY <1>17 DEF RingBetween, Land
<1>18. CASE RingOutside
  BY <1>18 DEF RingOutside, Ended
<1>19. CASE Stop
  BY <1>19 DEF Stop, Ended, vars, stats, input, sums, fcycvars
<1>20. CASE UNCHANGED vars
  BY <1>20 DEF vars, stats, input, sums, fcycvars
<1> QED
  BY <1>1, <1>2, <1>3, <1>4, <1>5, <1>6, <1>7, <1>8, <1>9, <1>10,
     <1>11, <1>12, <1>13, <1>14, <1>15, <1>16, <1>17, <1>18, <1>19, <1>20
  DEF Next, main, timeout_handler

\* The input is only read.
LEMMA InputKept == ASSUME [Next]_vars PROVE UNCHANGED input
<1>1. CASE LibcTrace
  BY <1>1 DEF LibcTrace
<1>2. CASE LibcTimed
  BY <1>2 DEF LibcTimed
<1>3. CASE LibcDone
  BY <1>3 DEF LibcDone
<1>4. CASE measure_ref_throughput
  BY <1>4 DEF measure_ref_throughput
<1>5. CASE ReadTrace
  BY <1>5 DEF ReadTrace
<1>6. CASE SetJmp
  BY <1>6 DEF SetJmp
<1>7. CASE CheckPasses
  BY <1>7 DEF CheckPasses
<1>8. CASE CheckFails
  BY <1>8 DEF CheckFails
<1>9. CASE eval_mm_util
  BY <1>9 DEF eval_mm_util
<1>10. CASE Timed
  BY <1>10 DEF Timed
<1>11. CASE Time
  BY <1>11 DEF Time
<1>12. CASE FreeTrace
  BY <1>12 DEF FreeTrace
<1>13. CASE RunDone
  BY <1>13 DEF RunDone
<1>14. CASE Exit
  BY <1>14 DEF Exit
<1>15. CASE Report
  BY <1>15 DEF Report
<1>16. CASE Ring
  BY <1>16 DEF Ring
<1>17. CASE RingBetween
  BY <1>17 DEF RingBetween
<1>18. CASE RingOutside
  BY <1>18 DEF RingOutside
<1>19. CASE Stop
  BY <1>19 DEF Stop, vars
<1>20. CASE UNCHANGED vars
  BY <1>20 DEF vars
<1> QED
  BY <1>1, <1>2, <1>3, <1>4, <1>5, <1>6, <1>7, <1>8, <1>9, <1>10,
     <1>11, <1>12, <1>13, <1>14, <1>15, <1>16, <1>17, <1>18, <1>19, <1>20
  DEF Next, main, timeout_handler

\* What a step is to the traces: nothing is found,
Quiet ==
    /\ UNCHANGED <<errors, alarm>> /\ Behind' \subseteq Behind /\ Done' \subseteq Done
    /\ \A k \in 1 .. num : /\ mm_stats'[k].valid = mm_stats[k].valid
                           /\ mm_stats'[k].secs = mm_stats[k].secs

\* or the check of trace i says v, and an error is counted if that is a no,
Found(v) ==
    /\ errors' = (IF v THEN errors ELSE errors + 1) /\ alarm' = alarm
    /\ i \in 1 .. num /\ mm_stats'[i].valid = v
    /\ v = (behaves[i] = "right") /\ (v => mm_stats'[i].secs = mm_stats[i].secs)
    /\ Behind' \subseteq Behind \cup {i} /\ (v => Done' \subseteq Done)

\* or its time is known,
Clocked ==
    /\ UNCHANGED <<errors, alarm>> /\ Behind' \subseteq Behind /\ Done' \subseteq Done \cup {i}
    /\ \A k \in 1 .. num : mm_stats'[k].valid = mm_stats[k].valid
    /\ i \in 1 .. num => mm_stats'[i].secs >= Cost + Min(Noise)

\* or the alarm rings, which at most ends the check of trace i.
Hit ==
    /\ alarm = "set" /\ alarm' = "rung" /\ errors' = 1
    /\ Behind' \subseteq Behind \cup {i}
    /\ \A k \in 1 .. num : mm_stats'[k].valid => mm_stats[k].valid

\* There is no other kind of step.
LEMMA StepKinds ==
    ASSUME Measured, Types, Places, [Next]_vars
    PROVE  Quiet \/ (\E v \in BOOLEAN : Found(v)) \/ Clocked \/ Hit
<1>a. /\ num' = num /\ num \in Nat \ {0} /\ i \in 1 .. num + 1 /\ i \in Nat
      /\ onetime_flag \in BOOLEAN /\ errors \in Nat
  BY InputKept, MdriverAssumption DEF input, Types
<1>b. \A k \in (1 .. num) \ {i} : mm_stats'[k] = mm_stats[k]
  BY StatsStep DEF OthersKept
\* in the steps that are quiet
<1>c. ASSUME UNCHANGED <<errors, alarm>>, Behind' \subseteq Behind, Done' \subseteq Done,
             mm_stats' = mm_stats
      PROVE  Quiet
  BY <1>c DEF Quiet
<1>d. ASSUME UNCHANGED <<errors, alarm>>, Behind' \subseteq Behind, Done' \subseteq Done,
             i <= num, mm_stats'[i].valid = mm_stats[i].valid,
             mm_stats'[i].secs = mm_stats[i].secs
      PROVE  Quiet
  BY <1>b, <1>d DEF Quiet
<1>e. ASSUME ~ Testing' PROVE Behind' = {} /\ Done' = {}
  BY <1>e DEF Behind, Done
<1>f. ASSUME i' = i, pc' = pc PROVE Behind' = Behind /\ Done' = Done
  BY <1>a, <1>f DEF Behind, Done, Testing
<1>1. CASE LibcTrace
  BY <1>1, <1>c, <1>e DEF LibcTrace, Testing
<1>2. CASE LibcTimed
  BY <1>2, <1>c, <1>e DEF LibcTimed, Testing
<1>3. CASE LibcDone
  BY <1>3, <1>c, <1>e DEF LibcDone, Testing, stats
<1>4. CASE measure_ref_throughput
  <2>1. i' = 1 /\ pc' = "read"
    BY <1>4 DEF measure_ref_throughput, Places
  <2>2. Behind' = {} /\ Done' = {}
    BY <1>a, <2>1 DEF Behind, Done, Testing
  <2> QED BY <1>4, <1>c, <2>2 DEF measure_ref_throughput, stats
<1>5. CASE ReadTrace
  <2>1. i <= num /\ i' = i /\ pc = "read" /\ pc' = "setjmp" /\ UNCHANGED <<errors, alarm>>
    BY <1>5 DEF ReadTrace
  <2>2. Behind' = Behind /\ Done' = Done
    BY <1>a, <2>1 DEF Behind, Done, Testing
  <2>3. mm_stats'[i].valid = mm_stats[i].valid /\ mm_stats'[i].secs = mm_stats[i].secs
    BY <1>5, <2>1, TraceRead DEF ReadTrace
  <2> QED BY <1>d, <2>1, <2>2, <2>3
<1>6. CASE SetJmp
  <2>1. i' = i /\ pc = "setjmp" /\ pc' = "valid" /\ UNCHANGED <<errors, alarm, mm_stats>>
    BY <1>6 DEF SetJmp, stats
  <2>2. Behind' = Behind /\ Done' = Done
    BY <1>a, <2>1 DEF Behind, Done, Testing
  <2> QED BY <1>c, <2>1, <2>2
<1>7. CASE CheckPasses
  <2>1. i <= num /\ i' = i /\ pc = "valid" /\ UNCHANGED <<errors, alarm>>
    BY <1>7 DEF CheckPasses, Places
  <2>2. CASE pass = 1
    BY <1>7, <1>c, <1>f, <2>1, <2>2 DEF CheckPasses
  <2>3. CASE pass # 1
    <3>1. mm_stats' = [mm_stats EXCEPT ![i].valid = TRUE] /\ pc' \in {"report", "util"}
          /\ behaves[i] = "right"
      BY <1>7, <2>3 DEF CheckPasses, Checked
    <3>2. mm_stats'[i].valid /\ mm_stats'[i].secs = mm_stats[i].secs
      BY <2>1, <3>1, ValidSet
    <3>3. Behind' \subseteq Behind \cup {i}
      BY <1>a, <2>1, <3>1 DEF Behind, Testing
    <3>4. Done' \subseteq Done
      BY <1>a, <2>1, <3>1 DEF Done, Testing
    <3>5. i \in 1 .. num
      BY <1>a, <2>1
    <3>6. Found(TRUE)
      BY <2>1, <3>1, <3>2, <3>3, <3>4, <3>5 DEF Found
    <3> QED BY <3>6
  <2> QED BY <2>2, <2>3
<1>8. CASE CheckFails
  <2>1. i <= num /\ i' = i /\ pc = "valid" /\ errors' = errors + 1 /\ alarm' = alarm
        /\ mm_stats' = [mm_stats EXCEPT ![i].valid = FALSE] /\ pc' \in {"report", "free"}
        /\ behaves[i] # "right"
    BY <1>8 DEF CheckFails, Checked, Places
  <2>2. mm_stats'[i].valid = FALSE
    BY <2>1, ValidSet
  <2>3. Behind' \subseteq Behind \cup {i}
    BY <1>a, <2>1 DEF Behind, Testing
  <2>4. i \in 1 .. num
    BY <1>a, <2>1
  <2>5. Found(FALSE)
    BY <2>1, <2>2, <2>3, <2>4 DEF Found
  <2> QED BY <2>5
<1>9. CASE eval_mm_util
  <2>1. i <= num /\ i' = i /\ pc = "util" /\ pc' = "speed" /\ UNCHANGED <<errors, alarm>>
        /\ \E u \in Util : mm_stats' = [mm_stats EXCEPT ![i].util = u]
    BY <1>9 DEF eval_mm_util, Places
  <2>2. Behind' = Behind /\ Done' = Done
    BY <1>a, <2>1 DEF Behind, Done, Testing
  <2>3. mm_stats'[i].valid = mm_stats[i].valid /\ mm_stats'[i].secs = mm_stats[i].secs
    <3>1. Util \subseteq Nat
      BY MdriverAssumption
    <3> QED BY <2>1, <3>1, UtilSet
  <2> QED BY <1>d, <2>1, <2>2, <2>3
<1>10. CASE Timed
  <2>1. i <= num /\ i' = i /\ pc = "speed" /\ pc' = "free" /\ UNCHANGED <<errors, alarm>>
        /\ mm_stats' = [mm_stats EXCEPT ![i].secs = result] /\ cost = Cost /\ timing = "done"
    BY <1>10 DEF Timed, FreeValues, Places
  <2>2. result \in Int /\ result >= Cost + Min(Noise)
    BY <2>1, ResultBound
  <2>3. mm_stats'[i].valid = mm_stats[i].valid /\ mm_stats'[i].secs = result
    BY <2>1, <2>2, SecsSet
  <2>4. Behind' \subseteq Behind
    BY <1>a, <2>1 DEF Behind, Testing
  <2>5. Done' \subseteq Done \cup {i}
    BY <1>a, <2>1 DEF Done, Testing
  <2>6. Clocked
    BY <1>b, <2>1, <2>2, <2>3, <2>4, <2>5 DEF Clocked
  <2> QED BY <2>6
<1>11. CASE Time
  BY <1>11, <1>c, <1>f DEF Time, stats
<1>12. CASE FreeTrace
  <2>1. i <= num /\ i' = i + 1 /\ pc = "free" /\ pc' = "read"
        /\ UNCHANGED <<errors, alarm, mm_stats>>
    BY <1>12 DEF FreeTrace, Places, stats
  <2>2. Behind' \subseteq Behind
    BY <1>a, <2>1 DEF Behind, Testing
  <2>3. Done' \subseteq Done
    BY <1>a, <2>1 DEF Done, Testing
  <2> QED BY <1>c, <2>1, <2>2, <2>3
<1>13. CASE RunDone
  <2>1. i' = i /\ pc = "read" /\ pc' = "report" /\ UNCHANGED <<errors, alarm, mm_stats>>
    BY <1>13 DEF RunDone, stats
  <2>2. Behind' = Behind /\ Done' = Done
    BY <1>a, <2>1 DEF Behind, Done, Testing
  <2> QED BY <1>c, <2>1, <2>2
<1>14. CASE Exit
  BY <1>14, <1>c, <1>e DEF Exit, stats, Testing
<1>15. CASE Report
  <2>1. i' = i /\ pc = "report" /\ pc' = "end" /\ UNCHANGED <<errors, alarm, mm_stats>>
    BY <1>15 DEF Report, stats
  <2>2. Behind' = Behind /\ Done' = Done
    BY <1>a, <2>1 DEF Behind, Done, Testing
  <2> QED BY <1>c, <2>1, <2>2
<1>l. ASSUME alarm = "set", alarm' = "rung", errors' = 1, Land, i' = i, i <= num,
             pc \in {"setjmp", "valid", "util", "speed", "free", "read"}
      PROVE  Hit
  <2>1. pc' = "free" /\ mm_stats' = [mm_stats EXCEPT ![i].valid = FALSE]
    BY <1>l DEF Land
  <2>2. mm_stats'[i].valid = FALSE
    BY <1>l, <2>1, ValidSet
  <2>3. Behind' \subseteq Behind \cup {i}
    BY <1>a, <1>l, <2>1 DEF Behind, Testing
  <2> QED BY <1>b, <1>l, <2>2, <2>3 DEF Hit
<1>u. ASSUME alarm = "set", alarm' = "rung", errors' = 1, mm_stats' = mm_stats,
             pc' = "undefined"
      PROVE  Hit
  BY <1>e, <1>u DEF Hit, Testing
<1>16. CASE Ring
  BY <1>16, <1>l DEF Ring, Places
<1>17. CASE RingBetween
  BY <1>17, <1>l, <1>u DEF RingBetween
<1>18. CASE RingOutside
  BY <1>18, <1>u DEF RingOutside, stats
<1>19. CASE Stop
  BY <1>19, <1>c, <1>f DEF Stop, vars, stats
<1>20. CASE UNCHANGED vars
  BY <1>20, <1>c, <1>f DEF vars, stats
<1> QED
  BY <1>1, <1>2, <1>3, <1>4, <1>5, <1>6, <1>7, <1>8, <1>9, <1>10,
     <1>11, <1>12, <1>13, <1>14, <1>15, <1>16, <1>17, <1>18, <1>19, <1>20
  DEF Next, main, timeout_handler

\* With no error counted after a step there was none before it; a trace that is new
\* behind the driver was found valid, and one that is new among the done was timed.
LEMMA NoErrorYetStep ==
    ASSUME Measured, Types, Places, NoErrorYet, [Next]_vars
    PROVE  NoErrorYet'
<1> SUFFICES ASSUME errors' = 0, ~ onetime_flag
             PROVE  /\ \A k \in Behind' : mm_stats'[k].valid
                    /\ \A k \in Done' : mm_stats'[k].secs >= Cost + Min(Noise)
  BY InputKept DEF NoErrorYet, input
<1>1. errors \in Nat /\ num' = num
  BY InputKept DEF Types, input
<1>2. \A k \in (1 .. num) \ {i} : mm_stats'[k] = mm_stats[k]
  BY StatsStep DEF OthersKept
<1>3. \A k \in Behind' \cup Done' : k \in 1 .. num
  BY <1>1 DEF Behind, Done
<1>4. errors = 0 => /\ \A k \in Behind : mm_stats[k].valid
                    /\ \A k \in Done : mm_stats[k].secs >= Cost + Min(Noise)
  BY DEF NoErrorYet
<1>5. CASE Quiet
  BY <1>3, <1>4, <1>5 DEF Quiet
<1>6. ASSUME NEW v \in BOOLEAN, Found(v)
      PROVE  /\ \A k \in Behind' : mm_stats'[k].valid
             /\ \A k \in Done' : mm_stats'[k].secs >= Cost + Min(Noise)
  <2>1. v /\ errors = 0 /\ mm_stats'[i].valid /\ mm_stats'[i].secs = mm_stats[i].secs
        /\ Behind' \subseteq Behind \cup {i} /\ Done' \subseteq Done
    BY <1>1, <1>6 DEF Found
  <2> QED BY <1>2, <1>3, <1>4, <2>1
<1>7. CASE Clocked
  BY <1>2, <1>3, <1>4, <1>7 DEF Clocked
<1>8. ~ Hit
  BY DEF Hit
<1> QED BY <1>5, <1>6, <1>7, <1>8, StepKinds

\* Only the check of a trace makes it valid; only the alarm can add a right trace to
\* the missed ones, and it rings once.
LEMMA OnlyOneHitStep ==
    ASSUME Measured, Types, Places, OnlyOneHit, [Next]_vars
    PROVE  OnlyOneHit'
<1>1. UNCHANGED <<num, behaves>>
  BY InputKept DEF input
<1>2. \A k \in (1 .. num) \ {i} : mm_stats'[k] = mm_stats[k]
  BY StatsStep DEF OthersKept
<1>3. \A k \in Behind' : k \in 1 .. num
  BY <1>1 DEF Behind
<1>4. /\ \A k \in 1 .. num : mm_stats[k].valid => behaves[k] = "right"
      /\ alarm # "rung" => Missed = {}
      /\ \A j, k \in Missed : j = k
  BY DEF OnlyOneHit
<1>5. ASSUME alarm' = alarm, Missed' \subseteq Missed,
             \A k \in 1 .. num : mm_stats'[k].valid => behaves[k] = "right"
      PROVE  OnlyOneHit'
  BY <1>1, <1>4, <1>5 DEF OnlyOneHit
<1>6. CASE Quiet
  <2>1. \A k \in 1 .. num : mm_stats'[k].valid = mm_stats[k].valid
    BY <1>6 DEF Quiet
  <2>2. Missed' \subseteq Missed
    BY <1>1, <1>3, <1>6, <2>1 DEF Missed, Quiet
  <2> QED BY <1>4, <1>5, <1>6, <2>1, <2>2 DEF Quiet
<1>7. ASSUME NEW v \in BOOLEAN, Found(v) PROVE OnlyOneHit'
  <2>1. alarm' = alarm /\ mm_stats'[i].valid = v /\ v = (behaves[i] = "right")
        /\ Behind' \subseteq Behind \cup {i}
    BY <1>7 DEF Found
  <2>2. Missed' \subseteq Missed
    BY <1>1, <1>2, <1>3, <2>1 DEF Missed
  <2>3. \A k \in 1 .. num : mm_stats'[k].valid => behaves[k] = "right"
    BY <1>2, <1>4, <2>1
  <2> QED BY <1>5, <2>1, <2>2, <2>3
<1>8. CASE Clocked
  <2>1. \A k \in 1 .. num : mm_stats'[k].valid = mm_stats[k].valid
    BY <1>8 DEF Clocked
  <2>2. Missed' \subseteq Missed
    BY <1>1, <1>3, <1>8, <2>1 DEF Missed, Clocked
  <2> QED BY <1>4, <1>5, <1>8, <2>1, <2>2 DEF Clocked
<1>9. CASE Hit
  <2>1. Missed = {} /\ alarm' = "rung"
    BY <1>4, <1>9 DEF Hit
  <2>2. Missed' \subseteq {i}
    BY <1>1, <1>2, <1>3, <1>9, <2>1 DEF Missed, Hit
  <2>3. \A k \in 1 .. num : mm_stats'[k].valid => behaves[k] = "right"
    BY <1>4, <1>9 DEF Hit
  <2> QED BY <1>1, <2>1, <2>2, <2>3 DEF OnlyOneHit
<1> QED BY <1>6, <1>7, <1>8, <1>9, StepKinds

\* main gives its verdict on the statistics that run_tests has left.
LEMMA VerdictStep ==
    ASSUME Measured, Types, Places, Verdict, [Next]_vars
    PROVE  Verdict'
<1> SUFFICES ASSUME pc' = "end", ~ onetime_flag
             PROVE  /\ global_mm_sum_stats' = printresults(mm_stats)'
                    /\ total' = SumOver(1 .. num, mm_stats)'
  BY InputKept DEF Verdict, input
<1>1. num' = num
  BY InputKept DEF input
<1>2. ASSUME errors' = errors, mm_stats' = mm_stats
      PROVE  /\ printresults(mm_stats)' = printresults(mm_stats)
             /\ SumOver(1 .. num, mm_stats)' = SumOver(1 .. num, mm_stats)
  BY <1>1, <1>2 DEF printresults, Valid
<1>3. CASE Report
  <2>1. global_mm_sum_stats' = printresults(mm_stats) /\ total' = SumOver(1 .. num, mm_stats)
        /\ UNCHANGED <<errors, mm_stats>>
    BY <1>3 DEF Report, stats
  <2> QED BY <1>2, <2>1
<1> DEFINE Judged == <<pc, errors, mm_stats, global_mm_sum_stats, total>>
<1>4. CASE UNCHANGED Judged
  BY <1>2, <1>4 DEF Verdict
<1>5. Report \/ UNCHANGED Judged
  <2>1. ~ LibcTrace
    BY DEF LibcTrace
  <2>2. ~ LibcTimed
    BY DEF LibcTimed
  <2>3. ~ LibcDone
    BY DEF LibcDone
  <2>4. ~ measure_ref_throughput
    BY DEF measure_ref_throughput
  <2>5. ~ ReadTrace
    BY DEF ReadTrace
  <2>6. ~ SetJmp
    BY DEF SetJmp
  <2>7. ~ CheckPasses
    BY DEF CheckPasses, Checked
  <2>8. ~ CheckFails
    BY DEF CheckFails, Checked
  <2>9. ~ eval_mm_util
    BY DEF eval_mm_util
  <2>10. ~ Timed
    BY DEF Timed
  <2>11. Time => UNCHANGED Judged
    BY DEF Time, stats, sums
  <2>12. ~ FreeTrace
    BY DEF FreeTrace
  <2>13. ~ RunDone
    BY DEF RunDone
  <2>14. ~ Exit
    BY DEF Exit
  <2>15. ~ Ring
    BY DEF Ring, Land
  <2>16. ~ RingBetween
    BY DEF RingBetween, Land
  <2>17. ~ RingOutside
    BY DEF RingOutside
  <2>18. UNCHANGED vars => UNCHANGED Judged
    BY DEF vars, stats, sums
  <2> QED BY <2>1, <2>2, <2>3, <2>4, <2>5, <2>6, <2>7, <2>8, <2>9,
              <2>10, <2>11, <2>12, <2>13, <2>14, <2>15, <2>16, <2>17, <2>18
           DEF Next, main, timeout_handler, Stop
<1> QED BY <1>3, <1>4, <1>5

-----------------------------------------------------------------------------
(* The theorems *)

\* No trace has been tried, and no time taken.
LEMMA InvInit == ASSUME Init PROVE IInv
<1>1. num \in Nat \ {0} /\ num \in 1 .. MaxTraces /\ i = 1 /\ 1 \in 1 .. num + 1
  BY MdriverAssumption DEF Init
<1>2. NoStats \in Stats
  BY DEF NoStats, Stats
<1>3. Types
  BY <1>1, <1>2 DEF Init, Types
<1>4. Behind = {} /\ Done = {} /\ Missed = {}
  BY DEF Init, Behind, Done, Missed, Testing
<1>5. \A k \in 1 .. num : ~ mm_stats[k].valid
  BY DEF Init, NoStats
<1>6. Measured
  BY DEF Init, FcycInit, Measured
<1> QED BY <1>1, <1>3, <1>4, <1>5, <1>6
        DEF Init, IInv, Places, NoErrorYet, OnlyOneHit, Verdict

\* IInv is an invariant.
LEMMA Invariance == Spec => []IInv
<1>1. Init => IInv
  BY InvInit
<1>2. IInv /\ [Next]_vars => IInv'
  BY MeasuredStep, TypesStep, PlacesStep, NoErrorYetStep, OnlyOneHitStep, VerdictStep
  DEF IInv
<1> QED BY <1>1, <1>2, PTL DEF Spec

\* A performance index is given only when no error was counted, and then every trace
\* was found valid and measured: main adds up the times and utilizations of all
\* traces (mdriver.c:543), and gets what printresults gets from the valid ones.
THEOREM IndexIsOfValidTraces == Spec => []IndexOfValidTraces
<1>1. IInv => IndexOfValidTraces
  <2> SUFFICES ASSUME IInv, pc = "end", errors = 0, ~ onetime_flag
               PROVE  /\ Valid(mm_stats) = 1 .. num
                      /\ total = global_mm_sum_stats
                      /\ \A k \in 1 .. num : mm_stats[k].secs >= Cost + Min(Noise)
    BY DEF IndexOfValidTraces
  <2>1. num \in Nat /\ i = num + 1
    BY MdriverAssumption DEF IInv, Types, Places
  <2>2. Behind = 1 .. num /\ Done = 1 .. num
    BY <2>1 DEF Behind, Done, Testing
  <2>3. \A k \in 1 .. num : mm_stats[k].valid /\ mm_stats[k].secs >= Cost + Min(Noise)
    BY <2>2 DEF IInv, NoErrorYet
  <2>4. Valid(mm_stats) = 1 .. num
    BY <2>3 DEF Valid
  <2>5. global_mm_sum_stats = SumOver(Valid(mm_stats), mm_stats)
        /\ total = SumOver(1 .. num, mm_stats)
    BY DEF IInv, Verdict, printresults
  <2> QED BY <2>3, <2>4, <2>5
<1> QED BY <1>1, Invariance, PTL

\* A trace that the allocator gets wrong is never counted as correct, and one that it
\* gets right always is, but for the one that the alarm interrupted: the traces
\* behind that one are still checked (mdriver.c:269).
THEOREM TimeoutHitsOnlyOne == Spec => []TimeoutHitsOne
<1>1. IInv => TimeoutHitsOne
  <2> DEFINE right == {k \in 1 .. num : behaves[k] = "right"}
  <2> SUFFICES ASSUME IInv, pc = "end", ~ onetime_flag
               PROVE  /\ Valid(mm_stats) \subseteq right
                      /\ Cardinality(right \ Valid(mm_stats))
                           <= (IF alarm = "rung" THEN 1 ELSE 0)
    BY DEF TimeoutHitsOne
  <2>1. num \in Nat /\ i = num + 1
    BY MdriverAssumption DEF IInv, Types, Places
  <2>2. Behind = 1 .. num
    BY <2>1 DEF Behind, Testing
  <2>3. Valid(mm_stats) \subseteq right
    BY DEF Valid, IInv, OnlyOneHit
  <2>4. right \ Valid(mm_stats) = Missed
    BY <2>2 DEF Valid, Missed
  <2>5. CASE Missed = {}
    BY <2>3, <2>4, <2>5, FS_EmptySet
  <2>6. CASE Missed # {}
    <3>1. PICK k \in Missed : Missed = {k}
      BY <2>6 DEF IInv, OnlyOneHit
    <3>2. alarm = "rung"
      BY <2>6 DEF IInv, OnlyOneHit
    <3>3. Cardinality(Missed) = 1
      BY <3>1, FS_Singleton
    <3> QED BY <2>3, <2>4, <3>2, <3>3
  <2> QED BY <2>5, <2>6
<1> QED BY <1>1, Invariance, PTL

-----------------------------------------------------------------------------
(* The best samples, in every run *)

\* The values are the smallest samples, and the first of them is the result.
Best ==
    /\ values \in Seq(Int) /\ samples \in Seq(Int)
    /\ Len(values) = IF Len(samples) < kbest THEN Len(samples) ELSE kbest
    /\ Ranked(samples, values)
    /\ timing = "samples" => Len(samples) < maxsamples
    /\ timing = "done" => Len(values) >= 1 /\ result = values[1]

\* A step of the timing keeps them so.
LEMMA BestKept ==
    ASSUME Measured, Best, TimingStep
    PROVE  Best'
<1>0. kbest \in Nat \ {0} /\ maxsamples \in Nat \ {0} /\ Noise \subseteq Int
  BY FcycAssumption
<1>1. CASE timing' \notin {"samples", "done"} /\ UNCHANGED <<values, samples>>
  BY <1>1 DEF Best, Ranked, Below, NotAbove
<1>2. CASE values' = <<>> /\ samples' = <<>> /\ timing' # "done"
  <2>1. /\ values' \in Seq(Int) /\ samples' \in Seq(Int)
        /\ Len(samples') = 0 /\ Len(values') = 0 /\ Ranked(samples, values)'
    BY <1>2 DEF Ranked
  <2> QED BY <1>0, <1>2, <2>1 DEF Best
<1>3. CASE \E c \in Nat : fsec(c)
  BY <1>1, <1>3 DEF fsec
<1>4. CASE FindReps
  BY <1>1, <1>2, <1>4 DEF FindReps
<1>5. CASE TakeSample
  <2>1. /\ timing = "samples" /\ cost \in Nat /\ reps \in Nat \ {0}
    BY <1>5 DEF TakeSample, Measured
  <2>2. /\ values \in Seq(Int) /\ samples \in Seq(Int)
        /\ Len(values) = IF Len(samples) < kbest THEN Len(samples) ELSE kbest
        /\ Ranked(samples, values) /\ Len(samples) < maxsamples
    BY <2>1 DEF Best
  <2>3. PICK sec \in {t \div reps : t \in get_timer} :
          IF sec > 0
          THEN values' = add_sample(sec) /\ samples' = Append(samples, sec)
          ELSE UNCHANGED <<values, samples>>
    BY <1>5 DEF TakeSample
  <2>4. sec \in Int
    <3>1. PICK n \in Noise : sec = (reps * (cost + n)) \div reps
      BY DEF get_timer
    <3>2. cost + n \in Int
      BY <1>0, <2>1
    <3> QED BY <2>1, <3>1, <3>2, OneRun
  <2>5. /\ values' \in Seq(Int) /\ samples' \in Seq(Int)
        /\ Len(values') = IF Len(samples') < kbest THEN Len(samples') ELSE kbest
        /\ Ranked(samples, values)'
    <3>1. CASE sec > 0
      <4>1. values' = add_sample(sec) /\ samples' = Append(samples, sec)
        BY <2>3, <3>1
      <4>2. samples' \in Seq(Int) /\ Len(samples') = Len(samples) + 1
        BY <2>2, <2>4, <4>1, AppendProperties
      <4>3. /\ add_sample(sec) \in Seq(Int)
            /\ Len(add_sample(sec))
                 = IF Len(samples) + 1 < kbest THEN Len(samples) + 1 ELSE kbest
        BY <2>2, <2>4, AddSampleKeeps
      <4>4. Ranked(Append(samples, sec), add_sample(sec))
        BY <2>2, <2>4, AddSampleRanked
      <4> QED BY <4>1, <4>2, <4>3, <4>4 DEF Ranked
    <3>2. CASE ~ (sec > 0)
      BY <2>2, <2>3, <3>2 DEF Ranked
    <3> QED BY <3>1, <3>2
  <2>6. Len(samples') \in Nat
    BY <2>5, LenProperties
  <2>7. CASE timing' = "done" /\ result' = values'[1]
             /\ (has_converged(values', Len(samples')) \/ Len(samples') >= maxsamples)
    <3>1. Len(samples') >= 1
      BY <1>0, <2>6, <2>7 DEF has_converged
    <3>2. Len(values') >= 1
      BY <1>0, <2>5, <2>6, <3>1
    <3> QED BY <2>5, <2>7, <3>2 DEF Best
  <2>8. CASE UNCHANGED timing /\ ~ (Len(samples') >= maxsamples)
    <3>1. timing' = "samples" /\ Len(samples') < maxsamples
      BY <1>0, <2>1, <2>6, <2>8
    <3> QED BY <2>5, <3>1 DEF Best
  <2> QED BY <1>5, <2>7, <2>8 DEF TakeSample
<1>6. CASE FreeValues
  BY <1>2, <1>6 DEF FreeValues
<1>7. CASE Abandon
  BY <1>1, <1>7 DEF Abandon
<1>8. CASE UNCHANGED fcycvars
  BY <1>8 DEF fcycvars, Best, Ranked, Below, NotAbove
<1> QED BY <1>3, <1>4, <1>5, <1>6, <1>7, <1>8 DEF TimingStep

\* The values that fsec keeps are the kbest smallest of the samples it has taken, in
\* order, and what it returns is the smallest: add_sample lets go of nothing but the
\* worst value and of nothing when the sample is worse, in every measurement, also when
\* the alarm has ended the one before in the middle.
THEOREM BestSamplesKept == Spec => []BestSamples
<1>1. Init => Best
  <2> SUFFICES ASSUME FcycInit PROVE Best
    BY DEF Init
  <2>1. timing = "idle" /\ values = <<>> /\ samples = <<>>
    BY DEF FcycInit
  <2>2. /\ values \in Seq(Int) /\ samples \in Seq(Int)
        /\ Len(samples) = 0 /\ Len(values) = 0 /\ Ranked(samples, values)
    BY <2>1 DEF Ranked
  <2> QED BY <2>1, <2>2, FcycAssumption DEF Best
<1>2. Measured /\ Best /\ [Next]_vars => Best'
  BY BestKept, TimingSteps
<1>3. IInv => Measured
  BY DEF IInv
<1>4. Best => BestSamples
  <2> SUFFICES ASSUME Best PROVE BestSamples
    OBVIOUS
  <2>1. DOMAIN values = 1 .. Len(values)
    BY LenProperties DEF Best
  <2>2. timing = "done" => \A k \in DOMAIN samples : result <= samples[k]
    BY FirstIsLeast DEF Best
  <2> QED BY <2>1, <2>2 DEF Best, Ranked, BestSamples
<1> QED BY <1>1, <1>2, <1>3, <1>4, Invariance, PTL DEF Spec
=============================================================================
