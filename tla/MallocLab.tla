------------------------------ MODULE MallocLab ------------------------------
(***************************************************************************)
(* Project 2: the trace driver (mdriver.c) runs a trace of requests        *)
(* against the allocator (mm.c) in the simulated heap (memlib.c): twice to *)
(* check it, once to measure its use of space, then for its speed.         *)
(***************************************************************************)
EXTENDS RangeSet, SequencesExt

CONSTANTS Ids,              \* the blocks of a trace, indices into trace->blocks
          Sizes,            \* sizes that requests ask for
          MaxOps,           \* bound on the length of a trace
          maxfill,          \* bytes filled at each end of a block
          Expensive         \* DBG_EXPENSIVE: check every block at every request

ASSUME MallocLabAssumption ==
    /\ Ids \subseteq Nat /\ IsFiniteSet(Ids)
    /\ Sizes \subseteq Nat \ {0} /\ MaxOps \in Nat /\ maxfill \in Nat \ {0}
    /\ Expensive \in BOOLEAN

FAIL   == -1                \* (void *) -1
NullId == -1                \* the index of free(NULL)

Passes == {"valid1", "valid2", "util", "speed"}

VARIABLES
    ops,                \* trace->ops
    phase,              \* "read", a pass, "done", or "invalid"
    error,              \* what malloc_error said, "" if it was not called
    i,                  \* the next request of the pass
    mem_brk,            \* end of the heap
    heap,               \* its bytes: what was last written, and where in it
    blocks,             \* trace->blocks
    block_sizes,        \* trace->block_sizes
    block_rand_base,    \* trace->block_rand_base, a fresh name at each random()
    ranges,             \* the range set, see RangeSet
    total_size          \* of eval_mm_util

memory == <<mem_brk, heap>>
trace  == <<blocks, block_sizes, block_rand_base>>
vars   == <<ops, phase, error, i, memory, trace, ranges, total_size>>

Seen(types)  == {ops[j].index : j \in {k \in DOMAIN ops : ops[k].type \in types}}
Addresses    == HeapLo .. HeapLimit - 1

Init ==
    /\ ops = <<>> /\ phase = "read" /\ error = "" /\ i = 1
    /\ mem_brk = HeapLo
    /\ heap = [a \in Addresses |-> <<"zero", 0, 0>>]
    /\ blocks = [x \in Ids |-> NULL]
    /\ block_sizes = [x \in Ids |-> 0]
    /\ block_rand_base = [x \in Ids |-> <<"zero", 0>>]
    /\ ranges = new_range_set
    /\ total_size = 0

-----------------------------------------------------------------------------
(* memlib.c and mm.c *)

mem_sbrk(brk, incr) ==
    IF brk + incr > HeapLimit THEN [ptr |-> FAIL, brk |-> brk]
    ELSE [ptr |-> brk, brk |-> brk + incr]

align(x) == Alignment * ((x + Alignment - 1) \div Alignment)

malloc(brk, size) ==
    IF size = 0 THEN [ptr |-> NULL, brk |-> brk] ELSE mem_sbrk(brk, align(size))

\* Copies upwards, so that bytes it wrote before come again when new < old + n.
mem_memcpy(h, new, old, n) ==
    [a \in DOMAIN h |-> IF a \in new .. new + n - 1
                        THEN h[old + ((a - new) % (new - old))] ELSE h[a]]

\* ok is FALSE when the copy goes to FAIL and the program crashes.
realloc(brk, h, old, size) ==
    LET m     == malloc(brk, size)
        again == malloc(m.brk, size)
    IN  CASE size = 0   -> [ptr |-> NULL, brk |-> m.brk, heap |-> h, ok |-> TRUE]
          [] size # 0 /\ old = NULL ->
               [ptr |-> again.ptr, brk |-> again.brk, heap |-> h, ok |-> TRUE]
          [] size # 0 /\ old # NULL ->
               [ptr |-> m.ptr, brk |-> m.brk, ok |-> FAIL \notin {m.ptr, old},
                heap |-> IF FAIL \in {m.ptr, old} THEN h
                         ELSE mem_memcpy(h, m.ptr, old, size)]

-----------------------------------------------------------------------------
(* Random data at the two ends of a block. *)

FrontLen(size) == IF size > maxfill THEN maxfill ELSE size
BackLen(size)  == IF size <= maxfill THEN 0
               ELSE IF size > 2 * maxfill THEN maxfill ELSE size - maxfill

\* Mutant: the fill of the back starts, and ends, a byte too far.
randomize_past(h, lo, size, base) ==
    [a \in DOMAIN h |->
        CASE a \in lo .. lo + FrontLen(size) - 1 -> Append(base, a - lo)
          [] a \in lo + size - BackLen(size) + 1 .. lo + size ->
               Append(base, a - (lo + size - BackLen(size) + 1))
          [] OTHER -> h[a]]

randomize_block(h, lo, size, base) ==
    [a \in DOMAIN h |->
        CASE a \in lo .. lo + FrontLen(size) - 1 -> Append(base, a - lo)
          [] a \in lo + size - BackLen(size) .. lo + size - 1 ->
               Append(base, a - (lo + size - BackLen(size)))
          [] OTHER -> h[a]]

\* The back is not looked at after a realloc.
check_index(h, lo, size, base, realloced) ==
    /\ \A k \in 0 .. FrontLen(size) - 1 : h[lo + k] = Append(base, k)
    /\ ~ realloced => \A k \in 0 .. BackLen(size) - 1 :
                        h[lo + size - BackLen(size) + k] = Append(base, k)

BlockIntact(x) == check_index(heap, blocks[x], block_sizes[x], block_rand_base[x], FALSE)

-----------------------------------------------------------------------------
(* Reading the trace.  As in all traces of the repository each id is        *)
(* allocated once and freed once.                                          *)

Read(op) ==
    /\ phase = "read" /\ Len(ops) < MaxOps
    /\ ops' = Append(ops, op)
    /\ UNCHANGED <<phase, error, i, memory, trace, ranges, total_size>>

read_trace ==
    \/ \E x \in Ids \ Seen({"a"}), size \in Sizes :
         Read([type |-> "a", index |-> x, size |-> size])
    \/ \E x \in Seen({"a"}) \ Seen({"f"}), size \in Sizes \cup {0} :
         Read([type |-> "r", index |-> x, size |-> size])
    \/ \E x \in Seen({"a"}) \ Seen({"f"}) :
         Read([type |-> "f", index |-> x, size |-> 0])
    \/ NullId \notin Seen({"f"})
       /\ Read([type |-> "f", index |-> NullId, size |-> 0])

-----------------------------------------------------------------------------
(* The passes. *)

\* Mutant: the heap goes on where the pass before ended.
StartPassKeepHeap(p) ==
    /\ phase' = p /\ i' = 1
    /\ blocks' = [x \in Ids |-> NULL] /\ block_sizes' = [x \in Ids |-> 0]
    /\ total_size' = 0
    /\ UNCHANGED <<ops, error, memory, block_rand_base, ranges>>

\* mem_reset_brk and reinit_trace; nothing is done about the ranges.
StartPass(p) ==
    /\ phase' = p /\ i' = 1
    /\ mem_brk' = HeapLo
    /\ blocks' = [x \in Ids |-> NULL] /\ block_sizes' = [x \in Ids |-> 0]
    /\ total_size' = 0
    /\ UNCHANGED <<ops, error, heap, block_rand_base, ranges>>

\* fcyc calls eval_mm_speed again until its times agree.
run_tests ==
    \/ /\ phase = "read" /\ ops # <<>>
       /\ Seen({"a"}) \subseteq Seen({"f"})
       /\ StartPass("valid1")
    \/ /\ phase \in Passes /\ i > Len(ops)
       /\ \/ phase = "valid1" /\ StartPass("valid2")
          \/ phase = "valid2" /\ StartPass("util")
          \/ phase \in {"util", "speed"} /\ StartPass("speed")
          \/ /\ phase = "speed" /\ phase' = "done"
             /\ UNCHANGED <<ops, error, i, memory, trace, ranges, total_size>>

\* A request fails: eval_mm_valid returns false, or the program ends.
Fails(what) ==
    /\ phase' = "invalid" /\ error' = what
    /\ UNCHANGED <<ops, i, trace, total_size>>

Done == i' = i + 1 /\ UNCHANGED <<ops, phase, error>>

Remember(x, ptr, size) ==
    /\ blocks' = [blocks EXCEPT ![x] = ptr]
    /\ block_sizes' = [block_sizes EXCEPT ![x] = size]

ValidAlloc(x, size) ==
    LET m    == malloc(mem_brk, size)
        prev == tree_find_nearest(ranges, m.ptr)
    IN  /\ mem_brk' = m.brk
        /\ IF m.ptr = NULL
           THEN Fails("mm_malloc failed") /\ UNCHANGED <<heap, ranges>>
           ELSE IF ~ Accepts(ranges, prev, m.ptr, size, m.brk)
           THEN Fails("range") /\ UNCHANGED <<heap, ranges>>
           ELSE /\ ranges' = add_range(ranges, prev, m.ptr, size, x)
                /\ Remember(x, m.ptr, size)
                /\ block_rand_base' = [block_rand_base EXCEPT ![x] = <<phase, i>>]
                /\ heap' = randomize_block(heap, m.ptr, size, <<phase, i>>)
                /\ Done /\ UNCHANGED total_size

ValidRealloc(x, size) ==
    LET r       == realloc(mem_brk, heap, blocks[x], size)
        removed == remove_range(ranges, tree_remove(ranges, blocks[x]))
        prev    == tree_find_nearest(removed, r.ptr)
        kept    == IF size < block_sizes[x] THEN size ELSE block_sizes[x]
    IN  IF ~ BlockIntact(x) THEN Fails("garbled") /\ UNCHANGED <<memory, ranges>>
        ELSE IF ~ r.ok THEN Fails("crash") /\ UNCHANGED <<memory, ranges>>
        ELSE /\ mem_brk' = r.brk
             /\ IF (r.ptr = NULL) # (size = 0)
                THEN Fails("mm_realloc failed") /\ heap' = r.heap /\ UNCHANGED ranges
                ELSE IF size > 0 /\ ~ Accepts(removed, prev, r.ptr, size, r.brk)
                THEN Fails("range") /\ heap' = r.heap /\ ranges' = removed
                ELSE /\ ranges' = IF size > 0 THEN add_range(removed, prev, r.ptr, size, x)
                                  ELSE removed
                     /\ IF ~ check_index(r.heap, r.ptr, kept, block_rand_base[x], TRUE)
                        THEN Fails("garbled") /\ heap' = r.heap
                        ELSE /\ Remember(x, r.ptr, size)
                             /\ block_rand_base' =
                                  [block_rand_base EXCEPT ![x] = <<phase, i>>]
                             /\ heap' = randomize_block(r.heap, r.ptr, size, <<phase, i>>)
                             /\ Done /\ UNCHANGED total_size

ValidFree(x) ==
    /\ IF x # NullId /\ ~ BlockIntact(x)
       THEN Fails("garbled") /\ UNCHANGED ranges
       ELSE /\ ranges' = IF x = NullId THEN ranges
                         ELSE remove_range(ranges, tree_remove(ranges, blocks[x]))
            /\ Done /\ UNCHANGED <<trace, total_size>>
    /\ UNCHANGED memory

\* The blocks that eval_mm_valid checks before each request.
ListIntact == \A lo \in Walk(ranges) : BlockIntact(ranges.tree[lo].index)

eval_mm_valid ==
    /\ phase \in {"valid1", "valid2"} /\ i <= Len(ops)
    /\ LET op == ops[i]
       IN  IF Expensive /\ ~ ListIntact
           THEN Fails("garbled") /\ UNCHANGED <<memory, ranges>>
           ELSE \/ op.type = "a" /\ ValidAlloc(op.index, op.size)
                \/ op.type = "r" /\ ValidRealloc(op.index, op.size)
                \/ op.type = "f" /\ ValidFree(op.index)

\* eval_mm_util and eval_mm_speed make the same calls and check only for NULL.
\* eval_mm_speed leaves block_sizes alone.
MeasureAlloc(x, size) ==
    LET m == malloc(mem_brk, size)
    IN  /\ mem_brk' = m.brk /\ UNCHANGED <<heap, ranges>>
        /\ IF m.ptr = NULL THEN Fails("mm_malloc failed")
           ELSE /\ blocks' = [blocks EXCEPT ![x] = m.ptr]
                /\ IF phase = "util"
                   THEN /\ block_sizes' = [block_sizes EXCEPT ![x] = size]
                        /\ total_size' = total_size + size
                   ELSE UNCHANGED <<block_sizes, total_size>>
                /\ Done /\ UNCHANGED block_rand_base

MeasureRealloc(x, size) ==
    LET r == realloc(mem_brk, heap, blocks[x], size)
    IN  /\ mem_brk' = r.brk /\ heap' = r.heap /\ UNCHANGED ranges
        /\ IF ~ r.ok THEN Fails("crash")
           ELSE IF r.ptr = NULL /\ size # 0 THEN Fails("mm_realloc failed")
           ELSE /\ blocks' = [blocks EXCEPT ![x] = r.ptr]
                /\ IF phase = "util"
                   THEN /\ block_sizes' = [block_sizes EXCEPT ![x] = size]
                        /\ total_size' = total_size + (size - block_sizes[x])
                   ELSE UNCHANGED <<block_sizes, total_size>>
                /\ Done /\ UNCHANGED block_rand_base

\* Mutant: the size of the freed block stays in the total.
MeasureFreeKeep(x) == Done /\ UNCHANGED <<memory, trace, ranges, total_size>>

MeasureFree(x) ==
    /\ total_size' = IF phase = "util" /\ x # NullId
                     THEN total_size - block_sizes[x] ELSE total_size
    /\ Done /\ UNCHANGED <<memory, trace, ranges>>

eval_mm_util_speed ==
    /\ phase \in {"util", "speed"} /\ i <= Len(ops)
    /\ \/ ops[i].type = "a" /\ MeasureAlloc(ops[i].index, ops[i].size)
       \/ ops[i].type = "r" /\ MeasureRealloc(ops[i].index, ops[i].size)
       \/ ops[i].type = "f" /\ MeasureFree(ops[i].index)

Next == read_trace \/ run_tests \/ eval_mm_valid \/ eval_mm_util_speed

Spec == Init /\ [][Next]_vars

-----------------------------------------------------------------------------
(* Properties *)

\* The ids that the requests before i leave allocated, and their last sizes.
Before(types) ==
    {ops[j].index : j \in {k \in 1 .. i - 1 : ops[k].type \in types}}
Live == Before({"a"}) \ Before({"f"})
LastSize(x) == ops[Max({j \in 1 .. i - 1 : ops[j].index = x})].size

Checking == phase \in {"valid1", "valid2"}

\* A trace that frees all it allocates is never held against the allocator, in
\* neither of the two checks nor after them, whatever the first pass left behind
\* in the heap, the bookkeeping and the range set.
VerdictValid == phase # "invalid"

\* While the driver checks, the range set holds the payloads of the blocks that the
\* trace has allocated, each with its index, and the walk along its list finds
\* every one of them.
RangesMatchBlocks ==
    Checking =>
        /\ \A x \in Live : LastSize(x) > 0 =>
             /\ blocks[x] \in DOMAIN ranges.tree
             /\ ranges.tree[blocks[x]].index = x
             /\ ranges.tree[blocks[x]].hi = blocks[x] + LastSize(x) - 1
        /\ Cardinality(DOMAIN ranges.tree) = Cardinality({x \in Live : LastSize(x) > 0})
        /\ Walk(ranges) = DOMAIN ranges.tree

\* Between any two requests of a check both ends of every allocated block hold
\* what was written there, whatever was written to the other blocks.
DataIntact == Checking => \A x \in Live : BlockIntact(x)

\* total_size, a size_t that is added to and subtracted from, is the sum of the
\* sizes of the allocated blocks: it never wraps below zero.
TotalIsLive == phase = "util" => total_size = SumFunction([x \in Live |-> LastSize(x)])

\* "indicates mem_sbrk failed" (mm.c:119): when the heap is used up malloc
\* returns NULL, and that is what the driver reports.
ExhaustionReported ==
    phase = "invalid" => error \in {"mm_malloc failed", "mm_realloc failed"}
=============================================================================
