----------------------------- MODULE AnyAllocator -----------------------------
(***************************************************************************)
(* The range set of mdriver.c under an allocator that may return any       *)
(* address: the driver records what passes the tests of add_range and      *)
(* removes what it frees.                                                  *)
(***************************************************************************)
EXTENDS RangeSet

CONSTANT Sizes          \* the sizes of blocks

ASSUME SizesAssumption == Sizes \subseteq Nat \ {0}    \* assert(size > 0)

VARIABLES
    ranges,     \* range_set_t
    rejected    \* the last payload that add_range refused, or {}

vars == <<ranges, rejected>>

Bytes(lo, size) == lo .. lo + size - 1
Recorded == UNION {lo .. ranges.tree[lo].hi : lo \in DOMAIN ranges.tree}

Init == ranges = new_range_set /\ rejected = {}

Allocate(lo, size) ==
    LET prev == tree_find_nearest(ranges, lo)
    IN  IF Accepts(ranges, prev, lo, size, HeapLimit)
        THEN ranges' = add_range(ranges, prev, lo, size, 0) /\ rejected' = {}
        ELSE rejected' = Bytes(lo, size) /\ UNCHANGED ranges

Free(lo) ==
    /\ lo \in DOMAIN ranges.tree
    /\ ranges' = remove_range(ranges, tree_remove(ranges, lo)) /\ rejected' = {}

\* The driver goes on to the next request.
Request == rejected' = {} /\ UNCHANGED ranges

AnyNext ==
    \/ Request
    \/ \E lo \in {a \in HeapLo .. HeapLimit - 1 : a % Alignment = 0} :
         \E size \in Sizes :
            lo + size <= HeapLimit /\ Allocate(lo, size)
    \/ \E lo \in HeapLo .. HeapLimit - 1 : Free(lo)

Spec == Init /\ [][AnyNext]_vars

-----------------------------------------------------------------------------
(* Properties *)

\* A block that add_range refuses overlaps one that is allocated, also after
\* the list has come apart.
NoFalseAlarm == rejected = {} \/ rejected \cap Recorded # {}

\* prev and next of the records always mirror each other, and name records that
\* exist: remove_range, which follows them, never touches a freed record.
DoublyLinked ==
    LET tree == ranges.tree
    IN  /\ ranges.list \in DOMAIN tree \cup {NULL}
        /\ ranges.list # NULL => tree[ranges.list].prev = NULL
        /\ \A p \in DOMAIN tree :
            /\ tree[p].next # NULL => tree[p].next \in DOMAIN tree
                                      /\ tree[tree[p].next].prev = p
            /\ tree[p].prev # NULL => tree[p].prev \in DOMAIN tree
                                      /\ tree[tree[p].prev].next = p

\* "We use the range list to detect any overlapping allocated blocks."
\* (mdriver.c:662): the blocks that passed the tests do not overlap.
OverlapDetected ==
    \A p, q \in DOMAIN ranges.tree : p < q => ranges.tree[p].hi < q
=============================================================================
