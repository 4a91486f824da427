------------------------------- MODULE RangeSet -------------------------------
(***************************************************************************)
(* The range set of project 2's trace driver (mdriver.c): the payloads of  *)
(* the allocated blocks, in a doubly linked list and in a tree keyed by    *)
(* their first address (stree.c), here a finite map that names a record by *)
(* that address.  prev is what tree_find_nearest returned, and remove_range *)
(* is given what tree_remove returned.                                     *)
(***************************************************************************)
EXTENDS Integers, FiniteSetsExt

CONSTANTS Alignment,    \* ALIGNMENT
          HeapLimit     \* the heap lies between Alignment and HeapLimit - 1

ASSUME HeapAssumption ==
    Alignment \in Nat \ {0} /\ HeapLimit \in Nat /\ HeapLimit > Alignment

NULL == 0
HeapLo == Alignment     \* an aligned address that is not NULL

new_range_set == [list |-> NULL, tree |-> [lo \in {} |-> NULL]]

tree_find_nearest(rs, lo) ==
    LET below == {k \in DOMAIN rs.tree : k <= lo}
    IN  IF below = {} THEN NULL ELSE Max(below)

tree_remove(rs, lo) == IF lo \in DOMAIN rs.tree THEN lo ELSE NULL

NextOf(rs, p) == IF p = NULL THEN NULL ELSE rs.tree[p].next

\* Mutant: a payload must not touch the next one either.
AcceptsApart(rs, prev, lo, size, brk) ==
    LET hi   == lo + size - 1
        next == NextOf(rs, prev)
    IN  /\ lo % Alignment = 0
        /\ HeapLo <= lo /\ hi < brk
        /\ ~ (prev # NULL /\ lo <= rs.tree[prev].hi)
        /\ ~ (next # NULL /\ hi + 1 >= next)

\* The tests of add_range for a payload of size bytes at lo, whose predecessor in
\* the tree is prev, in a heap that ends before brk.
Accepts(rs, prev, lo, size, brk) ==
    LET hi   == lo + size - 1
        next == NextOf(rs, prev)
    IN  /\ lo % Alignment = 0
        /\ HeapLo <= lo /\ hi < brk
        /\ ~ (prev # NULL /\ lo <= rs.tree[prev].hi)
        /\ ~ (next # NULL /\ hi >= next)

\* The list field of a record, if there is a record.
SetNext(tree, p, x) == IF p = NULL THEN tree ELSE [tree EXCEPT ![p].next = x]
SetPrev(tree, p, x) == IF p = NULL THEN tree ELSE [tree EXCEPT ![p].prev = x]

\* Mutant: the record after the new one keeps its old prev.
add_range_no_back(rs, prev, lo, size, index) ==
    LET next == NextOf(rs, prev)
        p    == [hi |-> lo + size - 1, index |-> index, prev |-> prev, next |-> next]
        tree == SetNext(rs.tree, prev, lo)
    IN  [list |-> IF prev = NULL THEN lo ELSE rs.list,
         tree |-> [k \in DOMAIN tree \cup {lo} |-> IF k = lo THEN p ELSE tree[k]]]

\* add_range once the tests are passed.
add_range(rs, prev, lo, size, index) ==
    LET next == NextOf(rs, prev)
        p    == [hi |-> lo + size - 1, index |-> index, prev |-> prev, next |-> next]
        tree == SetPrev(SetNext(rs.tree, prev, lo), next, lo)
    IN  [list |-> IF prev = NULL THEN lo ELSE rs.list,
         tree |-> [k \in DOMAIN tree \cup {lo} |-> IF k = lo THEN p ELSE tree[k]]]

\* Mutant: the list forgets to skip the record.
remove_range_keep_list(rs, removed) ==
    IF removed = NULL THEN rs
    ELSE LET p    == rs.tree[removed]
             tree == SetPrev(SetNext(rs.tree, p.prev, p.next), p.next, p.prev)
         IN  [list |-> rs.list, tree |-> [k \in DOMAIN tree \ {removed} |-> tree[k]]]

remove_range(rs, removed) ==
    IF removed = NULL THEN rs
    ELSE LET p    == rs.tree[removed]
             tree == SetPrev(SetNext(rs.tree, p.prev, p.next), p.next, p.prev)
         IN  [list |-> IF p.prev = NULL THEN p.next ELSE rs.list,
              tree |-> [k \in DOMAIN tree \ {removed} |-> tree[k]]]

\* The records a walk from list visits, as eval_mm_valid does in expensive mode.
Walk(rs) ==
    LET w[n \in 0 .. Cardinality(DOMAIN rs.tree)] ==
          IF n = 0 THEN {rs.list} ELSE w[n - 1] \cup {NextOf(rs, p) : p \in w[n - 1]}
    IN  w[Cardinality(DOMAIN rs.tree)] \ {NULL}
=============================================================================
