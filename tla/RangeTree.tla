------------------------------ MODULE RangeTree ------------------------------
(***************************************************************************)
(* The range set of mdriver.c on the splay tree of stree.c: add_range and  *)
(* remove_range with the calls of the tree that they make, under an        *)
(* allocator that may return any address.                                  *)
(***************************************************************************)
EXTENDS AnyAllocator, SplayTree

\* add_range refuses a block that is not aligned or not in the heap before it asks
\* the tree.
ASSUME AddressAssumption ==
    Key \subseteq {a \in HeapLo .. HeapLimit - 1 : a % Alignment = 0}

VARIABLE size           \* the size of the block that add_range is about

allvars == <<vars, treevars, size>>

RInit == Init /\ TreeInit /\ size = 0

NoCall == call' = [op |-> "none", key |-> NIL] /\ result' = NIL

\* add_range

AddRange(lo, s) ==
    /\ Idle
    /\ Call("tree_find_nearest", lo) /\ size' = s
    /\ Request

Returned(op) == at = "returned" /\ call.op = op

AddTested ==
    /\ Returned("tree_find_nearest")
    /\ IF Accepts(ranges, result, call.key, size, HeapLimit)
       THEN /\ ranges' = add_range(ranges, result, call.key, size, 0)
            /\ rejected' = {}
            /\ Call("tree_insert", call.key)
       ELSE /\ rejected' = Bytes(call.key, size)
            /\ NoCall /\ UNCHANGED <<ranges, tree, at, z, p, n>>
    /\ size' = 0

AddDone ==
    /\ Returned("tree_insert")
    /\ NoCall /\ UNCHANGED <<vars, tree, at, z, p, n, size>>

\* remove_range

RemoveRange(lo) ==
    /\ Idle /\ lo \in DOMAIN ranges.tree
    /\ Call("tree_remove", lo)
    /\ Request /\ UNCHANGED size

RemoveDone ==
    /\ Returned("tree_remove")
    /\ ranges' = remove_range(ranges, result) /\ rejected' = {}
    /\ NoCall /\ UNCHANGED <<tree, at, z, p, n, size>>

Continue ==
    \/ TreeStep /\ UNCHANGED <<vars, size>>
    \/ AddTested \/ AddDone \/ RemoveDone

RNext ==
    \/ \E lo \in Key, s \in Sizes :
         lo + s <= HeapLimit /\ AddRange(lo, s)
    \/ \E lo \in Key : RemoveRange(lo)
    \/ Continue

RSpec == RInit /\ [][RNext]_allvars /\ WF_allvars(Continue)

-----------------------------------------------------------------------------
(* Properties *)

\* With the splay tree the range set does what AnyAllocator says with a finite
\* map: whatever rotations earlier calls have made, tree_find_nearest finds the
\* nearest record and tree_remove the record itself.
ImplementsFiniteMap == Spec

\* Between calls the nodes are those of the recorded blocks, and the pointers fit
\* together: children point back to their parents, every node but the root hangs
\* at one, smaller keys to the left.
SearchTree ==
    Idle =>
        /\ DOMAIN tree.node = DOMAIN ranges.tree
        /\ tree.root = NIL <=> DOMAIN tree.node = {}
        /\ \A x \in DOMAIN tree.node :
            /\ L(tree, x) # NIL => L(tree, x) < x /\ P(tree, L(tree, x)) = x
            /\ R(tree, x) # NIL => R(tree, x) > x /\ P(tree, R(tree, x)) = x
            /\ IF x = tree.root THEN P(tree, x) = NIL
               ELSE x \in {L(tree, P(tree, x)), R(tree, P(tree, x))}

\* No loop of the tree runs for ever, neither the search nor the rotations: the
\* driver gets its answer.
CallsReturn == []<>Idle
=============================================================================
