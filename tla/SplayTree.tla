------------------------------ MODULE SplayTree ------------------------------
(***************************************************************************)
(* The splay tree of project 2 (stree.c): nodes in memory with pointers to *)
(* their children and their parent.  A key is in at most one node, so the  *)
(* node is named by its key, and 0 is the null pointer.  One call runs at a time; each *)
(* round of its loops is a step.                                           *)
(***************************************************************************)
EXTENDS Integers

CONSTANT Key            \* the keys, positive numbers

ASSUME KeyAssumption == Key \subseteq Nat \ {0}

NIL == 0

VARIABLES
    tree,       \* root, and the node_t of each allocated node
    call,       \* the function that runs, or "none", and its key
    at,         \* where it is: "search", "splay", "minimum", "returned"
    z, p, n,    \* locals: the node, its parent (y of tree_remove), the nearest so far
    result      \* the key of the node whose record the last call returned

treevars == <<tree, call, at, z, p, n, result>>

tree_new == [root |-> NIL, node |-> [x \in {} |-> NIL]]

TreeInit ==
    /\ tree = tree_new
    /\ call = [op |-> "none", key |-> NIL] /\ at = "returned"
    /\ z = NIL /\ p = NIL /\ n = NIL /\ result = NIL

-----------------------------------------------------------------------------
(* Pointers *)

L(t, x) == t.node[x].left
R(t, x) == t.node[x].right
P(t, x) == t.node[x].parent

SetL(t, x, y) == [t EXCEPT !.node[x].left = y]
SetR(t, x, y) == [t EXCEPT !.node[x].right = y]
SetP(t, x, y) == IF x = NIL THEN t ELSE [t EXCEPT !.node[x].parent = y]

\* The pointer to u, in the root or in its parent, becomes v.
Hang(t, u, v) ==
    IF P(t, u) = NIL THEN [t EXCEPT !.root = v]
    ELSE IF u = L(t, P(t, u)) THEN SetL(t, P(t, u), v) ELSE SetR(t, P(t, u), v)

left_rotate(t, x) ==
    LET y     == R(t, x)
        moved == IF y = NIL THEN t
                 ELSE SetP(SetP(SetR(t, x, L(t, y)), L(t, y), x), y, P(t, x))
        hung  == Hang(moved, x, y)
    IN  SetP(IF y = NIL THEN hung ELSE SetL(hung, y, x), x, y)

right_rotate(t, x) ==
    LET y     == L(t, x)
        moved == IF y = NIL THEN t
                 ELSE SetP(SetP(SetL(t, x, R(t, y)), R(t, y), x), y, P(t, x))
        hung  == Hang(moved, x, y)
    IN  SetP(IF y = NIL THEN hung ELSE SetR(hung, y, x), x, y)

replace(t, u, v) == SetP(Hang(t, u, v), v, P(t, u))

\* Mutant: the two rotations of an inner grandchild in the wrong order, the
\* second undoes the first.
splay_swapped(t, x) ==
    LET f == P(t, x)
        g == P(t, f)
    IN  CASE g = NIL /\ L(t, f) = x  -> right_rotate(t, f)
          [] g = NIL /\ L(t, f) # x  -> left_rotate(t, f)
          [] g # NIL /\ L(t, f) = x /\ L(t, g) = f ->
               right_rotate(right_rotate(t, g), f)
          [] g # NIL /\ R(t, f) = x /\ R(t, g) = f ->
               left_rotate(left_rotate(t, g), f)
          [] g # NIL /\ L(t, f) = x /\ R(t, g) = f ->
               right_rotate(left_rotate(t, g), f)
          [] OTHER -> left_rotate(right_rotate(t, g), f)

\* One round of splay for a node x that is not the root.
splay(t, x) ==
    LET f == P(t, x)
        g == P(t, f)
    IN  CASE g = NIL /\ L(t, f) = x  -> right_rotate(t, f)
          [] g = NIL /\ L(t, f) # x  -> left_rotate(t, f)
          [] g # NIL /\ L(t, f) = x /\ L(t, g) = f ->
               right_rotate(right_rotate(t, g), f)
          [] g # NIL /\ R(t, f) = x /\ R(t, g) = f ->
               left_rotate(left_rotate(t, g), f)
          [] g # NIL /\ L(t, f) = x /\ R(t, g) = f ->
               left_rotate(right_rotate(t, f), g)
          [] OTHER -> right_rotate(left_rotate(t, f), g)

-----------------------------------------------------------------------------
(* Calls *)

Idle == at = "returned" /\ call.op = "none"

Call(op, key) ==
    /\ call' = [op |-> op, key |-> key] /\ at' = "search"
    /\ z' = tree.root /\ p' = NIL /\ n' = NIL /\ result' = NIL
    /\ UNCHANGED tree

Return(r) == /\ at' = "returned" /\ result' = r
             /\ z' = NIL /\ p' = NIL /\ n' = NIL

\* Mutant: the first smaller key on the way counts, not the last.
SearchFirst ==
    /\ at = "search" /\ z # NIL /\ z # call.key
    /\ p' = z
    /\ n' = IF call.key > z /\ n = NIL THEN z ELSE n
    /\ z' = IF call.key > z THEN R(tree, z) ELSE L(tree, z)
    /\ UNCHANGED <<tree, call, at, result>>

Search ==
    /\ at = "search" /\ z # NIL /\ z # call.key
    /\ p' = z
    /\ n' = IF call.key > z /\ (n = NIL \/ n < z) THEN z ELSE n
    /\ z' = IF call.key > z THEN R(tree, z) ELSE L(tree, z)
    /\ UNCHANGED <<tree, call, at, result>>

NearestFound ==
    /\ call.op = "tree_find_nearest" /\ at = "search"
    /\ z = NIL \/ z = call.key
    /\ Return(IF z = NIL THEN n ELSE z)
    /\ UNCHANGED <<tree, call>>

InsertPresent ==
    /\ call.op = "tree_insert" /\ at = "search" /\ z = call.key
    /\ Return(NIL) /\ UNCHANGED <<tree, call>>

\* The tree with a new leaf k below node q, or as its only node.
Inserted(t, k, q) ==
    LET u == [t EXCEPT !.node = [x \in DOMAIN t.node \cup {k} |->
                 IF x = k THEN [left |-> NIL, right |-> NIL, parent |-> q]
                 ELSE t.node[x]]]
    IN  IF q = NIL THEN [u EXCEPT !.root = k]
        ELSE IF q < k THEN SetR(u, q, k) ELSE SetL(u, q, k)

InsertNode ==
    /\ call.op = "tree_insert" /\ at = "search" /\ z = NIL
    /\ tree' = Inserted(tree, call.key, p)
    /\ z' = call.key /\ at' = "splay"
    /\ UNCHANGED <<call, p, n, result>>

RemoveAbsent ==
    /\ call.op = "tree_remove" /\ at = "search" /\ z = NIL
    /\ Return(NIL) /\ UNCHANGED <<tree, call>>

RemoveFound ==
    /\ call.op = "tree_remove" /\ at = "search" /\ z = call.key
    /\ at' = "splay" /\ UNCHANGED <<tree, call, z, p, n, result>>

Splay ==
    /\ at = "splay" /\ P(tree, z) # NIL
    /\ tree' = splay(tree, z)
    /\ UNCHANGED <<call, at, z, p, n, result>>

InsertDone ==
    /\ call.op = "tree_insert" /\ at = "splay" /\ P(tree, z) = NIL
    /\ Return(z) /\ UNCHANGED <<tree, call>>

Freed(t, x) == [t EXCEPT !.node = [k \in DOMAIN t.node \ {x} |-> t.node[k]]]

\* At most one child: it takes the place of z.
RemoveOuter ==
    /\ call.op = "tree_remove" /\ at = "splay" /\ P(tree, z) = NIL
    /\ L(tree, z) = NIL \/ R(tree, z) = NIL
    /\ tree' = Freed(replace(tree, z, IF L(tree, z) = NIL THEN R(tree, z)
                                                           ELSE L(tree, z)), z)
    /\ Return(z) /\ UNCHANGED call

RemoveInner ==
    /\ call.op = "tree_remove" /\ at = "splay" /\ P(tree, z) = NIL
    /\ L(tree, z) # NIL /\ R(tree, z) # NIL
    /\ at' = "minimum" /\ p' = R(tree, z)
    /\ UNCHANGED <<tree, call, z, n, result>>

subtree_minimum ==
    /\ at = "minimum" /\ L(tree, p) # NIL
    /\ p' = L(tree, p) /\ UNCHANGED <<tree, call, at, z, n, result>>

\* Mutant: the right subtree of the successor is left behind.
JoinBare(t, x, y) ==
    LET u == IF P(t, y) = x THEN t
             ELSE LET w == SetR(replace(t, y, NIL), y, R(t, x))
                  IN  SetP(w, R(w, y), y)
        v == SetL(replace(u, x, y), y, L(u, x))
    IN  SetP(v, L(v, y), y)

\* y, the smallest node to the right of x, takes the place of x.
Join(t, x, y) ==
    LET u == IF P(t, y) = x THEN t
             ELSE LET w == SetR(replace(t, y, R(t, y)), y, R(t, x))
                  IN  SetP(w, R(w, y), y)
        v == SetL(replace(u, x, y), y, L(u, x))
    IN  SetP(v, L(v, y), y)

RemoveJoin ==
    /\ at = "minimum" /\ L(tree, p) = NIL
    /\ tree' = Freed(Join(tree, z, p), z)
    /\ Return(z) /\ UNCHANGED call

TreeStep ==
    \/ Search \/ NearestFound \/ InsertPresent \/ InsertNode \/ InsertDone
    \/ RemoveAbsent \/ RemoveFound \/ RemoveOuter \/ RemoveInner
    \/ subtree_minimum \/ RemoveJoin \/ Splay
=============================================================================
