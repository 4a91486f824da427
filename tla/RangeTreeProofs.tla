--------------------------- MODULE RangeTreeProofs ---------------------------
(***************************************************************************)
(* Proofs about the range set of mdriver.c under an allocator that may     *)
(* return any address: first about the splay tree of stree.c               *)
(* (SplayTree.tla), then about the range set with a finite map for the     *)
(* tree (AnyAllocator.tla), and last with that tree in place of the map    *)
(* (RangeTree.tla).                                                        *)
(***************************************************************************)
EXTENDS RangeTree, RangeSetProofs

-----------------------------------------------------------------------------
(* The splay tree: what each rotation, the insertion and the removal do to a     *)
(* search tree.  The lemmas rest on a ghost function sub that names the set of   *)
(* nodes below each node; every condition on it is local, so a rotation, which   *)
(* changes the sets of two nodes only, is reasoned about without induction on    *)
(* the tree.                                                                     *)

Node == [left : Nat, right : Nat, parent : Nat]

TypedTree(t) ==
    /\ t = [root |-> t.root, node |-> t.node]
    /\ t.root \in Nat
    /\ DOMAIN t.node \subseteq Nat \ {0}
    /\ t.node \in [DOMAIN t.node -> Node]

\* The pointers name nodes, and parents and children agree.
Linked(t) ==
    LET D == DOMAIN t.node
    IN  /\ t.root \in D \cup {NIL}
        /\ \A x \in D :
            /\ L(t, x) \in D \cup {NIL} /\ R(t, x) \in D \cup {NIL}
            /\ P(t, x) \in D \cup {NIL}
            /\ L(t, x) # NIL => P(t, L(t, x)) = x
            /\ R(t, x) # NIL => P(t, R(t, x)) = x
            /\ P(t, x) = NIL <=> x = t.root
            /\ P(t, x) # NIL => x \in {L(t, P(t, x)), R(t, P(t, x))}

\* sub[x] are the nodes of the subtree of x: smaller keys to the left, larger ones
\* to the right, all nodes below the root.
Sorted(t, sub) ==
    LET D == DOMAIN t.node
    IN  /\ sub \in [D \cup {NIL} -> SUBSET D]
        /\ sub[NIL] = {} /\ sub[t.root] = D
        /\ \A x \in D :
            /\ sub[x] = {x} \cup sub[L(t, x)] \cup sub[R(t, x)]
            /\ \A k \in sub[L(t, x)] : k < x
            /\ \A k \in sub[R(t, x)] : x < k

\* A subtree contains the subtrees of its nodes, and with a node its parent.
Closed(t, sub) ==
    \A x \in DOMAIN t.node : \A k \in sub[x] :
        sub[k] \subseteq sub[x] /\ (k # x => P(t, k) \in sub[x])

IsTree(t, sub) == TypedTree(t) /\ Linked(t) /\ Sorted(t, sub) /\ Closed(t, sub)

-----------------------------------------------------------------------------
(* One assignment to a pointer. *)

\* An assignment to the left pointer of x changes no other pointer.
LEMMA SetLFields ==
    ASSUME NEW t, TypedTree(t), NEW x \in DOMAIN t.node, NEW y \in Nat
    PROVE  LET u == SetL(t, x, y)
           IN  /\ TypedTree(u) /\ DOMAIN u.node = DOMAIN t.node /\ u.root = t.root
               /\ \A w \in DOMAIN t.node :
                    /\ L(u, w) = IF w = x THEN y ELSE L(t, w)
                    /\ R(u, w) = R(t, w) /\ P(u, w) = P(t, w)
<1> DEFINE m == [t.node EXCEPT ![x].left = y]
<1>1. SetL(t, x, y) = [root |-> t.root, node |-> m]
  BY DEF SetL, TypedTree
<1>2. m \in [DOMAIN t.node -> Node]
  BY DEF TypedTree, Node
<1>3. \A w \in DOMAIN t.node :
        /\ m[w].left = IF w = x THEN y ELSE t.node[w].left
        /\ m[w].right = t.node[w].right /\ m[w].parent = t.node[w].parent
  BY DEF TypedTree, Node
<1> HIDE DEF m
<1> QED BY <1>1, <1>2, <1>3 DEF TypedTree, L, R, P

\* An assignment to the right pointer of x changes no other pointer.
LEMMA SetRFields ==
    ASSUME NEW t, TypedTree(t), NEW x \in DOMAIN t.node, NEW y \in Nat
    PROVE  LET u == SetR(t, x, y)
           IN  /\ TypedTree(u) /\ DOMAIN u.node = DOMAIN t.node /\ u.root = t.root
               /\ \A w \in DOMAIN t.node :
                    /\ R(u, w) = IF w = x THEN y ELSE R(t, w)
                    /\ L(u, w) = L(t, w) /\ P(u, w) = P(t, w)
<1> DEFINE m == [t.node EXCEPT ![x].right = y]
<1>1. SetR(t, x, y) = [root |-> t.root, node |-> m]
  BY DEF SetR, TypedTree
<1>2. m \in [DOMAIN t.node -> Node]
  BY DEF TypedTree, Node
<1>3. \A w \in DOMAIN t.node :
        /\ m[w].right = IF w = x THEN y ELSE t.node[w].right
        /\ m[w].left = t.node[w].left /\ m[w].parent = t.node[w].parent
  BY DEF TypedTree, Node
<1> HIDE DEF m
<1> QED BY <1>1, <1>2, <1>3 DEF TypedTree, L, R, P

\* An assignment to the parent pointer of x changes no other pointer.
LEMMA SetPFields ==
    ASSUME NEW t, TypedTree(t), NEW x \in DOMAIN t.node \cup {NIL}, NEW y \in Nat
    PROVE  LET u == SetP(t, x, y)
           IN  /\ TypedTree(u) /\ DOMAIN u.node = DOMAIN t.node /\ u.root = t.root
               /\ \A w \in DOMAIN t.node :
                    /\ P(u, w) = IF w = x THEN y ELSE P(t, w)
                    /\ L(u, w) = L(t, w) /\ R(u, w) = R(t, w)
<1>1. CASE x = NIL
  BY <1>1 DEF SetP, TypedTree, NIL
<1>2. CASE x # NIL
  <2> DEFINE m == [t.node EXCEPT ![x].parent = y]
  <2>1. SetP(t, x, y) = [root |-> t.root, node |-> m]
    BY <1>2 DEF SetP, TypedTree
  <2>2. m \in [DOMAIN t.node -> Node]
    BY DEF TypedTree, Node
  <2>3. \A w \in DOMAIN t.node :
          /\ m[w].parent = IF w = x THEN y ELSE t.node[w].parent
          /\ m[w].left = t.node[w].left /\ m[w].right = t.node[w].right
    BY <1>2 DEF TypedTree, Node
  <2> HIDE DEF m
  <2> QED BY <2>1, <2>2, <2>3 DEF TypedTree, L, R, P
<1> QED BY <1>1, <1>2

\* The pointer to x, in the root or in its parent, is redirected to y.
LEMMA HangFields ==
    ASSUME NEW t, TypedTree(t), NEW x \in DOMAIN t.node, NEW y \in Nat,
           P(t, x) \in DOMAIN t.node \cup {NIL}
    PROVE  LET u == Hang(t, x, y)
               g == P(t, x)
           IN  /\ TypedTree(u) /\ DOMAIN u.node = DOMAIN t.node
               /\ u.root = IF g = NIL THEN y ELSE t.root
               /\ \A w \in DOMAIN t.node :
                    /\ L(u, w) = IF w = g /\ L(t, g) = x THEN y ELSE L(t, w)
                    /\ R(u, w) = IF w = g /\ L(t, g) # x THEN y ELSE R(t, w)
                    /\ P(u, w) = P(t, w)
<1>1. CASE P(t, x) = NIL
  <2>1. Hang(t, x, y) = [root |-> y, node |-> t.node]
    BY <1>1 DEF Hang, TypedTree
  <2> QED BY <1>1, <2>1 DEF TypedTree, L, R, P, NIL
<1>2. CASE P(t, x) # NIL /\ L(t, P(t, x)) = x
  <2>1. Hang(t, x, y) = SetL(t, P(t, x), y)
    BY <1>2 DEF Hang
  <2> QED BY <1>2, <2>1, SetLFields
<1>3. CASE P(t, x) # NIL /\ L(t, P(t, x)) # x
  <2>1. Hang(t, x, y) = SetR(t, P(t, x), y)
    BY <1>3 DEF Hang
  <2> QED BY <1>3, <2>1, SetRFields
<1> QED BY <1>1, <1>2, <1>3

-----------------------------------------------------------------------------
(* Rotations. *)

\* The nodes about a node x with a right child are where they should be.
LEMMA RightChild ==
    ASSUME NEW t, NEW sub, IsTree(t, sub), NEW x \in DOMAIN t.node, R(t, x) # NIL
    PROVE  LET D == DOMAIN t.node
               y == R(t, x)
               b == L(t, y)
               g == P(t, x)
           IN  /\ y \in D /\ x < y /\ P(t, y) = x /\ y # t.root
               /\ b \in D \cup {NIL} /\ b # x /\ b # y /\ (b # NIL => P(t, b) = y)
               /\ g \in D \cup {NIL} /\ g # x /\ g # y /\ (g # NIL => g # b)
               /\ g # NIL => /\ x = L(t, g) <=> x # R(t, g)
                             /\ x = L(t, g) => \A k \in sub[x] : k < g
                             /\ x = R(t, g) => \A k \in sub[x] : g < k
<1> DEFINE D == DOMAIN t.node
           y == R(t, x)
           b == L(t, y)
           g == P(t, x)
<1>1. /\ D \subseteq Nat \ {0}
      /\ sub \in [D \cup {NIL} -> SUBSET D] /\ sub[NIL] = {}
      /\ \A k \in D : /\ sub[k] = {k} \cup sub[L(t, k)] \cup sub[R(t, k)]
                      /\ \A j \in sub[L(t, k)] : j < k
                      /\ \A j \in sub[R(t, k)] : k < j
  BY DEF IsTree, TypedTree, Sorted
<1>2. \A k \in D : /\ L(t, k) \in D \cup {NIL} /\ R(t, k) \in D \cup {NIL}
                   /\ P(t, k) \in D \cup {NIL}
                   /\ L(t, k) # NIL => P(t, L(t, k)) = k
                   /\ R(t, k) # NIL => P(t, R(t, k)) = k
                   /\ P(t, k) = NIL <=> k = t.root
                   /\ P(t, k) # NIL => k \in {L(t, P(t, k)), R(t, P(t, k))}
  BY DEF IsTree, Linked
<1>3. y \in D /\ P(t, y) = x /\ y # t.root
  <2>1. x # NIL
    BY <1>1 DEF NIL
  <2> QED BY <1>2, <2>1
<1>4. b \in D \cup {NIL} /\ (b # NIL => P(t, b) = y) /\ g \in D \cup {NIL}
      /\ (g # NIL => x \in {L(t, g), R(t, g)})
  BY <1>2, <1>3
<1>5. y \in sub[x] /\ x \in sub[x] /\ (b # NIL => b \in sub[x] /\ b \in sub[R(t, x)])
  BY <1>1, <1>3, <1>4
<1>6. x < y /\ (b # NIL => x < b /\ b < y)
  BY <1>1, <1>3, <1>4, <1>5
<1>7. b # x /\ b # y
  BY <1>1, <1>3, <1>6 DEF NIL
<1>8. g # NIL => /\ x = L(t, g) \/ x = R(t, g)
                 /\ x = L(t, g) => \A k \in sub[x] : k < g
                 /\ x = R(t, g) => \A k \in sub[x] : g < k
  BY <1>1, <1>4
<1>9. g # NIL => \A k \in sub[x] : g # k
  BY <1>1, <1>4, <1>8
<1>10. g # x /\ g # y /\ (g # NIL => g # b)
  BY <1>1, <1>3, <1>4, <1>5, <1>9 DEF NIL
<1>11. g # NIL => ~ (x = L(t, g) /\ x = R(t, g))
  <2> SUFFICES ASSUME g # NIL, x = L(t, g), x = R(t, g) PROVE FALSE
    OBVIOUS
  <2>1. x < g /\ g < x
    BY <1>5, <1>8
  <2>2. x \in Nat /\ g \in Nat
    BY <1>1, <1>4
  <2> QED BY <2>1, <2>2
<1> QED BY <1>3, <1>4, <1>6, <1>7, <1>8, <1>10, <1>11

\* The pointers after a left rotation.
LEMMA LeftRotateFields ==
    ASSUME NEW t, NEW sub, IsTree(t, sub), NEW x \in DOMAIN t.node, R(t, x) # NIL
    PROVE  LET u == left_rotate(t, x)
               y == R(t, x)
               b == L(t, y)
               g == P(t, x)
           IN  /\ TypedTree(u) /\ DOMAIN u.node = DOMAIN t.node
               /\ u.root = IF g = NIL THEN y ELSE t.root
               /\ \A w \in DOMAIN t.node :
                    /\ L(u, w) = IF w = y THEN x
                                 ELSE IF w = g /\ L(t, g) = x THEN y ELSE L(t, w)
                    /\ R(u, w) = IF w = x THEN b
                                 ELSE IF w = g /\ R(t, g) = x THEN y ELSE R(t, w)
                    /\ P(u, w) = IF w = x THEN y ELSE IF w = y THEN g
                                 ELSE IF w = b THEN x ELSE P(t, w)
<1> DEFINE D == DOMAIN t.node
           y == R(t, x)
           b == L(t, y)
           g == P(t, x)
           t1 == SetR(t, x, b)
           t2 == SetP(t1, b, x)
           t3 == SetP(t2, y, g)
           t4 == Hang(t3, x, y)
           t5 == SetL(t4, y, x)
           t6 == SetP(t5, x, y)
<1>1. /\ y \in D /\ y # x
      /\ b \in D \cup {NIL} /\ b # x /\ b # y
      /\ g \in D \cup {NIL} /\ g # x /\ g # y /\ (g # NIL => g # b)
      /\ g # NIL => (x = L(t, g) <=> x # R(t, g))
      /\ D \subseteq Nat \ {0} /\ TypedTree(t)
  BY RightChild DEF IsTree, TypedTree
<1>2. x \in Nat /\ y \in Nat /\ b \in Nat /\ g \in Nat /\ NIL \notin D
  BY <1>1 DEF NIL
<1>3. left_rotate(t, x) = t6
  BY DEF left_rotate
<1> HIDE DEF D, y, b, g
<1>4. /\ TypedTree(t1) /\ DOMAIN t1.node = D /\ t1.root = t.root
      /\ \A w \in D : /\ R(t1, w) = IF w = x THEN b ELSE R(t, w)
                      /\ L(t1, w) = L(t, w) /\ P(t1, w) = P(t, w)
  BY <1>1, <1>2, SetRFields DEF D
<1> HIDE DEF t1
<1>5. /\ TypedTree(t2) /\ DOMAIN t2.node = D /\ t2.root = t.root
      /\ \A w \in D : /\ P(t2, w) = IF w = b THEN x ELSE P(t1, w)
                      /\ L(t2, w) = L(t1, w) /\ R(t2, w) = R(t1, w)
  BY <1>1, <1>2, <1>4, SetPFields
<1> HIDE DEF t2
<1>6. /\ TypedTree(t3) /\ DOMAIN t3.node = D /\ t3.root = t.root
      /\ \A w \in D : /\ P(t3, w) = IF w = y THEN g ELSE P(t2, w)
                      /\ L(t3, w) = L(t2, w) /\ R(t3, w) = R(t2, w)
  BY <1>1, <1>2, <1>5, SetPFields
<1> HIDE DEF t3
<1>7. x \in D /\ P(t3, x) = g
      /\ (g # NIL => L(t3, g) = L(t, g) /\ R(t3, g) = R(t, g))
  BY <1>1, <1>4, <1>5, <1>6 DEF D, g
<1>8. /\ TypedTree(t4) /\ DOMAIN t4.node = D
      /\ t4.root = IF g = NIL THEN y ELSE t.root
      /\ \A w \in D : /\ L(t4, w) = IF w = g /\ L(t, g) = x THEN y ELSE L(t3, w)
                      /\ R(t4, w) = IF w = g /\ R(t, g) = x THEN y ELSE R(t3, w)
                      /\ P(t4, w) = P(t3, w)
  <2>1. /\ TypedTree(t4) /\ DOMAIN t4.node = D
        /\ t4.root = IF g = NIL THEN y ELSE t3.root
        /\ \A w \in D :
             /\ L(t4, w) = IF w = g /\ L(t3, g) = x THEN y ELSE L(t3, w)
             /\ R(t4, w) = IF w = g /\ L(t3, g) # x THEN y ELSE R(t3, w)
             /\ P(t4, w) = P(t3, w)
    BY <1>1, <1>2, <1>6, <1>7, HangFields
  <2>2. \A w \in D : w = g => (L(t3, g) = x <=> L(t, g) = x)
                             /\ (L(t3, g) # x <=> R(t, g) = x)
    BY <1>1, <1>2, <1>7
  <2> QED BY <1>6, <2>1, <2>2
<1> HIDE DEF t4
<1>9. /\ TypedTree(t5) /\ DOMAIN t5.node = D /\ t5.root = t4.root
      /\ \A w \in D : /\ L(t5, w) = IF w = y THEN x ELSE L(t4, w)
                      /\ R(t5, w) = R(t4, w) /\ P(t5, w) = P(t4, w)
  BY <1>1, <1>2, <1>8, SetLFields
<1> HIDE DEF t5
<1>10. /\ TypedTree(t6) /\ DOMAIN t6.node = D /\ t6.root = t5.root
       /\ \A w \in D : /\ P(t6, w) = IF w = x THEN y ELSE P(t5, w)
                       /\ L(t6, w) = L(t5, w) /\ R(t6, w) = R(t5, w)
  BY <1>2, <1>7, <1>9, SetPFields
<1> HIDE DEF t6
<1>11. ASSUME NEW w \in D
       PROVE /\ L(t6, w) = IF w = y THEN x
                           ELSE IF w = g /\ L(t, g) = x THEN y ELSE L(t, w)
             /\ R(t6, w) = IF w = x THEN b
                           ELSE IF w = g /\ R(t, g) = x THEN y ELSE R(t, w)
             /\ P(t6, w) = IF w = x THEN y ELSE IF w = y THEN g
                           ELSE IF w = b THEN x ELSE P(t, w)
  <2>1. L(t6, w) = IF w = y THEN x
                   ELSE IF w = g /\ L(t, g) = x THEN y ELSE L(t, w)
    BY <1>2, <1>4, <1>5, <1>6, <1>7, <1>8, <1>9, <1>10
  <2>2. R(t6, w) = IF w = x THEN b
                   ELSE IF w = g /\ R(t, g) = x THEN y ELSE R(t, w)
    BY <1>1, <1>2, <1>4, <1>5, <1>6, <1>7, <1>8, <1>9, <1>10
  <2>3. P(t6, w) = IF w = x THEN y ELSE IF w = y THEN g
                   ELSE IF w = b THEN x ELSE P(t, w)
    BY <1>1, <1>2, <1>4, <1>5, <1>6, <1>8, <1>9, <1>10
  <2> QED BY <2>1, <2>2, <2>3
<1> QED BY <1>3, <1>8, <1>9, <1>10, <1>11 DEF D, y, b, g

\* A left rotation about a node with a right child leaves a search tree.
LEMMA LeftRotateKeeps ==
    ASSUME NEW t, NEW sub, IsTree(t, sub), NEW x \in DOMAIN t.node, R(t, x) # NIL
    PROVE  \E s : IsTree(left_rotate(t, x), s)
<1> DEFINE D == DOMAIN t.node
           u == left_rotate(t, x)
           y == R(t, x)
           a == L(t, x)
           b == L(t, y)
           c == R(t, y)
           g == P(t, x)
           lower == {x} \cup sub[a] \cup sub[b]
           s == [w \in D \cup {NIL} |-> IF w = y THEN sub[x]
                                        ELSE IF w = x THEN lower ELSE sub[w]]
<1>1. /\ y \in D /\ x < y /\ P(t, y) = x /\ y # t.root
      /\ b \in D \cup {NIL} /\ b # x /\ b # y /\ (b # NIL => P(t, b) = y)
      /\ g \in D \cup {NIL} /\ g # x /\ g # y /\ (g # NIL => g # b)
      /\ g # NIL => /\ x = L(t, g) <=> x # R(t, g)
                    /\ x = L(t, g) => \A k \in sub[x] : k < g
                    /\ x = R(t, g) => \A k \in sub[x] : g < k
  BY RightChild
<1>2. /\ TypedTree(u) /\ DOMAIN u.node = D
      /\ u.root = IF g = NIL THEN y ELSE t.root
      /\ \A w \in D :
           /\ L(u, w) = IF w = y THEN x
                        ELSE IF w = g /\ L(t, g) = x THEN y ELSE L(t, w)
           /\ R(u, w) = IF w = x THEN b
                        ELSE IF w = g /\ R(t, g) = x THEN y ELSE R(t, w)
           /\ P(u, w) = IF w = x THEN y ELSE IF w = y THEN g
                        ELSE IF w = b THEN x ELSE P(t, w)
  BY LeftRotateFields
<1>3. /\ D \subseteq Nat \ {0} /\ NIL \notin D /\ x \in D
      /\ sub \in [D \cup {NIL} -> SUBSET D] /\ sub[NIL] = {} /\ sub[t.root] = D
      /\ \A k \in D : /\ sub[k] = {k} \cup sub[L(t, k)] \cup sub[R(t, k)]
                      /\ \A j \in sub[L(t, k)] : j < k
                      /\ \A j \in sub[R(t, k)] : k < j
  BY DEF IsTree, TypedTree, Sorted, NIL
<1>4. /\ t.root \in D \cup {NIL}
      /\ \A k \in D : /\ L(t, k) \in D \cup {NIL} /\ R(t, k) \in D \cup {NIL}
                      /\ P(t, k) \in D \cup {NIL}
                      /\ L(t, k) # NIL => P(t, L(t, k)) = k
                      /\ R(t, k) # NIL => P(t, R(t, k)) = k
                      /\ P(t, k) = NIL <=> k = t.root
                      /\ P(t, k) # NIL => k \in {L(t, P(t, k)), R(t, P(t, k))}
  BY DEF IsTree, Linked
<1>5. \A k \in D : \A j \in sub[k] :
        sub[j] \subseteq sub[k] /\ (j # k => P(t, j) \in sub[k])
  BY DEF IsTree, Closed
<1>6. sub[x] = {x} \cup sub[a] \cup sub[y] /\ sub[y] = {y} \cup sub[b] \cup sub[c]
      /\ a \in D \cup {NIL} /\ c \in D \cup {NIL}
  BY <1>1, <1>3, <1>4
<1>7. \A k \in sub[a] \cup sub[b] : k \in D /\ k < y /\ k # x
  BY <1>1, <1>3, <1>4, <1>6
<1>8. a # x /\ a # y /\ c # x /\ c # y
  BY <1>1, <1>3, <1>4, <1>6, <1>7
<1>a. R(t, x) = y /\ L(t, x) = a /\ L(t, y) = b /\ R(t, y) = c /\ P(t, x) = g
  OBVIOUS
<1> HIDE DEF u, D, y, a, b, c, g
<1> USE <1>a
<1>9. Linked(u)
  <2>1. u.root \in D \cup {NIL}
    BY <1>1, <1>2, <1>4
  <2>2. ASSUME NEW k \in D
        PROVE  /\ L(u, k) \in D \cup {NIL} /\ R(u, k) \in D \cup {NIL}
               /\ P(u, k) \in D \cup {NIL}
    BY <1>1, <1>2, <1>3, <1>4
  <2>3. ASSUME NEW k \in D, L(u, k) # NIL PROVE P(u, L(u, k)) = k
    <3>1. CASE k = y
      BY <3>1, <1>1, <1>2, <1>3
    <3>2. CASE k = g /\ L(t, g) = x
      BY <3>2, <1>1, <1>2, <1>3
    <3>3. CASE k # y /\ ~ (k = g /\ L(t, g) = x)
      <4>1. L(u, k) = L(t, k) /\ L(t, k) \in D /\ P(t, L(t, k)) = k
        BY <2>3, <3>3, <1>2, <1>4
      <4>2. L(t, k) # x /\ L(t, k) # y /\ L(t, k) # b
        BY <3>3, <4>1, <1>1, <1>3, <1>8
      <4> QED BY <4>1, <4>2, <1>2
    <3> QED BY <3>1, <3>2, <3>3
  <2>4. ASSUME NEW k \in D, R(u, k) # NIL PROVE P(u, R(u, k)) = k
    <3>1. CASE k = x
      BY <2>4, <3>1, <1>1, <1>2, <1>3
    <3>2. CASE k = g /\ R(t, g) = x
      BY <3>2, <1>1, <1>2, <1>3
    <3>3. CASE k # x /\ ~ (k = g /\ R(t, g) = x)
      <4>1. R(u, k) = R(t, k) /\ R(t, k) \in D /\ P(t, R(t, k)) = k
        BY <2>4, <3>3, <1>2, <1>4
      <4>2. R(t, k) # y
        BY <3>3, <4>1, <1>1
      <4>3. R(t, k) # x
        <5> SUFFICES ASSUME R(t, k) = x PROVE FALSE
          OBVIOUS
        <5>1. k = g /\ g # NIL /\ L(t, g) = x
          BY <3>3, <4>1, <1>3
        <5>2. x \in sub[L(t, g)] /\ x \in sub[R(t, g)]
          BY <5>1, <1>6
        <5>3. x < g /\ g < x
          BY <5>1, <5>2, <1>1, <1>3
        <5>4. x \in Nat /\ g \in Nat
          BY <5>1, <1>1, <1>3
        <5> QED BY <5>3, <5>4
      <4>4. R(t, k) # b
        <5> SUFFICES ASSUME R(t, k) = b PROVE FALSE
          OBVIOUS
        <5>1. k = y
          BY <4>1, <1>1, <1>3
        <5> QED BY <5>1, <4>1, <1>3, <1>1
      <4> QED BY <4>1, <4>2, <4>3, <4>4, <1>2
    <3> QED BY <3>1, <3>2, <3>3
  <2>5. ASSUME NEW k \in D PROVE P(u, k) = NIL <=> k = u.root
    <3>1. g = NIL <=> x = t.root
      BY <1>3, <1>4
    <3>2. CASE k = x \/ k = y
      BY <3>1, <3>2, <1>1, <1>2, <1>3
    <3>3. CASE k # x /\ k # y
      <4>1. P(t, k) = NIL <=> k = t.root
        BY <1>4
      <4>2. k = b => k # t.root
        BY <1>1, <1>3, <1>4
      <4> QED BY <3>1, <3>3, <4>1, <4>2, <1>2, <1>3
    <3> QED BY <3>2, <3>3
  <2>6. ASSUME NEW k \in D, P(u, k) # NIL
        PROVE  k \in {L(u, P(u, k)), R(u, P(u, k))}
    <3>1. CASE k = x
      BY <3>1, <1>1, <1>2
    <3>2. CASE k = y
      <4>1. P(u, k) = g /\ g # NIL
        BY <2>6, <3>2, <1>1, <1>2
      <4> QED BY <3>2, <4>1, <1>1, <1>2
    <3>3. CASE k = b
      BY <3>3, <1>1, <1>2, <1>3
    <3>4. CASE k # x /\ k # y /\ k # b
      <4>1. P(u, k) = P(t, k) /\ P(t, k) \in D /\ k \in {L(t, P(t, k)), R(t, P(t, k))}
        BY <2>6, <3>4, <1>2, <1>4
      <4>2. k = L(t, P(t, k)) => L(u, P(t, k)) = k
        BY <3>4, <4>1, <1>2
      <4>3. k = R(t, P(t, k)) => R(u, P(t, k)) = k
        <5> SUFFICES ASSUME k = R(t, P(t, k)) PROVE R(u, P(t, k)) = k
          OBVIOUS
        <5>1. P(t, k) # x
          BY <3>4
        <5>2. P(t, k) = g => R(t, g) # x
          BY <3>4, <4>1, <1>1, <1>3
        <5> QED BY <4>1, <5>1, <5>2, <1>2
      <4> QED BY <4>1, <4>2, <4>3
    <3> QED BY <3>1, <3>2, <3>3, <3>4
  <2> QED BY <1>2, <2>1, <2>2, <2>3, <2>4, <2>5, <2>6 DEF Linked
<1>10. /\ s \in [D \cup {NIL} -> SUBSET D] /\ s[NIL] = {}
       /\ s[y] = sub[x] /\ s[x] = lower
       /\ \A k \in D : k # x /\ k # y => s[k] = sub[k]
       /\ lower \subseteq sub[x]
  BY <1>1, <1>3, <1>6, <1>7, <1>4
<1> HIDE DEF s
<1>11. Sorted(u, s)
  <2>1. s[u.root] = D
    <3>1. CASE g = NIL
      BY <3>1, <1>1, <1>2, <1>3, <1>4, <1>10
    <3>2. CASE g # NIL
      <4>1. u.root = t.root /\ t.root # x /\ t.root # y
        BY <3>2, <1>1, <1>2, <1>3, <1>4
      <4> QED BY <4>1, <1>3, <1>4, <1>10
    <3> QED BY <3>1, <3>2
  <2>2. ASSUME NEW k \in D
        PROVE  /\ s[k] = {k} \cup s[L(u, k)] \cup s[R(u, k)]
               /\ \A j \in s[L(u, k)] : j < k
               /\ \A j \in s[R(u, k)] : k < j
    <3>1. CASE k = x
      <4>1. L(u, k) = a /\ R(u, k) = b /\ s[a] = sub[a] /\ s[b] = sub[b]
        BY <3>1, <1>1, <1>2, <1>3, <1>6, <1>8, <1>10
      <4> QED BY <3>1, <4>1, <1>1, <1>3, <1>6, <1>10
    <3>2. CASE k = y
      <4>1. L(u, k) = x /\ R(u, k) = c /\ s[c] = sub[c]
        BY <3>2, <1>1, <1>2, <1>3, <1>6, <1>8, <1>10
      <4> QED BY <3>2, <4>1, <1>1, <1>3, <1>6, <1>7, <1>10
    <3>3. CASE k = g /\ L(t, g) = x
      <4>1. L(u, k) = y /\ R(u, k) = R(t, k) /\ R(t, k) # x /\ R(t, k) # y
        <5>1. k \in D /\ g # NIL /\ L(t, k) = x /\ g # y
          BY <3>3, <1>1, <1>3
        <5>3. R(t, k) # x
          <6>1. x \in sub[x] /\ x < k
            BY <5>1, <3>3, <1>1, <1>6
          <6>2. R(t, k) = x => k < x
            BY <5>1, <6>1, <1>3
          <6> QED BY <6>1, <6>2, <1>3, <5>1
        <5>4. R(t, k) # y
          BY <3>3, <5>1, <1>1, <1>3, <1>4
        <5> QED BY <3>3, <5>1, <5>3, <5>4, <1>2, <1>1
      <4>2. s[R(t, k)] = sub[R(t, k)] /\ s[k] = sub[k]
        <5>1. R(t, k) \in D \cup {NIL} /\ k # x /\ k # y
          BY <3>3, <1>1, <1>4
        <5> QED BY <5>1, <4>1, <1>3, <1>10
      <4> QED BY <3>3, <4>1, <4>2, <1>1, <1>3, <1>10
    <3>4. CASE k = g /\ R(t, g) = x
      <4>1. R(u, k) = y /\ L(u, k) = L(t, k) /\ L(t, k) # x /\ L(t, k) # y
        BY <3>4, <1>1, <1>2, <1>3, <1>4
      <4>2. s[L(t, k)] = sub[L(t, k)] /\ s[k] = sub[k]
        BY <3>4, <4>1, <1>1, <1>3, <1>4, <1>10
      <4> QED BY <3>4, <4>1, <4>2, <1>1, <1>3, <1>10
    <3>5. CASE k # x /\ k # y /\ k # g
      <4>1. L(u, k) = L(t, k) /\ R(u, k) = R(t, k)
        BY <3>5, <1>2
      <4>2. L(t, k) # x /\ R(t, k) # x /\ L(t, k) # y /\ R(t, k) # y
        BY <3>5, <1>1, <1>3, <1>4
      <4>3. s[L(t, k)] = sub[L(t, k)] /\ s[R(t, k)] = sub[R(t, k)] /\ s[k] = sub[k]
        BY <3>5, <4>2, <1>3, <1>4, <1>10
      <4> QED BY <4>1, <4>3, <1>3
    <3>6. k = g => (L(t, g) = x \/ R(t, g) = x)
      BY <1>1, <1>3
    <3> QED BY <3>1, <3>2, <3>3, <3>4, <3>5, <3>6
  <2> QED BY <1>2, <1>10, <2>1, <2>2 DEF Sorted
<1>12. Closed(u, s)
  <2> SUFFICES ASSUME NEW k \in D, NEW j \in s[k]
               PROVE  s[j] \subseteq s[k] /\ (j # k => P(u, j) \in s[k])
    BY <1>2 DEF Closed
  <2>1. j \in D /\ s[j] \subseteq sub[j] \cup sub[x]
    BY <1>1, <1>3, <1>10
  <2>2. CASE k = x
    <3>1. j = x \/ j \in sub[a] \/ j \in sub[b]
      BY <2>2, <1>10
    <3>2. j # x => s[j] = sub[j] /\ j # y
      BY <2>1, <3>1, <1>3, <1>7, <1>10
    <3>3. j # x /\ j \in sub[a] => sub[j] \subseteq sub[a] /\ P(u, j) \in {x} \cup sub[a]
      <4> SUFFICES ASSUME j # x, j \in sub[a]
                   PROVE  sub[j] \subseteq sub[a] /\ P(u, j) \in {x} \cup sub[a]
        OBVIOUS
      <4>1. a \in D /\ sub[j] \subseteq sub[a] /\ (j # a => P(t, j) \in sub[a])
        BY <1>3, <1>5, <1>6
      <4>2. P(t, a) = x
        BY <4>1, <1>3, <1>4
      <4> QED BY <2>1, <3>2, <4>1, <4>2, <1>2
    <3>4. j # x /\ j \in sub[b] => sub[j] \subseteq sub[b] /\ P(u, j) \in {x} \cup sub[b]
      <4> SUFFICES ASSUME j # x, j \in sub[b]
                   PROVE  sub[j] \subseteq sub[b] /\ P(u, j) \in {x} \cup sub[b]
        OBVIOUS
      <4>1. b \in D /\ sub[j] \subseteq sub[b] /\ (j # b => P(t, j) \in sub[b])
        BY <1>1, <1>3, <1>5
      <4> QED BY <2>1, <3>2, <4>1, <1>2
    <3> QED BY <2>2, <3>1, <3>2, <3>3, <3>4, <1>10
  <2>3. CASE k = y
    <3>1. j \in sub[x] /\ s[k] = sub[x]
      BY <2>3, <1>10
    <3>2. s[j] \subseteq sub[x]
      BY <2>1, <3>1, <1>3, <1>5
    <3>3. j # x => P(t, j) \in sub[x]
      BY <3>1, <1>3, <1>5
    <3>4. x \in sub[x] /\ y \in sub[x]
      BY <1>6
    <3> QED BY <2>1, <2>3, <3>1, <3>2, <3>3, <3>4, <1>2
  <2>4. CASE k # x /\ k # y
    <3>1. j \in sub[k] /\ s[k] = sub[k]
      BY <2>4, <1>10
    <3>2. sub[j] \subseteq sub[k] /\ (j # k => P(t, j) \in sub[k])
      BY <3>1, <1>5
    <3>3. y \in sub[k] => x \in sub[k]
      BY <2>4, <1>1, <1>5
    <3>4. CASE j = x
      <4>1. y \in sub[k] /\ P(u, j) = y /\ s[j] \subseteq sub[k]
        BY <3>2, <3>4, <1>2, <1>3, <1>6, <1>10
      <4> QED BY <3>1, <4>1
    <3>5. CASE j = y
      <4>1. x \in sub[k] /\ P(u, j) = g /\ s[j] = sub[x]
        BY <3>1, <3>3, <3>5, <1>1, <1>2, <1>10
      <4>2. sub[x] \subseteq sub[k] /\ g \in sub[k]
        BY <4>1, <2>4, <1>5
      <4> QED BY <3>1, <4>1, <4>2
    <3>6. CASE j # x /\ j # y
      <4>1. s[j] = sub[j] /\ P(u, j) = IF j = b THEN x ELSE P(t, j)
        BY <2>1, <3>6, <1>2, <1>10
      <4>2. j = b /\ j # k => x \in sub[k]
        BY <2>1, <3>2, <3>3, <1>1, <1>3
      <4> QED BY <3>1, <3>2, <4>1, <4>2
    <3> QED BY <3>4, <3>5, <3>6
  <2> QED BY <2>2, <2>3, <2>4
<1>13. IsTree(u, s)
  BY <1>2, <1>9, <1>11, <1>12 DEF IsTree
<1> QED BY <1>13 DEF u

\* The nodes about a node x with a left child are where they should be.
LEMMA LeftChild ==
    ASSUME NEW t, NEW sub, IsTree(t, sub), NEW x \in DOMAIN t.node, L(t, x) # NIL
    PROVE  LET D == DOMAIN t.node
               y == L(t, x)
               b == R(t, y)
               g == P(t, x)
           IN  /\ y \in D /\ y < x /\ P(t, y) = x /\ y # t.root
               /\ b \in D \cup {NIL} /\ b # x /\ b # y /\ (b # NIL => P(t, b) = y)
               /\ g \in D \cup {NIL} /\ g # x /\ g # y /\ (g # NIL => g # b)
               /\ g # NIL => /\ x = R(t, g) <=> x # L(t, g)
                             /\ x = R(t, g) => \A k \in sub[x] : g < k
                             /\ x = L(t, g) => \A k \in sub[x] : k < g
<1> DEFINE D == DOMAIN t.node
           y == L(t, x)
           b == R(t, y)
           g == P(t, x)
<1>1. /\ D \subseteq Nat \ {0}
      /\ sub \in [D \cup {NIL} -> SUBSET D] /\ sub[NIL] = {}
      /\ \A k \in D : /\ sub[k] = {k} \cup sub[R(t, k)] \cup sub[L(t, k)]
                      /\ \A j \in sub[R(t, k)] : k < j
                      /\ \A j \in sub[L(t, k)] : j < k
  BY DEF IsTree, TypedTree, Sorted
<1>2. \A k \in D : /\ R(t, k) \in D \cup {NIL} /\ L(t, k) \in D \cup {NIL}
                   /\ P(t, k) \in D \cup {NIL}
                   /\ R(t, k) # NIL => P(t, R(t, k)) = k
                   /\ L(t, k) # NIL => P(t, L(t, k)) = k
                   /\ P(t, k) = NIL <=> k = t.root
                   /\ P(t, k) # NIL => k \in {R(t, P(t, k)), L(t, P(t, k))}
  BY DEF IsTree, Linked
<1>3. y \in D /\ P(t, y) = x /\ y # t.root
  <2>1. x # NIL
    BY <1>1 DEF NIL
  <2> QED BY <1>2, <2>1
<1>4. b \in D \cup {NIL} /\ (b # NIL => P(t, b) = y) /\ g \in D \cup {NIL}
      /\ (g # NIL => x \in {R(t, g), L(t, g)})
  BY <1>2, <1>3
<1>5. y \in sub[x] /\ x \in sub[x] /\ (b # NIL => b \in sub[x] /\ b \in sub[L(t, x)])
  BY <1>1, <1>3, <1>4
<1>6. y < x /\ (b # NIL => b < x /\ y < b)
  BY <1>1, <1>3, <1>4, <1>5
<1>7. b # x /\ b # y
  BY <1>1, <1>3, <1>6 DEF NIL
<1>8. g # NIL => /\ x = R(t, g) \/ x = L(t, g)
                 /\ x = R(t, g) => \A k \in sub[x] : g < k
                 /\ x = L(t, g) => \A k \in sub[x] : k < g
  BY <1>1, <1>4
<1>9. g # NIL => \A k \in sub[x] : g # k
  BY <1>1, <1>4, <1>8
<1>10. g # x /\ g # y /\ (g # NIL => g # b)
  BY <1>1, <1>3, <1>4, <1>5, <1>9 DEF NIL
<1>11. g # NIL => ~ (x = R(t, g) /\ x = L(t, g))
  <2> SUFFICES ASSUME g # NIL, x = R(t, g), x = L(t, g) PROVE FALSE
    OBVIOUS
  <2>1. g < x /\ x < g
    BY <1>5, <1>8
  <2>2. x \in Nat /\ g \in Nat
    BY <1>1, <1>4
  <2> QED BY <2>1, <2>2
<1> QED BY <1>3, <1>4, <1>6, <1>7, <1>8, <1>10, <1>11

\* The pointers after a right rotation.
LEMMA RightRotateFields ==
    ASSUME NEW t, NEW sub, IsTree(t, sub), NEW x \in DOMAIN t.node, L(t, x) # NIL
    PROVE  LET u == right_rotate(t, x)
               y == L(t, x)
               b == R(t, y)
               g == P(t, x)
           IN  /\ TypedTree(u) /\ DOMAIN u.node = DOMAIN t.node
               /\ u.root = IF g = NIL THEN y ELSE t.root
               /\ \A w \in DOMAIN t.node :
                    /\ R(u, w) = IF w = y THEN x
                                 ELSE IF w = g /\ R(t, g) = x THEN y ELSE R(t, w)
                    /\ L(u, w) = IF w = x THEN b
                                 ELSE IF w = g /\ L(t, g) = x THEN y ELSE L(t, w)
                    /\ P(u, w) = IF w = x THEN y ELSE IF w = y THEN g
                                 ELSE IF w = b THEN x ELSE P(t, w)
<1> DEFINE D == DOMAIN t.node
           y == L(t, x)
           b == R(t, y)
           g == P(t, x)
           t1 == SetL(t, x, b)
           t2 == SetP(t1, b, x)
           t3 == SetP(t2, y, g)
           t4 == Hang(t3, x, y)
           t5 == SetR(t4, y, x)
           t6 == SetP(t5, x, y)
<1>1. /\ y \in D /\ y # x
      /\ b \in D \cup {NIL} /\ b # x /\ b # y
      /\ g \in D \cup {NIL} /\ g # x /\ g # y /\ (g # NIL => g # b)
      /\ g # NIL => (x = R(t, g) <=> x # L(t, g))
      /\ D \subseteq Nat \ {0} /\ TypedTree(t)
  BY LeftChild DEF IsTree, TypedTree
<1>2. x \in Nat /\ y \in Nat /\ b \in Nat /\ g \in Nat /\ NIL \notin D
  BY <1>1 DEF NIL
<1>3. right_rotate(t, x) = t6
  BY DEF right_rotate
<1> HIDE DEF D, y, b, g
<1>4. /\ TypedTree(t1) /\ DOMAIN t1.node = D /\ t1.root = t.root
      /\ \A w \in D : /\ L(t1, w) = IF w = x THEN b ELSE L(t, w)
                      /\ R(t1, w) = R(t, w) /\ P(t1, w) = P(t, w)
  BY <1>1, <1>2, SetLFields DEF D
<1> HIDE DEF t1
<1>5. /\ TypedTree(t2) /\ DOMAIN t2.node = D /\ t2.root = t.root
      /\ \A w \in D : /\ P(t2, w) = IF w = b THEN x ELSE P(t1, w)
                      /\ R(t2, w) = R(t1, w) /\ L(t2, w) = L(t1, w)
  BY <1>1, <1>2, <1>4, SetPFields
<1> HIDE DEF t2
<1>6. /\ TypedTree(t3) /\ DOMAIN t3.node = D /\ t3.root = t.root
      /\ \A w \in D : /\ P(t3, w) = IF w = y THEN g ELSE P(t2, w)
                      /\ R(t3, w) = R(t2, w) /\ L(t3, w) = L(t2, w)
  BY <1>1, <1>2, <1>5, SetPFields
<1> HIDE DEF t3
<1>7. x \in D /\ P(t3, x) = g
      /\ (g # NIL => R(t3, g) = R(t, g) /\ L(t3, g) = L(t, g))
  BY <1>1, <1>4, <1>5, <1>6 DEF D, g
<1>8. /\ TypedTree(t4) /\ DOMAIN t4.node = D
      /\ t4.root = IF g = NIL THEN y ELSE t.root
      /\ \A w \in D : /\ R(t4, w) = IF w = g /\ R(t, g) = x THEN y ELSE R(t3, w)
                      /\ L(t4, w) = IF w = g /\ L(t, g) = x THEN y ELSE L(t3, w)
                      /\ P(t4, w) = P(t3, w)
  <2>1. /\ TypedTree(t4) /\ DOMAIN t4.node = D
        /\ t4.root = IF g = NIL THEN y ELSE t3.root
        /\ \A w \in D :
             /\ R(t4, w) = IF w = g /\ R(t3, g) = x THEN y ELSE R(t3, w)
             /\ L(t4, w) = IF w = g /\ R(t3, g) # x THEN y ELSE L(t3, w)
             /\ P(t4, w) = P(t3, w)
    BY <1>1, <1>2, <1>6, <1>7, HangFields
  <2>2. \A w \in D : w = g => (R(t3, g) = x <=> R(t, g) = x)
                             /\ (R(t3, g) # x <=> L(t, g) = x)
    BY <1>1, <1>2, <1>7
  <2> QED BY <1>6, <2>1, <2>2
<1> HIDE DEF t4
<1>9. /\ TypedTree(t5) /\ DOMAIN t5.node = D /\ t5.root = t4.root
      /\ \A w \in D : /\ R(t5, w) = IF w = y THEN x ELSE R(t4, w)
                      /\ L(t5, w) = L(t4, w) /\ P(t5, w) = P(t4, w)
  BY <1>1, <1>2, <1>8, SetRFields
<1> HIDE DEF t5
<1>10. /\ TypedTree(t6) /\ DOMAIN t6.node = D /\ t6.root = t5.root
       /\ \A w \in D : /\ P(t6, w) = IF w = x THEN y ELSE P(t5, w)
                       /\ R(t6, w) = R(t5, w) /\ L(t6, w) = L(t5, w)
  BY <1>2, <1>7, <1>9, SetPFields
<1> HIDE DEF t6
<1>11. ASSUME NEW w \in D
       PROVE /\ R(t6, w) = IF w = y THEN x
                           ELSE IF w = g /\ R(t, g) = x THEN y ELSE R(t, w)
             /\ L(t6, w) = IF w = x THEN b
                           ELSE IF w = g /\ L(t, g) = x THEN y ELSE L(t, w)
             /\ P(t6, w) = IF w = x THEN y ELSE IF w = y THEN g
                           ELSE IF w = b THEN x ELSE P(t, w)
  <2>1. R(t6, w) = IF w = y THEN x
                   ELSE IF w = g /\ R(t, g) = x THEN y ELSE R(t, w)
    BY <1>2, <1>4, <1>5, <1>6, <1>7, <1>8, <1>9, <1>10
  <2>2. L(t6, w) = IF w = x THEN b
                   ELSE IF w = g /\ L(t, g) = x THEN y ELSE L(t, w)
    BY <1>1, <1>2, <1>4, <1>5, <1>6, <1>7, <1>8, <1>9, <1>10
  <2>3. P(t6, w) = IF w = x THEN y ELSE IF w = y THEN g
                   ELSE IF w = b THEN x ELSE P(t, w)
    BY <1>1, <1>2, <1>4, <1>5, <1>6, <1>8, <1>9, <1>10
  <2> QED BY <2>1, <2>2, <2>3
<1> QED BY <1>3, <1>8, <1>9, <1>10, <1>11 DEF D, y, b, g

\* A right rotation about a node with a left child leaves a search tree.
LEMMA RightRotateKeeps ==
    ASSUME NEW t, NEW sub, IsTree(t, sub), NEW x \in DOMAIN t.node, L(t, x) # NIL
    PROVE  \E s : IsTree(right_rotate(t, x), s)
<1> DEFINE D == DOMAIN t.node
           u == right_rotate(t, x)
           y == L(t, x)
           a == R(t, x)
           b == R(t, y)
           c == L(t, y)
           g == P(t, x)
           upper == {x} \cup sub[a] \cup sub[b]
           s == [w \in D \cup {NIL} |-> IF w = y THEN sub[x]
                                        ELSE IF w = x THEN upper ELSE sub[w]]
<1>1. /\ y \in D /\ y < x /\ P(t, y) = x /\ y # t.root
      /\ b \in D \cup {NIL} /\ b # x /\ b # y /\ (b # NIL => P(t, b) = y)
      /\ g \in D \cup {NIL} /\ g # x /\ g # y /\ (g # NIL => g # b)
      /\ g # NIL => /\ x = R(t, g) <=> x # L(t, g)
                    /\ x = R(t, g) => \A k \in sub[x] : g < k
                    /\ x = L(t, g) => \A k \in sub[x] : k < g
  BY LeftChild
<1>2. /\ TypedTree(u) /\ DOMAIN u.node = D
      /\ u.root = IF g = NIL THEN y ELSE t.root
      /\ \A w \in D :
           /\ R(u, w) = IF w = y THEN x
                        ELSE IF w = g /\ R(t, g) = x THEN y ELSE R(t, w)
           /\ L(u, w) = IF w = x THEN b
                        ELSE IF w = g /\ L(t, g) = x THEN y ELSE L(t, w)
           /\ P(u, w) = IF w = x THEN y ELSE IF w = y THEN g
                        ELSE IF w = b THEN x ELSE P(t, w)
  BY RightRotateFields
<1>3. /\ D \subseteq Nat \ {0} /\ NIL \notin D /\ x \in D
      /\ sub \in [D \cup {NIL} -> SUBSET D] /\ sub[NIL] = {} /\ sub[t.root] = D
      /\ \A k \in D : /\ sub[k] = {k} \cup sub[R(t, k)] \cup sub[L(t, k)]
                      /\ \A j \in sub[R(t, k)] : k < j
                      /\ \A j \in sub[L(t, k)] : j < k
  BY DEF IsTree, TypedTree, Sorted, NIL
<1>4. /\ t.root \in D \cup {NIL}
      /\ \A k \in D : /\ R(t, k) \in D \cup {NIL} /\ L(t, k) \in D \cup {NIL}
                      /\ P(t, k) \in D \cup {NIL}
                      /\ R(t, k) # NIL => P(t, R(t, k)) = k
                      /\ L(t, k) # NIL => P(t, L(t, k)) = k
                      /\ P(t, k) = NIL <=> k = t.root
                      /\ P(t, k) # NIL => k \in {R(t, P(t, k)), L(t, P(t, k))}
  BY DEF IsTree, Linked
<1>5. \A k \in D : \A j \in sub[k] :
        sub[j] \subseteq sub[k] /\ (j # k => P(t, j) \in sub[k])
  BY DEF IsTree, Closed
<1>6. sub[x] = {x} \cup sub[a] \cup sub[y] /\ sub[y] = {y} \cup sub[b] \cup sub[c]
      /\ a \in D \cup {NIL} /\ c \in D \cup {NIL}
  BY <1>1, <1>3, <1>4
<1>7. \A k \in sub[a] \cup sub[b] : k \in D /\ y < k /\ k # x
  BY <1>1, <1>3, <1>4, <1>6
<1>8. a # x /\ a # y /\ c # x /\ c # y
  BY <1>1, <1>3, <1>4, <1>6, <1>7
<1>a. L(t, x) = y /\ R(t, x) = a /\ R(t, y) = b /\ L(t, y) = c /\ P(t, x) = g
  OBVIOUS
<1> HIDE DEF u, D, y, a, b, c, g
<1> USE <1>a
<1>9. Linked(u)
  <2>1. u.root \in D \cup {NIL}
    BY <1>1, <1>2, <1>4
  <2>2. ASSUME NEW k \in D
        PROVE  /\ R(u, k) \in D \cup {NIL} /\ L(u, k) \in D \cup {NIL}
               /\ P(u, k) \in D \cup {NIL}
    BY <1>1, <1>2, <1>3, <1>4
  <2>3. ASSUME NEW k \in D, R(u, k) # NIL PROVE P(u, R(u, k)) = k
    <3>1. CASE k = y
      BY <3>1, <1>1, <1>2, <1>3
    <3>2. CASE k = g /\ R(t, g) = x
      BY <3>2, <1>1, <1>2, <1>3
    <3>3. CASE k # y /\ ~ (k = g /\ R(t, g) = x)
      <4>1. R(u, k) = R(t, k) /\ R(t, k) \in D /\ P(t, R(t, k)) = k
        BY <2>3, <3>3, <1>2, <1>4
      <4>2. R(t, k) # x /\ R(t, k) # y /\ R(t, k) # b
        BY <3>3, <4>1, <1>1, <1>3, <1>8
      <4> QED BY <4>1, <4>2, <1>2
    <3> QED BY <3>1, <3>2, <3>3
  <2>4. ASSUME NEW k \in D, L(u, k) # NIL PROVE P(u, L(u, k)) = k
    <3>1. CASE k = x
      BY <2>4, <3>1, <1>1, <1>2, <1>3
    <3>2. CASE k = g /\ L(t, g) = x
      BY <3>2, <1>1, <1>2, <1>3
    <3>3. CASE k # x /\ ~ (k = g /\ L(t, g) = x)
      <4>1. L(u, k) = L(t, k) /\ L(t, k) \in D /\ P(t, L(t, k)) = k
        BY <2>4, <3>3, <1>2, <1>4
      <4>2. L(t, k) # y
        BY <3>3, <4>1, <1>1
      <4>3. L(t, k) # x
        <5> SUFFICES ASSUME L(t, k) = x PROVE FALSE
          OBVIOUS
        <5>1. k = g /\ g # NIL /\ R(t, g) = x
          BY <3>3, <4>1, <1>3
        <5>2. x \in sub[R(t, g)] /\ x \in sub[L(t, g)]
          BY <5>1, <1>6
        <5>3. g < x /\ x < g
          BY <5>1, <5>2, <1>1, <1>3
        <5>4. x \in Nat /\ g \in Nat
          BY <5>1, <1>1, <1>3
        <5> QED BY <5>3, <5>4
      <4>4. L(t, k) # b
        <5> SUFFICES ASSUME L(t, k) = b PROVE FALSE
          OBVIOUS
        <5>1. k = y
          BY <4>1, <1>1, <1>3
        <5> QED BY <5>1, <4>1, <1>3, <1>1
      <4> QED BY <4>1, <4>2, <4>3, <4>4, <1>2
    <3> QED BY <3>1, <3>2, <3>3
  <2>5. ASSUME NEW k \in D PROVE P(u, k) = NIL <=> k = u.root
    <3>1. g = NIL <=> x = t.root
      BY <1>3, <1>4
    <3>2. CASE k = x \/ k = y
      BY <3>1, <3>2, <1>1, <1>2, <1>3
    <3>3. CASE k # x /\ k # y
      <4>1. P(t, k) = NIL <=> k = t.root
        BY <1>4
      <4>2. k = b => k # t.root
        BY <1>1, <1>3, <1>4
      <4> QED BY <3>1, <3>3, <4>1, <4>2, <1>2, <1>3
    <3> QED BY <3>2, <3>3
  <2>6. ASSUME NEW k \in D, P(u, k) # NIL
        PROVE  k \in {R(u, P(u, k)), L(u, P(u, k))}
    <3>1. CASE k = x
      BY <3>1, <1>1, <1>2
    <3>2. CASE k = y
      <4>1. P(u, k) = g /\ g # NIL
        BY <2>6, <3>2, <1>1, <1>2
      <4> QED BY <3>2, <4>1, <1>1, <1>2
    <3>3. CASE k = b
      BY <3>3, <1>1, <1>2, <1>3
    <3>4. CASE k # x /\ k # y /\ k # b
      <4>1. P(u, k) = P(t, k) /\ P(t, k) \in D /\ k \in {R(t, P(t, k)), L(t, P(t, k))}
        BY <2>6, <3>4, <1>2, <1>4
      <4>2. k = R(t, P(t, k)) => R(u, P(t, k)) = k
        BY <3>4, <4>1, <1>2
      <4>3. k = L(t, P(t, k)) => L(u, P(t, k)) = k
        <5> SUFFICES ASSUME k = L(t, P(t, k)) PROVE L(u, P(t, k)) = k
          OBVIOUS
        <5>1. P(t, k) # x
          BY <3>4
        <5>2. P(t, k) = g => L(t, g) # x
          BY <3>4, <4>1, <1>1, <1>3
        <5> QED BY <4>1, <5>1, <5>2, <1>2
      <4> QED BY <4>1, <4>2, <4>3
    <3> QED BY <3>1, <3>2, <3>3, <3>4
  <2> QED BY <1>2, <2>1, <2>2, <2>3, <2>4, <2>5, <2>6 DEF Linked
<1>10. /\ s \in [D \cup {NIL} -> SUBSET D] /\ s[NIL] = {}
       /\ s[y] = sub[x] /\ s[x] = upper
       /\ \A k \in D : k # x /\ k # y => s[k] = sub[k]
       /\ upper \subseteq sub[x]
  BY <1>1, <1>3, <1>6, <1>7, <1>4
<1> HIDE DEF s
<1>11. Sorted(u, s)
  <2>1. s[u.root] = D
    <3>1. CASE g = NIL
      BY <3>1, <1>1, <1>2, <1>3, <1>4, <1>10
    <3>2. CASE g # NIL
      <4>1. u.root = t.root /\ t.root # x /\ t.root # y
        BY <3>2, <1>1, <1>2, <1>3, <1>4
      <4> QED BY <4>1, <1>3, <1>4, <1>10
    <3> QED BY <3>1, <3>2
  <2>2. ASSUME NEW k \in D
        PROVE  /\ s[k] = {k} \cup s[R(u, k)] \cup s[L(u, k)]
               /\ \A j \in s[R(u, k)] : k < j
               /\ \A j \in s[L(u, k)] : j < k
    <3>1. CASE k = x
      <4>1. R(u, k) = a /\ L(u, k) = b /\ s[a] = sub[a] /\ s[b] = sub[b]
        BY <3>1, <1>1, <1>2, <1>3, <1>6, <1>8, <1>10
      <4> QED BY <3>1, <4>1, <1>1, <1>3, <1>6, <1>10
    <3>2. CASE k = y
      <4>1. R(u, k) = x /\ L(u, k) = c /\ s[c] = sub[c]
        BY <3>2, <1>1, <1>2, <1>3, <1>6, <1>8, <1>10
      <4> QED BY <3>2, <4>1, <1>1, <1>3, <1>6, <1>7, <1>10
    <3>3. CASE k = g /\ R(t, g) = x
      <4>1. R(u, k) = y /\ L(u, k) = L(t, k) /\ L(t, k) # x /\ L(t, k) # y
        <5>1. k \in D /\ g # NIL /\ R(t, k) = x /\ g # y
          BY <3>3, <1>1, <1>3
        <5>3. L(t, k) # x
          <6>1. x \in sub[x] /\ k < x
            BY <5>1, <3>3, <1>1, <1>6
          <6>2. L(t, k) = x => x < k
            BY <5>1, <6>1, <1>3
          <6> QED BY <6>1, <6>2, <1>3, <5>1
        <5>4. L(t, k) # y
          BY <3>3, <5>1, <1>1, <1>3, <1>4
        <5> QED BY <3>3, <5>1, <5>3, <5>4, <1>2, <1>1
      <4>2. s[L(t, k)] = sub[L(t, k)] /\ s[k] = sub[k]
        <5>1. L(t, k) \in D \cup {NIL} /\ k # x /\ k # y
          BY <3>3, <1>1, <1>4
        <5> QED BY <5>1, <4>1, <1>3, <1>10
      <4> QED BY <3>3, <4>1, <4>2, <1>1, <1>3, <1>10
    <3>4. CASE k = g /\ L(t, g) = x
      <4>1. L(u, k) = y /\ R(u, k) = R(t, k) /\ R(t, k) # x /\ R(t, k) # y
        BY <3>4, <1>1, <1>2, <1>3, <1>4
      <4>2. s[R(t, k)] = sub[R(t, k)] /\ s[k] = sub[k]
        BY <3>4, <4>1, <1>1, <1>3, <1>4, <1>10
      <4> QED BY <3>4, <4>1, <4>2, <1>1, <1>3, <1>10
    <3>5. CASE k # x /\ k # y /\ k # g
      <4>1. R(u, k) = R(t, k) /\ L(u, k) = L(t, k)
        BY <3>5, <1>2
      <4>2. R(t, k) # x /\ L(t, k) # x /\ R(t, k) # y /\ L(t, k) # y
        BY <3>5, <1>1, <1>3, <1>4
      <4>3. s[R(t, k)] = sub[R(t, k)] /\ s[L(t, k)] = sub[L(t, k)] /\ s[k] = sub[k]
        BY <3>5, <4>2, <1>3, <1>4, <1>10
      <4> QED BY <4>1, <4>3, <1>3
    <3>6. k = g => (R(t, g) = x \/ L(t, g) = x)
      BY <1>1, <1>3
    <3> QED BY <3>1, <3>2, <3>3, <3>4, <3>5, <3>6
  <2> QED BY <1>2, <1>10, <2>1, <2>2 DEF Sorted
<1>12. Closed(u, s)
  <2> SUFFICES ASSUME NEW k \in D, NEW j \in s[k]
               PROVE  s[j] \subseteq s[k] /\ (j # k => P(u, j) \in s[k])
    BY <1>2 DEF Closed
  <2>1. j \in D /\ s[j] \subseteq sub[j] \cup sub[x]
    BY <1>1, <1>3, <1>10
  <2>2. CASE k = x
    <3>1. j = x \/ j \in sub[a] \/ j \in sub[b]
      BY <2>2, <1>10
    <3>2. j # x => s[j] = sub[j] /\ j # y
      BY <2>1, <3>1, <1>3, <1>7, <1>10
    <3>3. j # x /\ j \in sub[a] => sub[j] \subseteq sub[a] /\ P(u, j) \in {x} \cup sub[a]
      <4> SUFFICES ASSUME j # x, j \in sub[a]
                   PROVE  sub[j] \subseteq sub[a] /\ P(u, j) \in {x} \cup sub[a]
        OBVIOUS
      <4>1. a \in D /\ sub[j] \subseteq sub[a] /\ (j # a => P(t, j) \in sub[a])
        BY <1>3, <1>5, <1>6
      <4>2. P(t, a) = x
        BY <4>1, <1>3, <1>4
      <4> QED BY <2>1, <3>2, <4>1, <4>2, <1>2
    <3>4. j # x /\ j \in sub[b] => sub[j] \subseteq sub[b] /\ P(u, j) \in {x} \cup sub[b]
      <4> SUFFICES ASSUME j # x, j \in sub[b]
                   PROVE  sub[j] \subseteq sub[b] /\ P(u, j) \in {x} \cup sub[b]
        OBVIOUS
      <4>1. b \in D /\ sub[j] \subseteq sub[b] /\ (j # b => P(t, j) \in sub[b])
        BY <1>1, <1>3, <1>5
      <4> QED BY <2>1, <3>2, <4>1, <1>2
    <3> QED BY <2>2, <3>1, <3>2, <3>3, <3>4, <1>10
  <2>3. CASE k = y
    <3>1. j \in sub[x] /\ s[k] = sub[x]
      BY <2>3, <1>10
    <3>2. s[j] \subseteq sub[x]
      BY <2>1, <3>1, <1>3, <1>5
    <3>3. j # x => P(t, j) \in sub[x]
      BY <3>1, <1>3, <1>5
    <3>4. x \in sub[x] /\ y \in sub[x]
      BY <1>6
    <3> QED BY <2>1, <2>3, <3>1, <3>2, <3>3, <3>4, <1>2
  <2>4. CASE k # x /\ k # y
    <3>1. j \in sub[k] /\ s[k] = sub[k]
      BY <2>4, <1>10
    <3>2. sub[j] \subseteq sub[k] /\ (j # k => P(t, j) \in sub[k])
      BY <3>1, <1>5
    <3>3. y \in sub[k] => x \in sub[k]
      BY <2>4, <1>1, <1>5
    <3>4. CASE j = x
      <4>1. y \in sub[k] /\ P(u, j) = y /\ s[j] \subseteq sub[k]
        BY <3>2, <3>4, <1>2, <1>3, <1>6, <1>10
      <4> QED BY <3>1, <4>1
    <3>5. CASE j = y
      <4>1. x \in sub[k] /\ P(u, j) = g /\ s[j] = sub[x]
        BY <3>1, <3>3, <3>5, <1>1, <1>2, <1>10
      <4>2. sub[x] \subseteq sub[k] /\ g \in sub[k]
        BY <4>1, <2>4, <1>5
      <4> QED BY <3>1, <4>1, <4>2
    <3>6. CASE j # x /\ j # y
      <4>1. s[j] = sub[j] /\ P(u, j) = IF j = b THEN x ELSE P(t, j)
        BY <2>1, <3>6, <1>2, <1>10
      <4>2. j = b /\ j # k => x \in sub[k]
        BY <2>1, <3>2, <3>3, <1>1, <1>3
      <4> QED BY <3>1, <3>2, <4>1, <4>2
    <3> QED BY <3>4, <3>5, <3>6
  <2> QED BY <2>2, <2>3, <2>4
<1>13. IsTree(u, s)
  BY <1>2, <1>9, <1>11, <1>12 DEF IsTree
<1> QED BY <1>13 DEF u

\* One round of splay.
LEMMA SplayKeeps ==
    ASSUME NEW t, NEW sub, IsTree(t, sub), NEW x \in DOMAIN t.node, P(t, x) # NIL
    PROVE  /\ DOMAIN splay(t, x).node = DOMAIN t.node
           /\ \E s : IsTree(splay(t, x), s)
<1> DEFINE D == DOMAIN t.node
           f == P(t, x)
           g == P(t, f)
<1>1. /\ f \in D /\ g \in D \cup {NIL} /\ x # NIL /\ f # NIL
      /\ x = L(t, f) \/ x = R(t, f)
      /\ g # NIL => f = L(t, g) \/ f = R(t, g)
  BY DEF IsTree, Linked, TypedTree, NIL
<1>2. L(t, f) = x /\ R(t, f) = x => FALSE
  <2> SUFFICES ASSUME L(t, f) = x, R(t, f) = x PROVE FALSE
    OBVIOUS
  <2>1. x \in sub[x] /\ (\A k \in sub[x] : k < f) /\ (\A k \in sub[x] : f < k)
    BY <1>1 DEF IsTree, Sorted
  <2>2. x \in Nat /\ f \in Nat
    BY <1>1 DEF IsTree, TypedTree
  <2> QED BY <2>1, <2>2
<1>3. g \in D /\ L(t, g) = f /\ R(t, g) = f => FALSE
  <2> SUFFICES ASSUME g \in D, L(t, g) = f, R(t, g) = f PROVE FALSE
    OBVIOUS
  <2>1. f \in sub[f] /\ (\A k \in sub[f] : k < g) /\ (\A k \in sub[f] : g < k)
    BY <1>1 DEF IsTree, Sorted
  <2>2. f \in Nat /\ g \in Nat
    BY <1>1 DEF IsTree, TypedTree
  <2> QED BY <2>1, <2>2
<1>4. CASE g = NIL /\ L(t, f) = x
  <2>1. splay(t, x) = right_rotate(t, f)
    BY <1>4 DEF splay
  <2> QED BY <1>1, <1>4, <2>1, RightRotateFields, RightRotateKeeps
<1>5. CASE g = NIL /\ L(t, f) # x
  <2>1. splay(t, x) = left_rotate(t, f)
    BY <1>5 DEF splay
  <2> QED BY <1>1, <1>5, <2>1, LeftRotateFields, LeftRotateKeeps
<1>6. CASE g # NIL /\ L(t, f) = x /\ L(t, g) = f
  <2> DEFINE u == right_rotate(t, g)
  <2>1. splay(t, x) = right_rotate(u, f)
    BY <1>1, <1>2, <1>3, <1>6 DEF splay
  <2>2. f # g /\ f # P(t, g)
    BY <1>1, <1>6, LeftChild
  <2>3. DOMAIN u.node = D /\ L(u, f) = x
    BY <1>1, <1>6, <2>2, RightRotateFields
  <2>4. PICK s : IsTree(u, s)
    BY <1>1, <1>6, RightRotateKeeps
  <2> HIDE DEF u
  <2> QED BY <1>1, <2>1, <2>3, <2>4, RightRotateFields, RightRotateKeeps
<1>7. CASE g # NIL /\ R(t, f) = x /\ R(t, g) = f
  <2> DEFINE u == left_rotate(t, g)
  <2>1. splay(t, x) = left_rotate(u, f)
    BY <1>1, <1>2, <1>3, <1>7 DEF splay
  <2>2. f # g /\ f # P(t, g)
    BY <1>1, <1>7, RightChild
  <2>3. DOMAIN u.node = D /\ R(u, f) = x
    BY <1>1, <1>7, <2>2, LeftRotateFields
  <2>4. PICK s : IsTree(u, s)
    BY <1>1, <1>7, LeftRotateKeeps
  <2> HIDE DEF u
  <2> QED BY <1>1, <2>1, <2>3, <2>4, LeftRotateFields, LeftRotateKeeps
<1>8. CASE g # NIL /\ L(t, f) = x /\ R(t, g) = f
  <2> DEFINE u == right_rotate(t, f)
  <2>1. splay(t, x) = left_rotate(u, g)
    BY <1>1, <1>2, <1>3, <1>8 DEF splay
  <2>2. x # g
    BY <1>1, <1>8, LeftChild
  <2>3. DOMAIN u.node = D /\ R(u, g) = x
    BY <1>1, <1>8, <2>2, RightRotateFields
  <2>4. PICK s : IsTree(u, s)
    BY <1>1, <1>8, RightRotateKeeps
  <2> HIDE DEF u
  <2> QED BY <1>1, <1>8, <2>1, <2>3, <2>4, LeftRotateFields, LeftRotateKeeps
<1>9. CASE g # NIL /\ R(t, f) = x /\ L(t, g) = f
  <2> DEFINE u == left_rotate(t, f)
  <2>1. splay(t, x) = right_rotate(u, g)
    BY <1>1, <1>2, <1>3, <1>9 DEF splay
  <2>2. x # g
    BY <1>1, <1>9, RightChild
  <2>3. DOMAIN u.node = D /\ L(u, g) = x
    BY <1>1, <1>9, <2>2, LeftRotateFields
  <2>4. PICK s : IsTree(u, s)
    BY <1>1, <1>9, LeftRotateKeeps
  <2> HIDE DEF u
  <2> QED BY <1>1, <1>9, <2>1, <2>3, <2>4, RightRotateFields, RightRotateKeeps
<1> QED BY <1>1, <1>4, <1>5, <1>6, <1>7, <1>8, <1>9

-----------------------------------------------------------------------------
(* Insertion of a leaf. *)

\* The new leaf k of node q, and the pointer to it in q.
LEMMA InsertedFields ==
    ASSUME NEW t, TypedTree(t), NEW k \in Nat \ {0}, k \notin DOMAIN t.node,
           NEW q \in DOMAIN t.node \cup {NIL}
    PROVE  LET D == DOMAIN t.node
               u == Inserted(t, k, q)
           IN  /\ TypedTree(u) /\ DOMAIN u.node = D \cup {k}
               /\ u.root = IF q = NIL THEN k ELSE t.root
               /\ L(u, k) = NIL /\ R(u, k) = NIL /\ P(u, k) = q
               /\ \A w \in D :
                    /\ L(u, w) = IF w = q /\ ~ (q < k) THEN k ELSE L(t, w)
                    /\ R(u, w) = IF w = q /\ q < k THEN k ELSE R(t, w)
                    /\ P(u, w) = P(t, w)
<1> DEFINE D == DOMAIN t.node
           leaf == [left |-> NIL, right |-> NIL, parent |-> q]
           m == [x \in D \cup {k} |-> IF x = k THEN leaf ELSE t.node[x]]
           v == [t EXCEPT !.node = m]
<1>1. D \subseteq Nat \ {0} /\ t.node \in [D -> Node] /\ t.root \in Nat
      /\ t = [root |-> t.root, node |-> t.node]
  BY DEF TypedTree
<1>2. q \in Nat /\ leaf \in Node
  BY <1>1 DEF Node, NIL
<1>3. m \in [D \cup {k} -> Node] /\ DOMAIN m = D \cup {k}
      /\ m[k] = leaf /\ \A w \in D : m[w] = t.node[w]
  BY <1>1, <1>2
<1> HIDE DEF m
<1>4. v = [root |-> t.root, node |-> m]
  BY <1>1
<1> HIDE DEF v
<1>5. TypedTree(v) /\ DOMAIN v.node = D \cup {k} /\ v.root = t.root
  BY <1>1, <1>3, <1>4 DEF TypedTree
<1>6. /\ L(v, k) = NIL /\ R(v, k) = NIL /\ P(v, k) = q
      /\ \A w \in D : L(v, w) = L(t, w) /\ R(v, w) = R(t, w) /\ P(v, w) = P(t, w)
  BY <1>3, <1>4 DEF L, R, P
<1>7. Inserted(t, k, q) = IF q = NIL THEN [v EXCEPT !.root = k]
                          ELSE IF q < k THEN SetR(v, q, k) ELSE SetL(v, q, k)
  BY DEF Inserted, v, m
<1>8. CASE q = NIL
  <2>1. Inserted(t, k, q) = [root |-> k, node |-> m]
    BY <1>4, <1>7, <1>8
  <2>2. \A w \in D : w # q
    BY <1>1, <1>8 DEF NIL
  <2>3. TypedTree([root |-> k, node |-> m])
    BY <1>1, <1>3 DEF TypedTree
  <2> QED BY <1>3, <1>4, <1>6, <1>8, <2>1, <2>2, <2>3 DEF L, R, P
<1>9. CASE q # NIL /\ q < k
  <2>1. q \in DOMAIN v.node /\ q # k /\ Inserted(t, k, q) = SetR(v, q, k)
    BY <1>5, <1>7, <1>9
  <2> QED BY <1>5, <1>6, <1>9, <2>1, SetRFields
<1>10. CASE q # NIL /\ ~ (q < k)
  <2>1. q \in DOMAIN v.node /\ q # k /\ Inserted(t, k, q) = SetL(v, q, k)
    BY <1>5, <1>7, <1>10
  <2> QED BY <1>5, <1>6, <1>10, <2>1, SetLFields
<1> QED BY <1>8, <1>9, <1>10

\* A leaf hung at the end of its search path leaves a search tree.
LEMMA InsertKeeps ==
    ASSUME NEW t, NEW sub, IsTree(t, sub), NEW k \in Nat \ {0},
           k \notin DOMAIN t.node, NEW q \in DOMAIN t.node \cup {NIL},
           q = NIL => DOMAIN t.node = {},
           q # NIL => IF q < k THEN R(t, q) = NIL ELSE L(t, q) = NIL,
           \A w \in DOMAIN t.node : /\ q \in sub[L(t, w)] => k < w
                                    /\ q \in sub[R(t, w)] => w < k
    PROVE  \E s : IsTree(Inserted(t, k, q), s)
<1> DEFINE D == DOMAIN t.node
           u == Inserted(t, k, q)
           s == [w \in D \cup {k, NIL} |-> IF w = k THEN {k}
                                           ELSE IF q \in sub[w] THEN sub[w] \cup {k}
                                           ELSE sub[w]]
<1>1. /\ TypedTree(u) /\ DOMAIN u.node = D \cup {k}
      /\ u.root = IF q = NIL THEN k ELSE t.root
      /\ L(u, k) = NIL /\ R(u, k) = NIL /\ P(u, k) = q
      /\ \A w \in D : /\ L(u, w) = IF w = q /\ ~ (q < k) THEN k ELSE L(t, w)
                      /\ R(u, w) = IF w = q /\ q < k THEN k ELSE R(t, w)
                      /\ P(u, w) = P(t, w)
  BY InsertedFields DEF IsTree
<1>2. /\ D \subseteq Nat \ {0} /\ NIL \notin D /\ k # NIL
      /\ sub \in [D \cup {NIL} -> SUBSET D] /\ sub[NIL] = {} /\ sub[t.root] = D
      /\ \A w \in D : /\ sub[w] = {w} \cup sub[L(t, w)] \cup sub[R(t, w)]
                      /\ \A j \in sub[L(t, w)] : j < w
                      /\ \A j \in sub[R(t, w)] : w < j
  BY DEF IsTree, TypedTree, Sorted, NIL
<1>3. /\ t.root \in D \cup {NIL}
      /\ \A w \in D : /\ L(t, w) \in D \cup {NIL} /\ R(t, w) \in D \cup {NIL}
                      /\ P(t, w) \in D \cup {NIL}
                      /\ L(t, w) # NIL => P(t, L(t, w)) = w
                      /\ R(t, w) # NIL => P(t, R(t, w)) = w
                      /\ P(t, w) = NIL <=> w = t.root
                      /\ P(t, w) # NIL => w \in {L(t, P(t, w)), R(t, P(t, w))}
  BY DEF IsTree, Linked
<1>4. \A w \in D : \A j \in sub[w] :
        sub[j] \subseteq sub[w] /\ (j # w => P(t, j) \in sub[w])
  BY DEF IsTree, Closed
<1>5. q # NIL => /\ q \in D /\ t.root \in D
                 /\ IF q < k THEN R(t, q) = NIL ELSE L(t, q) = NIL
  BY <1>2, <1>3
<1>6. /\ k \notin D /\ (q = NIL => D = {}) /\ q \in D \cup {NIL}
      /\ \A w \in D : (q \in sub[L(t, w)] => k < w) /\ (q \in sub[R(t, w)] => w < k)
  OBVIOUS
<1> HIDE DEF u, D
<1>a. \A w \in D \cup {k} : w \in Nat
  BY <1>2
<1>b. /\ \A w \in D : w # k /\ w # NIL
      /\ q # NIL => (q < k => R(t, q) = NIL) /\ (~ (q < k) => L(t, q) = NIL)
  BY <1>2, <1>5, <1>6
<1>7. Linked(u)
  <2>1. ASSUME NEW w \in D
        PROVE  /\ L(u, w) \in D \cup {k, NIL} /\ R(u, w) \in D \cup {k, NIL}
               /\ L(u, w) # NIL => P(u, L(u, w)) = w
               /\ R(u, w) # NIL => P(u, R(u, w)) = w
    <3>1. /\ L(t, w) \in D \cup {NIL} /\ (L(t, w) # NIL => P(u, L(t, w)) = w)
          /\ R(t, w) \in D \cup {NIL} /\ (R(t, w) # NIL => P(u, R(t, w)) = w)
      BY <1>1, <1>3
    <3>2. L(u, w) = L(t, w) \/ (w = q /\ L(u, w) = k)
      BY <1>1
    <3>3. R(u, w) = R(t, w) \/ (w = q /\ R(u, w) = k)
      BY <1>1
    <3> QED BY <3>1, <3>2, <3>3, <1>1
  <2>2. ASSUME NEW w \in D
        PROVE  /\ P(u, w) \in D \cup {NIL}
               /\ P(u, w) = NIL <=> w = u.root
    <3>1. P(u, w) = P(t, w) /\ q # NIL
      BY <1>1, <1>6
    <3> QED BY <3>1, <1>1, <1>3
  <2>3. ASSUME NEW w \in D, P(u, w) # NIL
        PROVE  w \in {L(u, P(u, w)), R(u, P(u, w))}
    <3>1. P(u, w) = P(t, w) /\ P(t, w) \in D /\ w \in {L(t, P(t, w)), R(t, P(t, w))}
      BY <2>3, <1>1, <1>3
    <3>2. L(t, P(t, w)) = w => L(u, P(t, w)) = w
      BY <3>1, <1>1, <1>b
    <3>3. R(t, P(t, w)) = w => R(u, P(t, w)) = w
      BY <3>1, <1>1, <1>b
    <3> QED BY <3>1, <3>2, <3>3
  <2>4. /\ P(u, k) \in D \cup {NIL}
        /\ P(u, k) = NIL <=> k = u.root
        /\ P(u, k) # NIL => k \in {L(u, P(u, k)), R(u, P(u, k))}
    <3>1. CASE q = NIL
      BY <3>1, <1>1
    <3>2. CASE q # NIL
      <4>1. q \in D /\ t.root # k
        BY <3>2, <1>5, <1>b
      <4> QED BY <3>2, <4>1, <1>1
    <3> QED BY <3>1, <3>2
  <2>5. u.root \in D \cup {k, NIL}
    BY <1>1, <1>3
  <2> QED BY <1>1, <2>1, <2>2, <2>3, <2>4, <2>5 DEF Linked
<1>8. /\ s \in [D \cup {k, NIL} -> SUBSET (D \cup {k})] /\ s[NIL] = {} /\ s[k] = {k}
      /\ \A w \in D : s[w] = IF q \in sub[w] THEN sub[w] \cup {k} ELSE sub[w]
  BY <1>2, <1>6
<1> HIDE DEF s
<1>9. Sorted(u, s)
  <2>1. s[u.root] = D \cup {k}
    BY <1>1, <1>2, <1>5, <1>6, <1>8
  <2>2. ASSUME NEW w \in D
        PROVE  /\ s[w] = {w} \cup s[L(u, w)] \cup s[R(u, w)]
               /\ \A j \in s[L(u, w)] : j < w
               /\ \A j \in s[R(u, w)] : w < j
    <3>1. q # NIL => q \notin sub[L(t, q)] /\ q \notin sub[R(t, q)]
      <4>1. q # NIL => ~ (q < q)
        BY <1>5, <1>a
      <4> QED BY <4>1, <1>2, <1>5
    <3>2. CASE w = q /\ q < k
      <4>1. L(u, w) = L(t, w) /\ R(u, w) = k /\ sub[R(t, w)] = {}
        BY <3>2, <1>1, <1>2, <1>5
      <4>2. s[L(t, w)] = sub[L(t, w)] /\ s[w] = sub[w] \cup {k}
        <5>1. L(t, w) \in D \cup {NIL} /\ q \notin sub[L(t, w)] /\ q \in sub[w]
          BY <3>1, <3>2, <1>2, <1>3, <1>b
        <5> QED BY <5>1, <1>2, <1>8
      <4> QED BY <3>2, <4>1, <4>2, <1>2, <1>8
    <3>3. CASE w = q /\ ~ (q < k)
      <4>1. R(u, w) = R(t, w) /\ L(u, w) = k /\ sub[L(t, w)] = {}
        BY <3>3, <1>1, <1>2, <1>5
      <4>2. s[R(t, w)] = sub[R(t, w)] /\ s[w] = sub[w] \cup {k}
        <5>1. R(t, w) \in D \cup {NIL} /\ q \notin sub[R(t, w)] /\ q \in sub[w]
          BY <3>1, <3>3, <1>2, <1>3, <1>b
        <5> QED BY <5>1, <1>2, <1>8
      <4>3. k < w
        BY <3>3, <1>2, <1>6
      <4> QED BY <3>3, <4>1, <4>2, <4>3, <1>2, <1>8
    <3>4. CASE w # q
      <4>1. L(u, w) = L(t, w) /\ R(u, w) = R(t, w)
        BY <3>4, <1>1
      <4>2. \A v \in {L(t, w), R(t, w)} :
               s[v] = IF q \in sub[v] THEN sub[v] \cup {k} ELSE sub[v]
        <5>1. \A v \in {L(t, w), R(t, w)} : v \in D \/ v = NIL
          BY <1>3
        <5>2. s[NIL] = sub[NIL] /\ q \notin sub[NIL]
          BY <1>2, <1>8
        <5> QED BY <5>1, <5>2, <1>8
      <4>3. q \in sub[w] <=> q \in sub[L(t, w)] \/ q \in sub[R(t, w)]
        BY <3>4, <1>2
      <4>4. (q \in sub[L(t, w)] => k < w) /\ (q \in sub[R(t, w)] => w < k)
        BY <1>6
      <4> QED BY <4>1, <4>2, <4>3, <4>4, <1>2, <1>8
    <3> QED BY <3>2, <3>3, <3>4
  <2> QED BY <1>1, <1>8, <2>1, <2>2 DEF Sorted
<1>10. Closed(u, s)
  <2> SUFFICES ASSUME NEW w \in D \cup {k}, NEW j \in s[w]
               PROVE  s[j] \subseteq s[w] /\ (j # w => P(u, j) \in s[w])
    BY <1>1 DEF Closed
  <2>1. CASE w = k
    BY <2>1, <1>8
  <2>2. CASE w # k /\ j = k
    BY <2>2, <1>1, <1>2, <1>6, <1>8
  <2>3. CASE w # k /\ j # k
    <3>1. w \in D /\ j \in sub[w] /\ j \in D
      BY <2>3, <1>2, <1>8
    <3> QED BY <3>1, <1>1, <1>4, <1>8
  <2> QED BY <2>1, <2>2, <2>3
<1>11. IsTree(u, s)
  BY <1>1, <1>7, <1>9, <1>10 DEF IsTree
<1> QED BY <1>11 DEF u

-----------------------------------------------------------------------------
(* Removal of the root. *)

\* v takes the place of x below the parent of x.
LEMMA ReplaceFields ==
    ASSUME NEW t, TypedTree(t), NEW x \in DOMAIN t.node,
           NEW v \in DOMAIN t.node \cup {NIL}, P(t, x) \in DOMAIN t.node \cup {NIL}
    PROVE  LET u == replace(t, x, v)
               g == P(t, x)
           IN  /\ TypedTree(u) /\ DOMAIN u.node = DOMAIN t.node
               /\ u.root = IF g = NIL THEN v ELSE t.root
               /\ \A w \in DOMAIN t.node :
                    /\ L(u, w) = IF w = g /\ L(t, g) = x THEN v ELSE L(t, w)
                    /\ R(u, w) = IF w = g /\ L(t, g) # x THEN v ELSE R(t, w)
                    /\ P(u, w) = IF w = v THEN g ELSE P(t, w)
<1> DEFINE h == Hang(t, x, v)
           g == P(t, x)
<1>1. v \in Nat /\ g \in Nat
  BY DEF TypedTree, NIL
<1>2. /\ TypedTree(h) /\ DOMAIN h.node = DOMAIN t.node
      /\ h.root = IF g = NIL THEN v ELSE t.root
      /\ \A w \in DOMAIN t.node :
           /\ L(h, w) = IF w = g /\ L(t, g) = x THEN v ELSE L(t, w)
           /\ R(h, w) = IF w = g /\ L(t, g) # x THEN v ELSE R(t, w)
           /\ P(h, w) = P(t, w)
  BY <1>1, HangFields
<1>3. replace(t, x, v) = SetP(h, v, g)
  BY DEF replace
<1> HIDE DEF h
<1> QED BY <1>1, <1>2, <1>3, SetPFields

\* The node x is freed, the pointers in the other nodes stay.
LEMMA FreedFields ==
    ASSUME NEW t, TypedTree(t), NEW x
    PROVE  LET u == Freed(t, x)
           IN  /\ TypedTree(u) /\ DOMAIN u.node = DOMAIN t.node \ {x}
               /\ u.root = t.root
               /\ \A w \in DOMAIN t.node \ {x} :
                    L(u, w) = L(t, w) /\ R(u, w) = R(t, w) /\ P(u, w) = P(t, w)
<1> DEFINE m == [k \in DOMAIN t.node \ {x} |-> t.node[k]]
<1>1. Freed(t, x) = [root |-> t.root, node |-> m]
  BY DEF Freed, TypedTree
<1>2. m \in [DOMAIN t.node \ {x} -> Node] /\ DOMAIN m = DOMAIN t.node \ {x}
      /\ \A w \in DOMAIN t.node \ {x} : m[w] = t.node[w]
  BY DEF TypedTree
<1> HIDE DEF m
<1> QED BY <1>1, <1>2 DEF TypedTree, L, R, P

\* The only child of the root, or the null pointer, takes its place.
LEMMA RemoveOuterKeeps ==
    ASSUME NEW t, NEW sub, IsTree(t, sub), NEW x \in DOMAIN t.node, P(t, x) = NIL,
           NEW v, \/ L(t, x) = NIL /\ v = R(t, x)
                  \/ R(t, x) = NIL /\ v = L(t, x)
    PROVE  LET u == Freed(replace(t, x, v), x)
           IN  DOMAIN u.node = DOMAIN t.node \ {x} /\ \E s : IsTree(u, s)
<1> DEFINE D == DOMAIN t.node
           r == replace(t, x, v)
           u == Freed(r, x)
           s == [w \in (D \ {x}) \cup {NIL} |-> sub[w]]
<1>1. /\ D \subseteq Nat \ {0} /\ NIL \notin D /\ x \in D
      /\ sub \in [D \cup {NIL} -> SUBSET D] /\ sub[NIL] = {} /\ sub[t.root] = D
      /\ \A k \in D : /\ sub[k] = {k} \cup sub[L(t, k)] \cup sub[R(t, k)]
                      /\ \A j \in sub[L(t, k)] : j < k
                      /\ \A j \in sub[R(t, k)] : k < j
  BY DEF IsTree, TypedTree, Sorted, NIL
<1>2. /\ t.root \in D \cup {NIL}
      /\ \A k \in D : /\ L(t, k) \in D \cup {NIL} /\ R(t, k) \in D \cup {NIL}
                      /\ P(t, k) \in D \cup {NIL}
                      /\ L(t, k) # NIL => P(t, L(t, k)) = k
                      /\ R(t, k) # NIL => P(t, R(t, k)) = k
                      /\ P(t, k) = NIL <=> k = t.root
                      /\ P(t, k) # NIL => k \in {L(t, P(t, k)), R(t, P(t, k))}
  BY DEF IsTree, Linked
<1>3. \A k \in D : \A j \in sub[k] :
        sub[j] \subseteq sub[k] /\ (j # k => P(t, j) \in sub[k])
  BY DEF IsTree, Closed
<1>4. v \in D \cup {NIL} /\ t.root = x /\ (v # NIL => P(t, v) = x)
  BY <1>2
<1>5. /\ TypedTree(r) /\ DOMAIN r.node = D /\ r.root = v
      /\ \A w \in D : /\ L(r, w) = L(t, w) /\ R(r, w) = R(t, w)
                      /\ P(r, w) = IF w = v THEN NIL ELSE P(t, w)
  BY <1>1, <1>4, ReplaceFields DEF IsTree
<1> HIDE DEF r
<1>6. /\ TypedTree(u) /\ DOMAIN u.node = D \ {x} /\ u.root = v
      /\ \A w \in D \ {x} : /\ L(u, w) = L(t, w) /\ R(u, w) = R(t, w)
                            /\ P(u, w) = IF w = v THEN NIL ELSE P(t, w)
  BY <1>5, FreedFields
<1>7. x \notin sub[v] /\ sub[v] = D \ {x}
  <2>1. ~ (x < x)
    BY <1>1
  <2>2. sub[x] = {x} \cup sub[v] /\ (\A j \in sub[v] : j < x \/ x < j)
    BY <1>1
  <2> QED BY <2>1, <2>2, <1>1, <1>4
<1>8. \A w \in D \ {x} : x \notin sub[w] /\ sub[w] \subseteq D \ {x}
  BY <1>1, <1>3
<1>9. v # x /\ \A w \in D \ {x} : w \in {L(t, x), R(t, x)} => w = v
  BY <1>1, <1>4, <1>7
<1> HIDE DEF u, D
<1>10. Linked(u)
  <2>1. ASSUME NEW w \in D \ {x}
        PROVE  /\ L(u, w) \in (D \ {x}) \cup {NIL} /\ R(u, w) \in (D \ {x}) \cup {NIL}
               /\ L(u, w) # NIL => P(u, L(u, w)) = w
               /\ R(u, w) # NIL => P(u, R(u, w)) = w
    <3>1. L(t, w) # NIL => L(t, w) \in D \ {x} /\ P(t, L(t, w)) = w /\ L(t, w) # v
      BY <1>1, <1>2, <1>4
    <3>2. R(t, w) # NIL => R(t, w) \in D \ {x} /\ P(t, R(t, w)) = w /\ R(t, w) # v
      BY <1>1, <1>2, <1>4
    <3> QED BY <3>1, <3>2, <1>6
  <2>2. ASSUME NEW w \in D \ {x}
        PROVE  /\ P(u, w) \in (D \ {x}) \cup {NIL}
               /\ P(u, w) = NIL <=> w = u.root
               /\ P(u, w) # NIL => w \in {L(u, P(u, w)), R(u, P(u, w))}
    <3>1. CASE w = v
      BY <3>1, <1>6
    <3>2. CASE w # v
      <4>1. /\ P(t, w) \in D /\ P(t, w) # x
            /\ w \in {L(t, P(t, w)), R(t, P(t, w))}
        BY <3>2, <1>1, <1>2, <1>4, <1>9
      <4> QED BY <3>2, <4>1, <1>1, <1>6
    <3> QED BY <3>1, <3>2
  <2> QED BY <2>1, <2>2, <1>4, <1>6, <1>9 DEF Linked
<1>11. /\ s \in [(D \ {x}) \cup {NIL} -> SUBSET (D \ {x})] /\ s[NIL] = {}
       /\ \A w \in D \ {x} : s[w] = sub[w]
  BY <1>1, <1>8
<1> HIDE DEF s
<1>12. Sorted(u, s)
  <2>1. s[u.root] = D \ {x}
    BY <1>1, <1>4, <1>6, <1>7, <1>9, <1>11
  <2>2. ASSUME NEW w \in D \ {x}
        PROVE  /\ s[w] = {w} \cup s[L(u, w)] \cup s[R(u, w)]
               /\ \A j \in s[L(u, w)] : j < w
               /\ \A j \in s[R(u, w)] : w < j
    <3>1. s[L(t, w)] = sub[L(t, w)] /\ s[R(t, w)] = sub[R(t, w)]
      <4>1. L(t, w) \in (D \ {x}) \cup {NIL} /\ R(t, w) \in (D \ {x}) \cup {NIL}
        BY <1>1, <1>2, <1>4
      <4> QED BY <4>1, <1>1, <1>11
    <3> QED BY <3>1, <1>1, <1>6, <1>11
  <2> QED BY <2>1, <2>2, <1>6, <1>11 DEF Sorted
<1>13. Closed(u, s)
  <2> SUFFICES ASSUME NEW w \in D \ {x}, NEW j \in s[w]
               PROVE  s[j] \subseteq s[w] /\ (j # w => P(u, j) \in s[w])
    BY <1>6 DEF Closed
  <2>1. j \in D \ {x} /\ s[j] = sub[j] /\ s[w] = sub[w]
    BY <1>11
  <2>2. j # w => j # v
    BY <2>1, <1>1, <1>3, <1>4, <1>8
  <2> QED BY <2>1, <2>2, <1>3, <1>6
<1>14. IsTree(u, s)
  BY <1>6, <1>10, <1>12, <1>13 DEF IsTree
<1> QED BY <1>6, <1>14 DEF u, r, D

\* Where y, the node the minimum is sought at, and its neighbours are.
LEMMA Successor ==
    ASSUME NEW t, NEW sub, IsTree(t, sub), NEW x \in DOMAIN t.node, P(t, x) = NIL,
           L(t, x) # NIL, R(t, x) # NIL,
           NEW y \in sub[R(t, x)], L(t, y) = NIL,
           \A k \in sub[R(t, x)] : k \in sub[y] \/ y < k
    PROVE  LET D == DOMAIN t.node
               a == L(t, x)
               r == R(t, x)
               c == R(t, y)
               g == P(t, y)
           IN  /\ a \in D /\ r \in D /\ y \in D /\ c \in D \cup {NIL} /\ g \in D
               /\ P(t, a) = x /\ P(t, r) = x /\ (c # NIL => P(t, c) = y)
               /\ x < y /\ t.root = x /\ a # r
               /\ x \notin {a, r, c, y} /\ y \notin {a, c, g} /\ (a # c /\ c # g)
               /\ g = x <=> y = r
               /\ g # x => c # r /\ g \in sub[r] /\ L(t, g) = y /\ R(t, g) # y
               /\ sub[y] = {y} \cup sub[c]
               /\ y \notin sub[c] /\ y \notin sub[a]
               /\ \A k \in sub[r] : k # y => y < k
               /\ \A w \in D \ {x} : x \notin sub[w]
<1> DEFINE D == DOMAIN t.node
           a == L(t, x)
           r == R(t, x)
           c == R(t, y)
           g == P(t, y)
<1>1. /\ D \subseteq Nat \ {0} /\ NIL \notin D /\ x \in D
      /\ sub \in [D \cup {NIL} -> SUBSET D] /\ sub[NIL] = {} /\ sub[t.root] = D
      /\ \A k \in D : /\ sub[k] = {k} \cup sub[L(t, k)] \cup sub[R(t, k)]
                      /\ \A j \in sub[L(t, k)] : j < k
                      /\ \A j \in sub[R(t, k)] : k < j
  BY DEF IsTree, TypedTree, Sorted, NIL
<1>2. /\ t.root \in D \cup {NIL}
      /\ \A k \in D : /\ L(t, k) \in D \cup {NIL} /\ R(t, k) \in D \cup {NIL}
                      /\ P(t, k) \in D \cup {NIL}
                      /\ L(t, k) # NIL => P(t, L(t, k)) = k
                      /\ R(t, k) # NIL => P(t, R(t, k)) = k
                      /\ P(t, k) = NIL <=> k = t.root
                      /\ P(t, k) # NIL => k \in {L(t, P(t, k)), R(t, P(t, k))}
  BY DEF IsTree, Linked
<1>3. \A k \in D : \A j \in sub[k] :
        sub[j] \subseteq sub[k] /\ (j # k => P(t, j) \in sub[k])
  BY DEF IsTree, Closed
<1>4. \A i, j \in D : (i < j => ~ (j < i)) /\ ~ (i < i)
  BY <1>1
<1>5. /\ a \in D /\ r \in D /\ y \in D /\ c \in D \cup {NIL} /\ g \in D \cup {NIL}
      /\ P(t, a) = x /\ P(t, r) = x /\ (c # NIL => P(t, c) = y) /\ t.root = x
      /\ y \in sub[r]
      /\ \A k \in sub[r] : k \in sub[y] \/ y < k
  BY <1>1, <1>2
<1>6. /\ sub[x] = {x} \cup sub[a] \cup sub[r] /\ sub[y] = {y} \cup sub[c]
      /\ a \in sub[a] /\ r \in sub[r] /\ (c # NIL => c \in sub[c])
      /\ (\A k \in sub[a] : k < x) /\ (\A k \in sub[r] : x < k)
      /\ (\A k \in sub[c] : y < k)
  <2>1. /\ sub[x] = {x} \cup sub[a] \cup sub[r]
        /\ (\A k \in sub[a] : k < x) /\ (\A k \in sub[r] : x < k)
    BY <1>1
  <2>2. sub[y] = {y} \cup sub[c] /\ (\A k \in sub[c] : y < k)
    BY <1>1, <1>5
  <2>3. ASSUME NEW k \in D PROVE k \in sub[k]
    <3>1. sub[k] = {k} \cup sub[L(t, k)] \cup sub[R(t, k)]
      BY <1>1
    <3> QED BY <3>1
  <2> QED BY <2>1, <2>2, <2>3, <1>5
<1>a. /\ L(t, x) = a /\ R(t, x) = r /\ R(t, y) = c /\ P(t, y) = g
      /\ P(t, x) = NIL /\ L(t, y) = NIL
  OBVIOUS
<1> HIDE DEF D, a, r, c, g
<1> USE <1>a
<1>7. x < y /\ x # y /\ x # a /\ x # r /\ x # c /\ y # c /\ y # a /\ a # r
      /\ y \notin sub[c] /\ y \notin sub[a]
  <2>1. x < y /\ x \notin sub[a] /\ x \notin sub[r] /\ y \notin sub[c] /\ y \notin sub[a]
    <3>1. x < y /\ ~ (x < x) /\ ~ (y < y) /\ ~ (y < x)
      BY <1>1, <1>4, <1>5, <1>6
    <3> QED BY <3>1, <1>6
  <2>2. sub[c] \subseteq sub[r] /\ a \notin sub[r]
    <3>1. a < x /\ ~ (x < a)
      BY <1>1, <1>4, <1>5, <1>6
    <3>2. sub[y] \subseteq sub[r]
      BY <1>3, <1>5
    <3> QED BY <3>1, <3>2, <1>6
  <2> QED BY <2>1, <2>2, <1>1, <1>5, <1>6
<1>8. ASSUME NEW w \in D \ {x} PROVE x \notin sub[w]
  <2>1. sub[w] \subseteq D /\ (x \in sub[w] => P(t, x) \in sub[w])
    BY <1>1, <1>3
  <2> QED BY <2>1, <1>1
<1>9. g \in D /\ g # y /\ a # c /\ c # g
  <2>1. g \in D
    BY <1>2, <1>5, <1>7
  <2>2. g # y
    <3> SUFFICES ASSUME g = y PROVE FALSE
      OBVIOUS
    <3>1. y = c
      BY <2>1, <1>1, <1>2, <1>5
    <3> QED BY <3>1, <1>7
  <2>3. a # c
    BY <1>1, <1>5, <1>7
  <2>4. c # g
    <3> SUFFICES ASSUME c = g PROVE FALSE
      OBVIOUS
    <3>1. P(t, c) = y /\ c \in sub[c] /\ y \in sub[c]
      <4>1. y = L(t, g) \/ y = R(t, g)
        BY <2>1, <1>1, <1>2, <1>5
      <4>2. y \in sub[L(t, g)] \/ y \in sub[R(t, g)]
        BY <4>1, <1>5, <1>6
      <4> QED BY <4>2, <2>1, <1>1, <1>5, <1>6
    <3> QED BY <3>1, <1>7
  <2> QED BY <2>1, <2>2, <2>3, <2>4
<1>10. g = x <=> y = r
  <2>1. g = x => y = r
    <3> SUFFICES ASSUME g = x PROVE y = r
      OBVIOUS
    <3>1. y = a \/ y = r
      BY <1>1, <1>2, <1>5
    <3> QED BY <3>1, <1>7
  <2> QED BY <2>1, <1>5
<1>11. ASSUME g # x PROVE c # r /\ g \in sub[r] /\ L(t, g) = y /\ R(t, g) # y
  <2>1. y # r /\ g \in sub[r]
    BY <1>11, <1>3, <1>5, <1>10
  <2>2. c # r
    BY <1>1, <1>5, <1>7
  <2>3. R(t, g) # y
    <3> SUFFICES ASSUME R(t, g) = y PROVE FALSE
      OBVIOUS
    <3>1. y \in sub[y] /\ g < y
      BY <1>1, <1>6, <1>9
    <3>2. g \in sub[y] \/ y < g
      BY <2>1, <1>5
    <3>3. g \in sub[y] => y < g
      BY <1>6, <1>9
    <3> QED BY <3>1, <3>2, <3>3, <1>4, <1>5, <1>9
  <2>4. y = L(t, g) \/ y = R(t, g)
    BY <1>1, <1>2, <1>5, <1>9
  <2> QED BY <2>1, <2>2, <2>3, <2>4
<1>12. \A k \in sub[r] : k # y => y < k
  BY <1>5, <1>6
<1> QED BY <1>5, <1>6, <1>7, <1>8, <1>9, <1>10, <1>11, <1>12 DEF D, a, r, c, g

\* The pointers once y has taken the place of the root x, which is still there.
LEMMA JoinFields ==
    ASSUME NEW t, NEW sub, IsTree(t, sub), NEW x \in DOMAIN t.node, P(t, x) = NIL,
           L(t, x) # NIL, R(t, x) # NIL,
           NEW y \in sub[R(t, x)], L(t, y) = NIL,
           \A k \in sub[R(t, x)] : k \in sub[y] \/ y < k
    PROVE  LET D == DOMAIN t.node
               u == Join(t, x, y)
               a == L(t, x)
               r == R(t, x)
               c == R(t, y)
               g == P(t, y)
           IN  /\ TypedTree(u) /\ DOMAIN u.node = D /\ u.root = y
               /\ \A w \in D \ {x} :
                    /\ L(u, w) = IF w = y THEN a
                                 ELSE IF w = g THEN c ELSE L(t, w)
                    /\ R(u, w) = IF w = y /\ g # x THEN r ELSE R(t, w)
                    /\ P(u, w) = IF w = y THEN NIL
                                 ELSE IF w \in {a, r} THEN y
                                 ELSE IF w = c /\ g # x THEN g ELSE P(t, w)
<1> DEFINE D == DOMAIN t.node
           a == L(t, x)
           r == R(t, x)
           c == R(t, y)
           g == P(t, y)
           t1 == replace(t, y, c)
           t2 == SetR(t1, y, r)
           t3 == SetP(t2, R(t2, y), y)
           u  == IF g = x THEN t ELSE t3
           v1 == replace(u, x, y)
           v2 == SetL(v1, y, L(u, x))
           v3 == SetP(v2, L(v2, y), y)
<1>1. /\ a \in D /\ r \in D /\ y \in D /\ c \in D \cup {NIL} /\ g \in D
      /\ t.root = x /\ a # r
      /\ x \notin {a, r, c, y} /\ y \notin {a, c, g} /\ (a # c /\ c # g)
      /\ g = x <=> y = r
      /\ g # x => c # r /\ g \in sub[r] /\ L(t, g) = y /\ R(t, g) # y
  BY Successor
<1>2. /\ TypedTree(t) /\ D \subseteq Nat /\ NIL \notin D /\ D \cup {NIL} \subseteq Nat
      /\ \A w \in D : P(t, w) \in D \cup {NIL}
  BY DEF IsTree, TypedTree, Linked, NIL
<1>3. Join(t, x, y) = v3
  BY DEF Join
<1>a. /\ L(t, x) = a /\ R(t, x) = r /\ R(t, y) = c /\ P(t, y) = g
      /\ P(t, x) = NIL /\ L(t, y) = NIL /\ x \in D
  OBVIOUS
<1>b. DOMAIN t.node = D
  OBVIOUS
<1> HIDE DEF D, a, r, c, g
<1> USE <1>a
<1>4. ASSUME g # x
      PROVE /\ TypedTree(t3) /\ DOMAIN t3.node = D /\ t3.root = t.root
            /\ \A w \in D : /\ L(t3, w) = IF w = g THEN c ELSE L(t, w)
                            /\ R(t3, w) = IF w = y THEN r ELSE R(t, w)
                            /\ P(t3, w) = IF w = r THEN y
                                          ELSE IF w = c THEN g ELSE P(t, w)
  <2>1. /\ TypedTree(t1) /\ DOMAIN t1.node = D /\ t1.root = t.root
        /\ \A w \in D : /\ L(t1, w) = IF w = g THEN c ELSE L(t, w)
                        /\ R(t1, w) = R(t, w)
                        /\ P(t1, w) = IF w = c THEN g ELSE P(t, w)
    <3>1. g # NIL /\ L(t, g) = y
      BY <1>1, <1>2, <1>4
    <3> HIDE DEF t1
    <3> QED BY <3>1, <1>1, <1>2, <1>b, ReplaceFields DEF t1
  <2> HIDE DEF t1
  <2>2. /\ TypedTree(t2) /\ DOMAIN t2.node = D /\ t2.root = t.root
        /\ \A w \in D : /\ L(t2, w) = L(t1, w) /\ P(t2, w) = P(t1, w)
                        /\ R(t2, w) = IF w = y THEN r ELSE R(t1, w)
    BY <2>1, <1>1, <1>2, SetRFields
  <2> HIDE DEF t2
  <2>3. /\ TypedTree(t3) /\ DOMAIN t3.node = D /\ t3.root = t.root
        /\ \A w \in D : /\ L(t3, w) = L(t2, w) /\ R(t3, w) = R(t2, w)
                        /\ P(t3, w) = IF w = r THEN y ELSE P(t2, w)
    <3>1. R(t2, y) = r /\ y \in Nat
      BY <2>2, <1>1, <1>2
    <3> QED BY <3>1, <2>2, <1>1, <1>2, SetPFields
  <2> HIDE DEF t3
  <2> QED BY <2>1, <2>2, <2>3
<1> HIDE DEF t3
<1>5. /\ TypedTree(u) /\ DOMAIN u.node = D /\ u.root = t.root
      /\ \A w \in D :
           /\ L(u, w) = IF w = g /\ g # x THEN c ELSE L(t, w)
           /\ R(u, w) = IF w = y /\ g # x THEN r ELSE R(t, w)
           /\ P(u, w) = IF w = r /\ g # x THEN y
                        ELSE IF w = c /\ g # x THEN g ELSE P(t, w)
  <2>1. CASE g = x
    BY <2>1, <1>2, <1>b
  <2>2. CASE g # x
    BY <2>2, <1>4
  <2> QED BY <2>1, <2>2
<1>6. L(u, x) = a /\ P(u, x) = NIL
  BY <1>1, <1>5
<1> HIDE DEF u
<1>7. /\ TypedTree(v1) /\ DOMAIN v1.node = D /\ v1.root = y
      /\ \A w \in D : /\ L(v1, w) = L(u, w) /\ R(v1, w) = R(u, w)
                      /\ P(v1, w) = IF w = y THEN NIL ELSE P(u, w)
  <2>1. \A w \in D : w # NIL
    BY <1>2
  <2> QED BY <2>1, <1>1, <1>5, <1>6, ReplaceFields
<1> HIDE DEF v1
<1>8. /\ TypedTree(v2) /\ DOMAIN v2.node = D /\ v2.root = y
      /\ \A w \in D : /\ L(v2, w) = IF w = y THEN a ELSE L(v1, w)
                      /\ R(v2, w) = R(v1, w) /\ P(v2, w) = P(v1, w)
  BY <1>1, <1>2, <1>6, <1>7, SetLFields
<1> HIDE DEF v2
<1>9. /\ TypedTree(v3) /\ DOMAIN v3.node = D /\ v3.root = y
      /\ \A w \in D : /\ L(v3, w) = L(v2, w) /\ R(v3, w) = R(v2, w)
                      /\ P(v3, w) = IF w = a THEN y ELSE P(v2, w)
  <2>1. L(v2, y) = a /\ y \in Nat
    BY <1>1, <1>2, <1>8
  <2> QED BY <2>1, <1>1, <1>8, SetPFields
<1> HIDE DEF v3
<1>10. ASSUME NEW w \in D \ {x}
       PROVE /\ L(v3, w) = IF w = y THEN a ELSE IF w = g THEN c ELSE L(t, w)
             /\ R(v3, w) = IF w = y /\ g # x THEN r ELSE R(t, w)
             /\ P(v3, w) = IF w = y THEN NIL
                           ELSE IF w \in {a, r} THEN y
                           ELSE IF w = c /\ g # x THEN g ELSE P(t, w)
  <2>1. L(v3, w) = IF w = y THEN a ELSE IF w = g THEN c ELSE L(t, w)
    BY <1>5, <1>7, <1>8, <1>9
  <2>2. R(v3, w) = IF w = y /\ g # x THEN r ELSE R(t, w)
    BY <1>5, <1>7, <1>8, <1>9
  <2>3. P(v3, w) = IF w = a THEN y ELSE IF w = y THEN NIL
                   ELSE IF w = r /\ g # x THEN y
                   ELSE IF w = c /\ g # x THEN g ELSE P(t, w)
    BY <1>5, <1>7, <1>8, <1>9
  <2>4. y # a /\ (g = x <=> y = r)
    BY <1>1
  <2> QED BY <2>1, <2>2, <2>3, <2>4
<1> QED BY <1>3, <1>9, <1>10 DEF D, a, r, c, g

\* The root x is freed once its successor y has taken its place.
LEMMA JoinKeeps ==
    ASSUME NEW t, NEW sub, IsTree(t, sub), NEW x \in DOMAIN t.node, P(t, x) = NIL,
           L(t, x) # NIL, R(t, x) # NIL,
           NEW y \in sub[R(t, x)], L(t, y) = NIL,
           \A k \in sub[R(t, x)] : k \in sub[y] \/ y < k
    PROVE  LET u == Freed(Join(t, x, y), x)
           IN  DOMAIN u.node = DOMAIN t.node \ {x} /\ \E s : IsTree(u, s)
<1> DEFINE D == DOMAIN t.node
           E == D \ {x}
           j0 == Join(t, x, y)
           u == Freed(j0, x)
           a == L(t, x)
           r == R(t, x)
           c == R(t, y)
           g == P(t, y)
           s == [w \in E \cup {NIL} |-> IF w = y THEN E ELSE sub[w] \ {y}]
<1>1. /\ a \in D /\ r \in D /\ y \in D /\ c \in D \cup {NIL} /\ g \in D
      /\ P(t, a) = x /\ P(t, r) = x /\ (c # NIL => P(t, c) = y)
      /\ x < y /\ t.root = x /\ a # r
      /\ x \notin {a, r, c, y} /\ y \notin {a, c, g} /\ (a # c /\ c # g)
      /\ g = x <=> y = r
      /\ g # x => c # r /\ g \in sub[r] /\ L(t, g) = y /\ R(t, g) # y
      /\ sub[y] = {y} \cup sub[c]
      /\ y \notin sub[c] /\ y \notin sub[a]
      /\ \A k \in sub[r] : k # y => y < k
      /\ \A w \in D \ {x} : x \notin sub[w]
  BY Successor
<1>2. /\ D \subseteq Nat \ {0} /\ NIL \notin D /\ x \in D
      /\ sub \in [D \cup {NIL} -> SUBSET D] /\ sub[NIL] = {} /\ sub[t.root] = D
      /\ \A k \in D : /\ sub[k] = {k} \cup sub[L(t, k)] \cup sub[R(t, k)]
                      /\ \A j \in sub[L(t, k)] : j < k
                      /\ \A j \in sub[R(t, k)] : k < j
  BY DEF IsTree, TypedTree, Sorted, NIL
<1>3. \A k \in D : /\ L(t, k) \in D \cup {NIL} /\ R(t, k) \in D \cup {NIL}
                   /\ P(t, k) \in D \cup {NIL}
                   /\ L(t, k) # NIL => P(t, L(t, k)) = k
                   /\ R(t, k) # NIL => P(t, R(t, k)) = k
                   /\ P(t, k) = NIL <=> k = t.root
                   /\ P(t, k) # NIL => k \in {L(t, P(t, k)), R(t, P(t, k))}
  BY DEF IsTree, Linked
<1>4. \A k \in D : \A j \in sub[k] :
        sub[j] \subseteq sub[k] /\ (j # k => P(t, j) \in sub[k])
  BY DEF IsTree, Closed
<1>5. /\ TypedTree(u) /\ DOMAIN u.node = E /\ u.root = y
      /\ \A w \in E : /\ L(u, w) = IF w = y THEN a
                                   ELSE IF w = g THEN c ELSE L(t, w)
                      /\ R(u, w) = IF w = y /\ g # x THEN r ELSE R(t, w)
                      /\ P(u, w) = IF w = y THEN NIL
                                   ELSE IF w \in {a, r} THEN y
                                   ELSE IF w = c /\ g # x THEN g ELSE P(t, w)
  <2>1. /\ TypedTree(j0) /\ DOMAIN j0.node = D /\ j0.root = y
        /\ \A w \in E : /\ L(j0, w) = IF w = y THEN a
                                      ELSE IF w = g THEN c ELSE L(t, w)
                        /\ R(j0, w) = IF w = y /\ g # x THEN r ELSE R(t, w)
                        /\ P(j0, w) = IF w = y THEN NIL
                                      ELSE IF w \in {a, r} THEN y
                                      ELSE IF w = c /\ g # x THEN g ELSE P(t, w)
    BY JoinFields
  <2> HIDE DEF j0
  <2> QED BY <2>1, FreedFields
<1>a. /\ L(t, x) = a /\ R(t, x) = r /\ R(t, y) = c /\ P(t, y) = g
      /\ P(t, x) = NIL /\ L(t, y) = NIL /\ x \in D
  OBVIOUS
<1>b. \A w \in D : w \in E <=> w # x
  OBVIOUS
<1>c. E = D \ {x}
  OBVIOUS
<1> HIDE DEF D, E, u, a, r, c, g
<1> USE <1>a
<1>6. ASSUME NEW w \in E
      PROVE  /\ w \in D /\ w # x /\ w # NIL
             /\ L(t, w) # x /\ R(t, w) # x
             /\ P(t, w) # NIL
             /\ P(t, w) = x => w \in {a, r}
             /\ P(t, w) = y => w = c
             /\ L(t, w) = y => w = g /\ g # x
             /\ R(t, w) = y => FALSE
  <2>1. w \in D /\ w # x /\ w # NIL
    BY <1>2, <1>c
  <2>2. L(t, w) # x /\ R(t, w) # x /\ P(t, w) # NIL
    BY <2>1, <1>1, <1>2, <1>3
  <2>3. (P(t, w) = x => w \in {a, r}) /\ (P(t, w) = y => w = c)
    BY <2>1, <2>2, <1>1, <1>2, <1>3
  <2>4. (L(t, w) = y => w = g /\ g # x) /\ (R(t, w) = y => FALSE)
    BY <2>1, <1>1, <1>2, <1>3
  <2> QED BY <2>1, <2>2, <2>3, <2>4
<1>7. Linked(u)
  <2>1. ASSUME NEW w \in E
        PROVE  /\ L(u, w) \in E \cup {NIL}
               /\ L(u, w) # NIL => P(u, L(u, w)) = w
    <3>1. CASE w = y
      <4>1. L(u, w) = a /\ a \in E /\ a # y
        BY <3>1, <1>1, <1>5, <1>b
      <4> QED BY <3>1, <4>1, <1>5
    <3>2. CASE w # y /\ w = g
      <4>1. L(u, w) = c /\ w # x
        BY <3>2, <1>5, <1>6
      <4>2. c # NIL => c \in E /\ c # y /\ c # a /\ c # r
        BY <3>2, <4>1, <1>1, <1>b
      <4> QED BY <3>2, <4>1, <4>2, <1>1, <1>5
    <3>3. CASE w # y /\ w # g
      <4>1. L(u, w) = L(t, w) /\ L(t, w) \in D \cup {NIL} /\ L(t, w) # x /\ w # x
        BY <3>3, <1>3, <1>5, <1>6
      <4>2. L(t, w) # NIL => P(t, L(t, w)) = w /\ L(t, w) \in E
        BY <4>1, <1>3, <1>6, <1>b
      <4>3. L(t, w) # NIL => L(t, w) # y /\ L(t, w) \notin {a, r} /\ L(t, w) # c
        BY <3>3, <4>1, <4>2, <1>1
      <4> QED BY <4>1, <4>2, <4>3, <1>5
    <3> QED BY <3>1, <3>2, <3>3
  <2>2. ASSUME NEW w \in E
        PROVE  /\ R(u, w) \in E \cup {NIL}
               /\ R(u, w) # NIL => P(u, R(u, w)) = w
    <3>1. CASE w = y /\ g # x
      <4>1. R(u, w) = r /\ r \in E /\ r # y
        BY <3>1, <1>1, <1>5, <1>b
      <4> QED BY <3>1, <4>1, <1>5
    <3>2. CASE w = y /\ g = x
      <4>1. R(u, w) = c
        BY <3>2, <1>5
      <4>2. c # NIL => c \in E /\ c # y /\ c # a /\ c # r
        BY <3>2, <4>1, <1>1, <1>b
      <4> QED BY <3>2, <4>1, <4>2, <1>1, <1>5
    <3>3. CASE w # y
      <4>1. R(u, w) = R(t, w) /\ R(t, w) \in D \cup {NIL} /\ R(t, w) # x /\ w # x
        BY <3>3, <1>3, <1>5, <1>6
      <4>2. R(t, w) # NIL => P(t, R(t, w)) = w /\ R(t, w) \in E
        BY <4>1, <1>3, <1>6, <1>b
      <4>3. R(t, w) # NIL => R(t, w) # y /\ R(t, w) \notin {a, r} /\ R(t, w) # c
        BY <3>3, <4>1, <4>2, <1>1, <1>6
      <4> QED BY <4>1, <4>2, <4>3, <1>5
    <3> QED BY <3>1, <3>2, <3>3
  <2>3. ASSUME NEW w \in E, w # y
        PROVE  P(u, w) \in E /\ w \in {L(u, P(u, w)), R(u, P(u, w))}
    <3>1. y \in E /\ y # NIL
      BY <1>1, <1>2, <1>b
    <3>2. CASE w = a
      BY <2>3, <3>1, <3>2, <1>5
    <3>3. CASE w = r
      <4>1. P(u, w) = y /\ g # x
        BY <2>3, <3>3, <1>1, <1>5
      <4> QED BY <3>1, <3>3, <4>1, <1>5
    <3>4. CASE w = c /\ g # x /\ w \notin {a, r}
      <4>1. P(u, w) = g /\ g \in E /\ g # y
        BY <2>3, <3>4, <1>1, <1>5, <1>b
      <4> QED BY <3>4, <4>1, <1>5
    <3>5. CASE w \notin {a, r} /\ ~ (w = c /\ g # x)
      <4>1. P(u, w) = P(t, w)
        BY <2>3, <3>5, <1>5
      <4>2. /\ P(t, w) \in E /\ w \in {L(t, P(t, w)), R(t, P(t, w))}
            /\ P(t, w) = y => g = x /\ w = c
        BY <3>5, <1>3, <1>6, <1>b
      <4>3. CASE P(t, w) = y
        <5>1. R(u, y) = c
          BY <3>1, <4>2, <4>3, <1>5
        <5> QED BY <4>1, <4>2, <4>3, <5>1
      <4>4. CASE P(t, w) # y
        <5>1. R(u, P(t, w)) = R(t, P(t, w))
          BY <4>2, <4>4, <1>5
        <5>2. L(t, P(t, w)) = w => L(u, P(t, w)) = w
          <6>1. P(t, w) = g => g # x /\ L(t, g) = y
            BY <4>2, <1>1, <1>b, <1>6
          <6> QED BY <2>3, <4>2, <4>4, <6>1, <1>5
        <5> QED BY <4>1, <4>2, <5>1, <5>2
      <4> QED BY <4>3, <4>4
    <3> QED BY <3>2, <3>3, <3>4, <3>5
  <2>4. y \in E /\ P(u, y) = NIL /\ NIL \notin E
    BY <1>1, <1>2, <1>5, <1>b, <1>c
  <2> QED BY <2>1, <2>2, <2>3, <2>4, <1>5 DEF Linked
<1>8. /\ s \in [E \cup {NIL} -> SUBSET E] /\ s[NIL] = {} /\ s[y] = E
      /\ \A w \in E : w # y => s[w] = sub[w] \ {y}
  <2>1. y # NIL /\ NIL \notin E /\ y \in E
    BY <1>1, <1>2, <1>b, <1>c
  <2>2. \A w \in E : sub[w] \in SUBSET E
    BY <1>1, <1>2, <1>c
  <2> QED BY <2>1, <2>2, <1>2
<1> HIDE DEF s
<1>9. Sorted(u, s)
  <2>1. \A w \in E \cup {NIL} : w # y => s[w] = sub[w] \ {y}
    BY <1>2, <1>8
  <2>a. sub[c] \ {y} = sub[c] /\ sub[a] \ {y} = sub[a]
    BY <1>1
  <2>2. ASSUME NEW w \in E
        PROVE  /\ s[w] = {w} \cup s[L(u, w)] \cup s[R(u, w)]
               /\ \A j \in s[L(u, w)] : j < w
               /\ \A j \in s[R(u, w)] : w < j
    <3>1. CASE w = y
      <4>1. L(u, w) = a /\ s[a] = sub[a] /\ (\A j \in sub[a] : j < y)
        <5>1. a \in E /\ a # y /\ L(u, w) = a
          BY <3>1, <1>1, <1>5, <1>b
        <5>2. \A j \in sub[a] : j \in Nat /\ j < x /\ x \in Nat /\ y \in Nat /\ x < y
          BY <1>1, <1>2
        <5>3. \A j \in sub[a] : j < y
          BY <5>2
        <5> QED BY <5>1, <5>3, <2>1, <2>a
      <4>2. s[R(u, w)] = sub[r] \ {y}
        <5>1. CASE g # x
          <6>1. R(u, w) = r /\ r \in E /\ r # y
            BY <3>1, <5>1, <1>1, <1>5, <1>b
          <6> QED BY <6>1, <2>1
        <5>2. CASE g = x
          <6>1. R(u, w) = c /\ c \in E \cup {NIL} /\ c # y /\ r = y
            BY <3>1, <5>2, <1>1, <1>2, <1>5, <1>b
          <6>2. s[c] = sub[c] /\ sub[r] \ {y} = sub[c]
            BY <6>1, <2>1, <2>a, <1>1
          <6> QED BY <6>1, <6>2
        <5> QED BY <5>1, <5>2
      <4>3. E = {y} \cup sub[a] \cup (sub[r] \ {y})
        <5>1. D = {x} \cup sub[a] \cup sub[r] /\ x \notin sub[a] /\ x \notin sub[r]
          BY <1>1, <1>2, <1>b
        <5> QED BY <5>1, <1>1, <1>c
      <4> QED BY <3>1, <4>1, <4>2, <4>3, <1>1, <1>8
    <3>2. CASE w # y /\ w = g
      <4>1. /\ g # x /\ L(t, g) = y /\ R(t, g) # y /\ L(u, w) = c /\ R(u, w) = R(t, g)
        BY <3>2, <1>1, <1>5, <1>6
      <4>2. s[c] = sub[c] /\ s[R(t, g)] = sub[R(t, g)] \ {y} /\ s[w] = sub[w] \ {y}
        <5>1. c \in E \cup {NIL} /\ c # y /\ R(t, g) \in E \cup {NIL}
          BY <3>2, <4>1, <1>1, <1>3, <1>6, <1>b
        <5> QED BY <3>2, <4>1, <5>1, <2>1, <2>a
      <4>3. /\ sub[w] = {w} \cup ({y} \cup sub[c]) \cup sub[R(t, g)]
            /\ \A j \in {y} \cup sub[c] : j < w
            /\ \A j \in sub[R(t, g)] : w < j
        BY <3>2, <4>1, <1>1, <1>2
      <4> QED BY <3>2, <4>1, <4>2, <4>3, <1>1
    <3>3. CASE w # y /\ w # g
      <4>1. /\ L(u, w) = L(t, w) /\ L(t, w) \in E \cup {NIL} /\ L(t, w) # y
            /\ R(u, w) = R(t, w) /\ R(t, w) \in E \cup {NIL} /\ R(t, w) # y
        BY <3>3, <1>3, <1>5, <1>6, <1>b
      <4>2. /\ s[L(t, w)] = sub[L(t, w)] \ {y} /\ s[R(t, w)] = sub[R(t, w)] \ {y}
            /\ s[w] = sub[w] \ {y}
        BY <3>3, <4>1, <2>1
      <4>3. /\ sub[w] = {w} \cup sub[L(t, w)] \cup sub[R(t, w)]
            /\ \A j \in sub[L(t, w)] : j < w
            /\ \A j \in sub[R(t, w)] : w < j
        BY <1>2, <1>6
      <4> QED BY <3>3, <4>1, <4>2, <4>3
    <3> QED BY <3>1, <3>2, <3>3
  <2> QED BY <2>2, <1>5, <1>8 DEF Sorted
<1>10. Closed(u, s)
  <2> SUFFICES ASSUME NEW w \in E, NEW j \in s[w]
               PROVE  s[j] \subseteq s[w] /\ (j # w => P(u, j) \in s[w])
    BY <1>5 DEF Closed
  <2>1. CASE w = y
    <3>1. j \in E /\ s[w] = E /\ s[j] \subseteq E
      BY <2>1, <1>8
    <3>2. j # y => P(u, j) \in E
      BY <3>1, <1>5, <1>7 DEF Linked
    <3> QED BY <2>1, <3>1, <3>2
  <2>2. CASE w # y
    <3>1. /\ w \in D /\ w # x /\ s[w] = sub[w] \ {y} /\ x \notin sub[w]
          /\ j \in sub[w] /\ j # y /\ j \in E /\ s[j] = sub[j] \ {y}
      BY <2>2, <1>1, <1>2, <1>6, <1>8, <1>c
    <3>2. sub[j] \subseteq sub[w] /\ (j # w => P(t, j) \in sub[w])
      BY <3>1, <1>4
    <3>3. y \in sub[w] => g # x /\ g \in sub[w] /\ g # y
      BY <2>2, <3>1, <1>1, <1>4
    <3>4. ASSUME j # w PROVE P(u, j) \in s[w]
      <4>1. j \notin {a, r}
        BY <3>1, <3>2, <3>4, <1>1
      <4>2. CASE j = c /\ g # x
        <5>1. P(u, j) = g /\ y \in sub[w]
          BY <3>1, <3>2, <3>4, <4>1, <4>2, <1>1, <1>5, <1>6
        <5> QED BY <3>1, <3>3, <5>1
      <4>3. CASE ~ (j = c /\ g # x)
        <5>1. P(u, j) = P(t, j)
          BY <3>1, <4>1, <4>3, <1>5
        <5>2. P(t, j) # y
          BY <3>1, <3>2, <3>3, <3>4, <4>3, <1>6
        <5> QED BY <3>1, <3>2, <3>4, <5>1, <5>2
      <4> QED BY <4>2, <4>3
    <3> QED BY <3>1, <3>2, <3>4
  <2> QED BY <2>1, <2>2
<1>11. IsTree(u, s)
  BY <1>5, <1>7, <1>9, <1>10 DEF IsTree
<1> QED BY <1>5, <1>11 DEF u, E, D

-----------------------------------------------------------------------------
(* The searches. *)

\* The search for key has come to x below y, and m is the largest smaller key
\* met: what is not below x is out of the question, and a leaf y would be hung
\* on the right side of every node above it.
Searching(t, sub, key, x, y, m) ==
    LET D == DOMAIN t.node
    IN  /\ x \in D \cup {NIL} /\ y \in D \cup {NIL}
        /\ m \in D \cup {NIL} /\ m < key
        /\ \A k \in D \ sub[x] : k # key /\ (k < key => k <= m)
        /\ \A k \in sub[x] : m < k
        /\ y = NIL => x = t.root
        /\ y # NIL => /\ y # key
                      /\ x = IF y < key THEN R(t, y) ELSE L(t, y)
        /\ \A w \in D : /\ y \in sub[L(t, w)] => key < w
                        /\ y \in sub[R(t, w)] => w < key

\* A search starts at the root.
LEMMA SearchStarts ==
    ASSUME NEW t, NEW sub, IsTree(t, sub), NEW key \in Nat \ {0}
    PROVE  Searching(t, sub, key, t.root, NIL, NIL)
<1> DEFINE D == DOMAIN t.node
<1>1. /\ D \subseteq Nat \ {0} /\ NIL \notin D /\ t.root \in D \cup {NIL}
      /\ sub \in [D \cup {NIL} -> SUBSET D] /\ sub[t.root] = D
      /\ \A w \in D : L(t, w) \in D \cup {NIL} /\ R(t, w) \in D \cup {NIL}
  BY DEF IsTree, TypedTree, Linked, Sorted, NIL
<1>2. \A k \in D : NIL < k
  BY <1>1 DEF NIL
<1>3. NIL < key
  BY DEF NIL
<1>4. \A w \in D : NIL \notin sub[L(t, w)] /\ NIL \notin sub[R(t, w)]
  BY <1>1
<1> QED BY <1>1, <1>2, <1>3, <1>4 DEF Searching

\* One round of the loop of the search.
LEMMA SearchKeeps ==
    ASSUME NEW t, NEW sub, IsTree(t, sub), NEW key \in Nat \ {0},
           NEW x, NEW y, NEW m, Searching(t, sub, key, x, y, m), x # NIL, x # key
    PROVE  Searching(t, sub, key, IF key > x THEN R(t, x) ELSE L(t, x), x,
                     IF key > x /\ (m = NIL \/ m < x) THEN x ELSE m)
<1> DEFINE D == DOMAIN t.node
<1>1. /\ D \subseteq Nat \ {0} /\ NIL \notin D
      /\ sub \in [D \cup {NIL} -> SUBSET D] /\ sub[NIL] = {} /\ sub[t.root] = D
      /\ \A k \in D : /\ sub[k] = {k} \cup sub[L(t, k)] \cup sub[R(t, k)]
                      /\ \A j \in sub[L(t, k)] : j < k
                      /\ \A j \in sub[R(t, k)] : k < j
  BY DEF IsTree, TypedTree, Sorted, NIL
<1>2. /\ t.root \in D \cup {NIL}
      /\ \A k \in D : /\ L(t, k) \in D \cup {NIL} /\ R(t, k) \in D \cup {NIL}
                      /\ L(t, k) # NIL => P(t, L(t, k)) = k
                      /\ R(t, k) # NIL => P(t, R(t, k)) = k
                      /\ P(t, k) = NIL <=> k = t.root
  BY DEF IsTree, Linked
<1>3. \A k \in D : \A j \in sub[k] : j # k => P(t, j) \in sub[k]
  BY DEF IsTree, Closed
<1>4. /\ x \in D /\ y \in D \cup {NIL} /\ m \in D \cup {NIL} /\ m < key
      /\ \A k \in D \ sub[x] : k # key /\ (k < key => k <= m)
      /\ \A k \in sub[x] : m < k
      /\ y = NIL => x = t.root
      /\ y # NIL => /\ y # key
                    /\ x = IF y < key THEN R(t, y) ELSE L(t, y)
      /\ \A w \in D : /\ y \in sub[L(t, w)] => key < w
                      /\ y \in sub[R(t, w)] => w < key
  BY DEF Searching
<1>5. \A k \in D \cup {NIL, key} : k \in Nat
  BY <1>1 DEF NIL
<1> HIDE DEF D
<1>6. sub[x] = {x} \cup sub[L(t, x)] \cup sub[R(t, x)] /\ m < x
      /\ sub[L(t, x)] \subseteq D /\ sub[R(t, x)] \subseteq D
  BY <1>1, <1>2, <1>4
<1>7. ASSUME NEW w \in D
      PROVE  /\ x \in sub[L(t, w)] => key < w
             /\ x \in sub[R(t, w)] => w < key
  <2>1. L(t, w) = x => P(t, x) = w
    BY <1>2, <1>4
  <2>2. R(t, w) = x => P(t, x) = w
    BY <1>2, <1>4
  <2>3. x \in sub[L(t, w)] => L(t, w) = x \/ P(t, x) \in sub[L(t, w)]
    BY <1>1, <1>2, <1>3
  <2>4. x \in sub[R(t, w)] => R(t, w) = x \/ P(t, x) \in sub[R(t, w)]
    BY <1>1, <1>2, <1>3
  <2>5. NIL \notin sub[L(t, w)] /\ NIL \notin sub[R(t, w)] /\ w # NIL
    BY <1>1, <1>2
  <2>6. CASE y = NIL
    <3>1. P(t, x) = NIL
      BY <2>6, <1>2, <1>4
    <3> QED BY <3>1, <2>1, <2>2, <2>3, <2>4, <2>5
  <2>7. CASE y # NIL
    <3>1. y \in D /\ P(t, x) = y
      BY <2>7, <1>2, <1>4
    <3>2. L(t, w) = x => key < w
      <4> SUFFICES ASSUME L(t, w) = x PROVE key < w
        OBVIOUS
      <4>1. y = w /\ x < w
        BY <2>1, <3>1, <1>1, <1>4
      <4>2. w < key => w < x
        BY <4>1, <1>1, <1>4, <2>7
      <4>3. ~ (w < x)
        BY <4>1, <1>4, <1>5
      <4> QED BY <4>1, <4>2, <4>3, <2>7, <1>4, <1>5
    <3>3. R(t, w) = x => w < key
      <4> SUFFICES ASSUME R(t, w) = x PROVE w < key
        OBVIOUS
      <4>1. y = w /\ w < x
        BY <2>2, <3>1, <1>1, <1>4
      <4>2. ~ (w < key) => x < w
        BY <4>1, <1>1, <1>4, <2>7
      <4>3. ~ (x < w)
        BY <4>1, <1>4, <1>5
      <4> QED BY <4>2, <4>3
    <3> QED BY <3>1, <3>2, <3>3, <2>3, <2>4, <1>4
  <2> QED BY <2>6, <2>7
<1>8. CASE key > x
  <2>1. Searching(t, sub, key, R(t, x), x, x)
    <3>1. ASSUME NEW k \in D \ sub[R(t, x)]
          PROVE  k # key /\ (k < key => k <= x)
      <4>1. k \in D \ sub[x] \/ k = x \/ k \in sub[L(t, x)]
        BY <1>6
      <4>2. k \in Nat /\ x \in Nat /\ m \in Nat /\ key \in Nat
        BY <1>4, <1>5
      <4>3. k \in sub[L(t, x)] => k < x
        BY <1>1, <1>4
      <4>4. k \in D \ sub[x] => k # key /\ (k < key => k <= m)
        BY <1>4
      <4> QED BY <4>1, <4>2, <4>3, <4>4, <1>6, <1>8
    <3>2. (\A k \in sub[R(t, x)] : x < k) /\ x < key
      BY <1>1, <1>4, <1>5, <1>8
    <3>3. x # NIL /\ x # key /\ R(t, x) \in D \cup {NIL}
      BY <1>2, <1>4
    <3> QED BY <3>1, <3>2, <3>3, <1>4, <1>7 DEF Searching, D
  <2>2. key > x /\ (m = NIL \/ m < x)
    BY <1>6, <1>8
  <2> QED BY <2>1, <2>2
<1>9. CASE ~ (key > x)
  <2>1. Searching(t, sub, key, L(t, x), x, m)
    <3>1. ASSUME NEW k \in D \ sub[L(t, x)]
          PROVE  k # key /\ (k < key => k <= m)
      <4>1. k \in D \ sub[x] \/ k = x \/ k \in sub[R(t, x)]
        BY <1>6
      <4>2. k \in Nat /\ x \in Nat /\ m \in Nat /\ key \in Nat
        BY <1>4, <1>5
      <4>3. k \in sub[R(t, x)] => x < k
        BY <1>1, <1>4
      <4>4. k \in D \ sub[x] => k # key /\ (k < key => k <= m)
        BY <1>4
      <4> QED BY <4>1, <4>2, <4>3, <4>4, <1>9
    <3>2. \A k \in sub[L(t, x)] : m < k
      BY <1>4, <1>6
    <3>3. x # NIL /\ x # key /\ L(t, x) \in D \cup {NIL} /\ ~ (x < key)
      BY <1>2, <1>4, <1>5, <1>9
    <3> QED BY <3>1, <3>2, <3>3, <1>4, <1>7 DEF Searching, D
  <2> QED BY <2>1, <1>9
<1> QED BY <1>8, <1>9

\* Where the search ends, at key or at a null pointer, the answer of
\* tree_find_nearest is known.
LEMMA SearchEnds ==
    ASSUME NEW t, NEW sub, IsTree(t, sub), NEW key \in Nat \ {0},
           NEW x, NEW y, NEW m, Searching(t, sub, key, x, y, m), x = NIL \/ x = key
    PROVE  LET r == IF x = NIL THEN m ELSE x
           IN  /\ x = NIL => key \notin DOMAIN t.node
               /\ r = NIL => \A k \in DOMAIN t.node : key < k
               /\ r # NIL => /\ r \in DOMAIN t.node /\ r <= key
                             /\ \A k \in DOMAIN t.node : k <= key => k <= r
<1> DEFINE D == DOMAIN t.node
<1>1. /\ D \subseteq Nat \ {0} /\ NIL \notin D /\ sub[NIL] = {}
  BY DEF IsTree, TypedTree, Sorted, NIL
<1>2. /\ x \in D \cup {NIL} /\ m \in D \cup {NIL} /\ m < key
      /\ \A k \in D \ sub[x] : k # key /\ (k < key => k <= m)
  BY DEF Searching
<1>3. \A k \in D \cup {NIL, key} : k \in Nat
  BY <1>1 DEF NIL
<1> HIDE DEF D
<1>4. CASE x = NIL
  <2>1. \A k \in D : k # key /\ (k < key => k <= m)
    BY <1>1, <1>2, <1>4
  <2>2. ASSUME m = NIL, NEW k \in D PROVE key < k
    <3>1. ~ (k <= m)
      BY <2>2, <1>1 DEF NIL
    <3> QED BY <2>1, <3>1, <1>3
  <2>3. ASSUME m # NIL PROVE m \in D /\ m <= key /\ \A k \in D : k <= key => k <= m
    BY <2>1, <2>3, <1>2, <1>3
  <2> QED BY <2>1, <2>2, <2>3, <1>4 DEF D
<1>5. CASE x # NIL
  <2>1. x = key /\ x \in D /\ x <= key
    BY <1>2, <1>3, <1>5
  <2> QED BY <2>1, <1>5 DEF D
<1> QED BY <1>4, <1>5

\* The search for the minimum to the right of the root x has come to y.
Leftmost(t, sub, x, y) ==
    /\ y \in sub[R(t, x)]
    /\ \A k \in sub[R(t, x)] : k \in sub[y] \/ y < k

\* It starts at the right child, and goes to the left.
LEMMA MinimumKeeps ==
    ASSUME NEW t, NEW sub, IsTree(t, sub), NEW x \in DOMAIN t.node
    PROVE  /\ R(t, x) # NIL => Leftmost(t, sub, x, R(t, x))
           /\ \A y : Leftmost(t, sub, x, y) /\ L(t, y) # NIL
                       => Leftmost(t, sub, x, L(t, y))
<1> DEFINE D == DOMAIN t.node
<1>1. /\ D \subseteq Nat \ {0} /\ NIL \notin D
      /\ sub \in [D \cup {NIL} -> SUBSET D] /\ sub[NIL] = {}
      /\ \A k \in D : /\ sub[k] = {k} \cup sub[L(t, k)] \cup sub[R(t, k)]
                      /\ \A j \in sub[L(t, k)] : j < k
                      /\ \A j \in sub[R(t, k)] : k < j
      /\ \A k \in D : L(t, k) \in D \cup {NIL} /\ R(t, k) \in D \cup {NIL}
      /\ \A k \in D : \A j \in sub[k] : sub[j] \subseteq sub[k]
  BY DEF IsTree, TypedTree, Linked, Sorted, Closed, NIL
<1>2. R(t, x) # NIL => Leftmost(t, sub, x, R(t, x))
  BY <1>1 DEF Leftmost
<1>3. ASSUME NEW y, Leftmost(t, sub, x, y), L(t, y) # NIL
      PROVE  Leftmost(t, sub, x, L(t, y))
  <2> DEFINE l == L(t, y)
             r == R(t, x)
  <2>1. /\ r \in D /\ y \in D /\ y \in sub[r] /\ l \in D
        /\ \A k \in sub[r] : k \in sub[y] \/ y < k
    BY <1>1, <1>3 DEF Leftmost
  <2>2. /\ l \in sub[l] /\ l < y
        /\ sub[y] = {y} \cup sub[l] \cup sub[R(t, y)]
        /\ \A k \in sub[R(t, y)] : y < k
        /\ sub[y] \subseteq sub[r]
    BY <2>1, <1>1
  <2> HIDE DEF l, r
  <2>3. ASSUME NEW k \in sub[r] PROVE k \in sub[l] \/ l < k
    <3>1. k \in D /\ k \in Nat /\ y \in Nat /\ l \in Nat
      BY <2>1, <1>1
    <3>2. k \in sub[l] \/ k = y \/ y < k
      BY <2>1, <2>2
    <3> QED BY <3>1, <3>2, <2>2
  <2> QED BY <2>2, <2>3 DEF Leftmost, l, r
<1> QED BY <1>2, <1>3

-----------------------------------------------------------------------------
(* The range set with a finite map: for any heap, any alignment, any sizes and   *)
(* any sequence of addresses that an allocator returns.                          *)

USE HeapAssumption, SizesAssumption DEF NULL, HeapLo

\* Along next the addresses grow, and a payload ends before the next one starts.
Ascending(rs) ==
    \A k \in DOMAIN rs.tree :
        /\ k <= rs.tree[k].hi
        /\ rs.tree[k].next # NULL => rs.tree[k].hi < rs.tree[k].next

IInv == RecordsTyped(ranges) /\ DoublyLinked /\ Ascending(ranges)

\* A payload that passes the tests starts at a new address, above the payload
\* before it and below the next one.
LEMMA AcceptedApart ==
    ASSUME IInv, NEW lo \in Address, NEW len \in Nat \ {0},
           Accepts(ranges, tree_find_nearest(ranges, lo), lo, len, HeapLimit)
    PROVE  LET prev == tree_find_nearest(ranges, lo)
               next == NextOf(ranges, prev)
           IN  /\ lo \notin DOMAIN ranges.tree
               /\ prev \in DOMAIN ranges.tree \cup {NULL}
               /\ next \in DOMAIN ranges.tree \cup {NULL}
               /\ prev # NULL => ranges.tree[prev].hi < lo
               /\ next # NULL => prev # NULL /\ lo + len - 1 < next
<1> DEFINE prev == tree_find_nearest(ranges, lo)
           next == NextOf(ranges, prev)
<1>1. lo \in Nat /\ DOMAIN ranges.tree \subseteq Nat
  BY DEF Address, IInv, RecordsTyped
<1>2. /\ prev = NULL => \A k \in DOMAIN ranges.tree : lo < k
      /\ prev # NULL => /\ prev \in DOMAIN ranges.tree /\ prev <= lo
                        /\ \A k \in DOMAIN ranges.tree : k <= lo => k <= prev
  BY <1>1, NearestIsBelow DEF IInv
<1>3. /\ ~ (prev # NULL /\ lo <= ranges.tree[prev].hi)
      /\ ~ (next # NULL /\ lo + len - 1 >= next)
  BY DEF Accepts
<1> HIDE DEF prev
<1>4. \A k \in DOMAIN ranges.tree :
        ranges.tree[k].hi \in Nat /\ ranges.tree[k].next \in Nat /\ k <= ranges.tree[k].hi
  BY DEF IInv, RecordsTyped, RangeRecord, Ascending
<1>5. next \in DOMAIN ranges.tree \cup {NULL} /\ (next # NULL => prev # NULL)
  BY <1>2 DEF NextOf, IInv, DoublyLinked
<1>6. lo \notin DOMAIN ranges.tree
  <2> SUFFICES ASSUME lo \in DOMAIN ranges.tree PROVE FALSE
    OBVIOUS
  <2>1. prev = lo
    BY <1>1, <1>2
  <2>2. lo # NULL
    BY DEF Address
  <2> QED BY <1>3, <1>4, <2>1, <2>2
<1>7. prev # NULL => ranges.tree[prev].hi < lo
  BY <1>1, <1>2, <1>3, <1>4
<1>8. next # NULL => lo + len - 1 < next
  BY <1>1, <1>3, <1>5
<1> QED BY <1>2, <1>5, <1>6, <1>7, <1>8 DEF prev

\* Recording a payload that passes the tests keeps the invariant.
LEMMA AddRangeKeeps ==
    ASSUME IInv, NEW lo \in Address, NEW len \in Nat \ {0},
           Accepts(ranges, tree_find_nearest(ranges, lo), lo, len, HeapLimit),
           ranges' = add_range(ranges, tree_find_nearest(ranges, lo), lo, len, 0)
    PROVE  IInv'
<1> DEFINE D    == DOMAIN ranges.tree
           prev == tree_find_nearest(ranges, lo)
           next == NextOf(ranges, prev)
<1>1. /\ lo \notin D /\ prev \in D \cup {NULL} /\ next \in D \cup {NULL}
      /\ prev # NULL => ranges.tree[prev].hi < lo
      /\ next # NULL => prev # NULL /\ lo + len - 1 < next
  BY AcceptedApart
<1>2. lo \in Nat /\ lo # NULL /\ D \subseteq Nat /\ NULL \notin D
  BY DEF Address, IInv, RecordsTyped
<1>3. next = IF prev = NULL THEN NULL ELSE ranges.tree[prev].next
  BY DEF NextOf
<1> HIDE DEF prev, next
<1>4. /\ RecordsTyped(ranges)'
      /\ ranges.list' = IF prev = NULL THEN lo ELSE ranges.list
      /\ DOMAIN ranges.tree' = D \cup {lo}
      /\ ranges.tree'[lo].hi = lo + len - 1
      /\ ranges.tree'[lo].prev = prev /\ ranges.tree'[lo].next = next
      /\ \A k \in D :
          /\ ranges.tree'[k].hi = ranges.tree[k].hi
          /\ ranges.tree'[k].next = IF k = prev THEN lo ELSE ranges.tree[k].next
          /\ ranges.tree'[k].prev = IF k = next THEN lo ELSE ranges.tree[k].prev
  <2>1. RecordsTyped(ranges) /\ NextOf(ranges, prev) \in D \cup {NULL}
    BY <1>1 DEF IInv, next
  <2>2. ranges' = add_range(ranges, prev, lo, len, 0)
    BY DEF prev
  <2>3. RecordsTyped(add_range(ranges, prev, lo, len, 0)) => RecordsTyped(ranges')
    BY <2>2
  <2> QED BY <1>1, <2>1, <2>2, <2>3, AddRangeFields DEF next
<1>5. DoublyLinked'
  <2>1. DoublyLinked
    BY DEF IInv
  <2>2. ranges.list' # NULL => ranges.tree'[ranges.list'].prev = NULL
    BY <1>1, <1>2, <1>3, <1>4, <2>1 DEF DoublyLinked
  <2>3. ASSUME NEW k \in D \cup {lo}, ranges.tree'[k].next # NULL
        PROVE  ranges.tree'[k].next \in D \cup {lo}
               /\ ranges.tree'[ranges.tree'[k].next].prev = k
    BY <1>1, <1>2, <1>3, <1>4, <2>1, <2>3 DEF DoublyLinked
  <2>4. ASSUME NEW k \in D \cup {lo}, ranges.tree'[k].prev # NULL
        PROVE  ranges.tree'[k].prev \in D \cup {lo}
               /\ ranges.tree'[ranges.tree'[k].prev].next = k
    BY <1>1, <1>2, <1>3, <1>4, <2>1, <2>4 DEF DoublyLinked
  <2>5. ranges.list' \in D \cup {lo, NULL}
    BY <1>4, <2>1 DEF DoublyLinked
  <2> QED BY <1>4, <2>2, <2>3, <2>4, <2>5 DEF DoublyLinked
<1>6. Ascending(ranges')
  <2>1. \A k \in D : /\ k <= ranges.tree[k].hi /\ ranges.tree[k].hi \in Nat
                     /\ ranges.tree[k].next # NULL => ranges.tree[k].hi < ranges.tree[k].next
    BY DEF IInv, Ascending, RecordsTyped, RangeRecord
  <2> QED BY <1>1, <1>2, <1>3, <1>4, <2>1 DEF Ascending
<1> QED BY <1>4, <1>5, <1>6 DEF IInv

\* So does taking a record out.
LEMMA RemoveRangeKeeps ==
    ASSUME IInv, NEW lo \in DOMAIN ranges.tree, ranges' = remove_range(ranges, lo)
    PROVE  IInv'
<1> DEFINE D == DOMAIN ranges.tree
           rec == ranges.tree[lo]
<1>1. DoublyLinked /\ D \subseteq Nat /\ NULL \notin D /\ RecordsTyped(ranges)
  BY DEF IInv, RecordsTyped, Address
<1>2. /\ rec.prev \in D \cup {NULL} /\ rec.next \in D \cup {NULL}
      /\ rec.next # NULL => ranges.tree[rec.next].prev = lo
      /\ rec.prev # NULL => ranges.tree[rec.prev].next = lo
  BY <1>1 DEF DoublyLinked
<1>3. \A k \in D : /\ k <= ranges.tree[k].hi /\ ranges.tree[k].hi \in Nat
                   /\ ranges.tree[k].next # NULL => ranges.tree[k].hi < ranges.tree[k].next
  BY DEF IInv, Ascending, RecordsTyped, RangeRecord
<1>4. rec.prev # lo /\ rec.next # lo
  BY <1>1, <1>2, <1>3
<1>5. /\ RecordsTyped(ranges)'
      /\ ranges.list' = IF rec.prev = NULL THEN rec.next ELSE ranges.list
      /\ DOMAIN ranges.tree' = D \ {lo}
      /\ \A k \in D \ {lo} :
          /\ ranges.tree'[k].hi = ranges.tree[k].hi
          /\ ranges.tree'[k].next = IF k = rec.prev THEN rec.next ELSE ranges.tree[k].next
          /\ ranges.tree'[k].prev = IF k = rec.next THEN rec.prev ELSE ranges.tree[k].prev
  <2>1. RecordsTyped(remove_range(ranges, lo)) => RecordsTyped(ranges')
    OBVIOUS
  <2> QED BY <1>1, <1>2, <2>1, RemoveRangeFields
<1>6. DoublyLinked'
  <2>1. ranges.list' \in (D \ {lo}) \cup {NULL}
    BY <1>1, <1>2, <1>4, <1>5 DEF DoublyLinked
  <2>2. ranges.list' # NULL => ranges.tree'[ranges.list'].prev = NULL
    BY <1>1, <1>2, <1>4, <1>5, <2>1 DEF DoublyLinked
  <2>3. ASSUME NEW k \in D \ {lo}, ranges.tree'[k].next # NULL
        PROVE  ranges.tree'[k].next \in D \ {lo}
               /\ ranges.tree'[ranges.tree'[k].next].prev = k
    BY <1>1, <1>2, <1>4, <1>5, <2>3 DEF DoublyLinked
  <2>4. ASSUME NEW k \in D \ {lo}, ranges.tree'[k].prev # NULL
        PROVE  ranges.tree'[k].prev \in D \ {lo}
               /\ ranges.tree'[ranges.tree'[k].prev].next = k
    BY <1>1, <1>2, <1>4, <1>5, <2>4 DEF DoublyLinked
  <2> QED BY <1>5, <2>1, <2>2, <2>3, <2>4 DEF DoublyLinked
<1>7. Ascending(ranges')
  <2>1. rec.next # NULL /\ rec.prev # NULL => ranges.tree[rec.prev].hi < rec.next
    BY <1>1, <1>2, <1>3
  <2> QED BY <1>1, <1>2, <1>3, <1>5, <2>1 DEF Ascending
<1> QED BY <1>5, <1>6, <1>7 DEF IInv

\* A payload that is refused although it lies in the heap and is aligned overlaps
\* the record before it, or the one that follows that in the list.
LEMMA RefusedOverlaps ==
    ASSUME IInv, NEW lo \in Address, lo % Alignment = 0, NEW len \in Nat \ {0},
           lo + len <= HeapLimit,
           ~ Accepts(ranges, tree_find_nearest(ranges, lo), lo, len, HeapLimit)
    PROVE  Bytes(lo, len) \cap Recorded # {}
<1> DEFINE D    == DOMAIN ranges.tree
           prev == tree_find_nearest(ranges, lo)
           next == NextOf(ranges, prev)
<1>1. lo \in Nat /\ HeapLo <= lo /\ lo + len - 1 < HeapLimit /\ D \subseteq Nat
  BY DEF Address, IInv, RecordsTyped
<1>2. /\ prev = NULL => \A k \in D : lo < k
      /\ prev # NULL => /\ prev \in D /\ prev <= lo
                        /\ \A k \in D : k <= lo => k <= prev
  BY <1>1, NearestIsBelow DEF IInv
<1>3. \/ prev # NULL /\ lo <= ranges.tree[prev].hi
      \/ next # NULL /\ lo + len - 1 >= next
  BY <1>1 DEF Accepts
<1>4. next = IF prev = NULL THEN NULL ELSE ranges.tree[prev].next
  BY DEF NextOf
<1> HIDE DEF prev, next
<1>5. \A k \in D : /\ k <= ranges.tree[k].hi /\ ranges.tree[k].hi \in Nat
                   /\ ranges.tree[k].next # NULL => ranges.tree[k].hi < ranges.tree[k].next
  BY DEF IInv, Ascending, RecordsTyped, RangeRecord
<1>6. CASE prev # NULL /\ lo <= ranges.tree[prev].hi
  <2>1. lo \in Bytes(lo, len)
    BY <1>1 DEF Bytes
  <2>2. lo \in prev .. ranges.tree[prev].hi
    BY <1>1, <1>2, <1>5, <1>6
  <2>3. lo \in Recorded
    BY <1>2, <1>6, <2>2 DEF Recorded
  <2> QED BY <2>1, <2>3
<1>7. CASE next # NULL /\ lo + len - 1 >= next
  <2>1. next \in D
    BY <1>2, <1>4, <1>7 DEF IInv, DoublyLinked
  <2>2. prev < next
    BY <1>1, <1>2, <1>4, <1>5, <1>7, <2>1
  <2>3. lo < next
    BY <1>1, <1>2, <1>4, <1>7, <2>1, <2>2
  <2>4. next \in Bytes(lo, len)
    BY <1>1, <1>7, <2>1, <2>3 DEF Bytes
  <2>5. next \in next .. ranges.tree[next].hi
    BY <1>1, <1>5, <2>1
  <2>6. next \in Recorded
    BY <2>1, <2>5 DEF Recorded
  <2> QED BY <2>4, <2>6
<1> QED BY <1>3, <1>6, <1>7

\* One request: the invariant is kept, and a refusal is justified.
LEMMA StepKeeps ==
    ASSUME IInv, NoFalseAlarm, [AnyNext]_vars
    PROVE  IInv' /\ NoFalseAlarm'
<1>1. CASE Request
  <2>1. ranges' = ranges /\ rejected' = {}
    BY <1>1 DEF Request
  <2> QED BY <2>1 DEF IInv, DoublyLinked, NoFalseAlarm
<1>2. ASSUME NEW lo \in Address, lo % Alignment = 0, NEW len \in Sizes,
             lo + len <= HeapLimit, Allocate(lo, len)
      PROVE  IInv' /\ NoFalseAlarm'
  <2>1. len \in Nat \ {0}
    OBVIOUS
  <2>2. CASE Accepts(ranges, tree_find_nearest(ranges, lo), lo, len, HeapLimit)
    <3>1. ranges' = add_range(ranges, tree_find_nearest(ranges, lo), lo, len, 0)
          /\ rejected' = {}
      BY <1>2, <2>2 DEF Allocate
    <3>2. IInv'
      BY <2>1, <2>2, <3>1, AddRangeKeeps
    <3> QED BY <3>1, <3>2 DEF NoFalseAlarm
  <2>3. CASE ~ Accepts(ranges, tree_find_nearest(ranges, lo), lo, len, HeapLimit)
    <3>1. ranges' = ranges /\ rejected' = Bytes(lo, len)
      BY <1>2, <2>3 DEF Allocate
    <3>2. Bytes(lo, len) \cap Recorded # {}
      BY <1>2, <2>1, <2>3, RefusedOverlaps
    <3> QED BY <3>1, <3>2 DEF IInv, DoublyLinked, NoFalseAlarm, Recorded
  <2> QED BY <2>2, <2>3
<1>3. ASSUME NEW lo \in Address, Free(lo)
      PROVE  IInv' /\ NoFalseAlarm'
  <2>1. lo \in DOMAIN ranges.tree /\ ranges' = remove_range(ranges, lo) /\ rejected' = {}
    BY <1>3 DEF Free, tree_remove
  <2>2. IInv'
    BY <2>1, RemoveRangeKeeps
  <2> QED BY <2>1, <2>2 DEF NoFalseAlarm
<1>4. CASE UNCHANGED vars
  BY <1>4 DEF vars, IInv, DoublyLinked, NoFalseAlarm, Recorded
<1> QED BY <1>1, <1>2, <1>3, <1>4 DEF AnyNext, Address

\* The invariant holds of the empty range set.
LEMMA Initially == Init => IInv /\ NoFalseAlarm
<1>1. DOMAIN new_range_set.tree = {} /\ new_range_set.list = NULL
      /\ new_range_set = [list |-> new_range_set.list, tree |-> new_range_set.tree]
      /\ new_range_set.tree \in [{} -> RangeRecord]
  BY DEF new_range_set
<1> QED BY <1>1 DEF Init, IInv, RecordsTyped, Ascending, DoublyLinked, NoFalseAlarm

\* The inductive invariant of the range set.
LEMMA Invariant == Spec => [](IInv /\ NoFalseAlarm)
<1>1. Init => IInv /\ NoFalseAlarm
  BY Initially
<1>2. IInv /\ NoFalseAlarm /\ [AnyNext]_vars => (IInv /\ NoFalseAlarm)'
  BY StepKeeps
<1> QED BY <1>1, <1>2, PTL DEF Spec

\* The links of the range list mirror each other and never name a freed record,
\* whatever addresses the allocator returns and in whatever order blocks are freed.
THEOREM LinksCorrect == Spec => []DoublyLinked
<1>1. IInv => DoublyLinked
  BY DEF IInv
<1> QED BY <1>1, Invariant, PTL

\* What add_range refuses overlaps a recorded block: an allocator whose blocks do
\* not overlap is never accused, although the list may have come apart.
THEOREM AlarmsJustified == Spec => []NoFalseAlarm
BY Invariant, PTL

-----------------------------------------------------------------------------
(* The range set on the splay tree: between the steps of every call the nodes    *)
(* form a search tree, each search brings the answer that the finite map gives,  *)
(* and so what is proved of the map holds with the tree in its place.            *)

\* The nodes are those of the records, but for the key of a call that has changed
\* only one of the two.
NodesMatch ==
    LET D   == DOMAIN tree.node
        Rec == DOMAIN ranges.tree
    IN  /\ at \in {"search", "splay", "minimum", "returned"}
        /\ \/ call.op = "none" /\ at = "returned" /\ D = Rec
           \/ /\ call.op = "tree_find_nearest" /\ at \in {"search", "returned"}
              /\ call.key \in Key /\ D = Rec
              /\ size \in Sizes /\ call.key + size <= HeapLimit
              /\ at = "returned" => result = tree_find_nearest(ranges, call.key)
           \/ /\ call.op = "tree_insert" /\ at \in {"search", "splay", "returned"}
              /\ call.key \in Rec \cap Key
              /\ D = IF at = "search" THEN Rec \ {call.key} ELSE Rec
           \/ /\ call.op = "tree_remove" /\ call.key \in Rec \cap Key
              /\ D = IF at = "returned" THEN Rec \ {call.key} ELSE Rec
              /\ at = "returned" => result = call.key

\* Where the call is in the tree.
Located(sub) ==
    /\ at = "search" => Searching(tree, sub, call.key, z, p, n)
    /\ at \in {"splay", "minimum"} => z = call.key
    /\ at = "minimum" =>
        /\ call.op = "tree_remove"
        /\ P(tree, z) = NIL /\ L(tree, z) # NIL /\ R(tree, z) # NIL
        /\ Leftmost(tree, sub, z, p)

TreeInv == \E sub : IsTree(tree, sub) /\ Located(sub)

RInv == IInv /\ NoFalseAlarm /\ NodesMatch /\ TreeInv

-----------------------------------------------------------------------------

\* The keys are addresses at which a block may start.
LEMMA KeyIsAddress ==
    \A k \in Key : /\ k \in Address /\ k % Alignment = 0
                   /\ k \in Nat \ {0} /\ k # NIL
BY AddressAssumption, KeyAssumption DEF Address, NIL

\* The answer of a search that ended in the tree is that of the finite map.
LEMMA NearestFoundThere ==
    ASSUME IInv, NEW sub, IsTree(tree, sub), DOMAIN tree.node = DOMAIN ranges.tree,
           NEW key \in Key, Searching(tree, sub, key, z, p, n), z = NIL \/ z = key
    PROVE  (IF z = NIL THEN n ELSE z) = tree_find_nearest(ranges, key)
<1> DEFINE D == DOMAIN tree.node
           r == IF z = NIL THEN n ELSE z
           prev == tree_find_nearest(ranges, key)
<1>1. D \subseteq Nat \ {0} /\ key \in Nat \ {0}
  BY KeyIsAddress DEF IsTree, TypedTree
<1>2. /\ r = NIL => \A k \in D : key < k
      /\ r # NIL => r \in D /\ r <= key /\ \A k \in D : k <= key => k <= r
  BY <1>1, SearchEnds
<1>3. /\ prev = NIL => \A k \in D : key < k
      /\ prev # NIL => prev \in D /\ prev <= key /\ \A k \in D : k <= key => k <= prev
  BY <1>1, NearestIsBelow DEF IInv, NIL, NULL
<1> SUFFICES r = prev
  OBVIOUS
<1> HIDE DEF D, r, prev
<1>4. \A k \in D \cup {key} : k \in Nat
  BY <1>1
<1>a. \A k \in D : ~ (key < k /\ k <= key)
  BY <1>4
<1>5. CASE r = NIL
  <2>1. prev = NIL
    BY <1>2, <1>3, <1>a, <1>5
  <2> QED BY <2>1, <1>5
<1>6. CASE r # NIL
  <2>1. prev # NIL
    BY <1>2, <1>3, <1>a, <1>6
  <2>2. r <= prev /\ prev <= r /\ r \in Nat /\ prev \in Nat
    BY <2>1, <1>2, <1>3, <1>4, <1>6
  <2> QED BY <2>2
<1> QED BY <1>5, <1>6

\* A call starts with a search from the root.
LEMMA CallStarts ==
    ASSUME NEW sub, IsTree(tree, sub), NEW op, NEW key \in Key, Call(op, key)
    PROVE  TreeInv'
<1>1. Searching(tree, sub, key, tree.root, NIL, NIL)
  BY KeyIsAddress, SearchStarts
<1>2. IsTree(tree', sub) /\ Located(sub)'
  BY <1>1 DEF Call, Located
<1> QED BY <1>2 DEF TreeInv

\* Every step of a call of the tree leaves the invariant, while ranges stays.
LEMMA TreeStepKeeps ==
    ASSUME RInv, TreeStep, UNCHANGED <<vars, size>>
    PROVE  NodesMatch' /\ TreeInv'
<1> DEFINE D == DOMAIN tree.node
           Rec == DOMAIN ranges.tree
<1>1. PICK sub : IsTree(tree, sub) /\ Located(sub)
  BY DEF RInv, TreeInv
<1>2. IInv /\ NodesMatch /\ ranges' = ranges /\ size' = size
  BY DEF RInv, vars
<1>3. D \subseteq Nat \ {0} /\ NIL \notin D
  BY <1>1 DEF IsTree, TypedTree, NIL
<1>4. CASE Search
  <2>1. at = "search" /\ z # NIL /\ z # call.key /\ call.key \in Nat \ {0}
    BY <1>2, <1>4, KeyIsAddress DEF Search, NodesMatch
  <2>2. Searching(tree, sub, call.key, z', p', n')
    BY <1>1, <1>4, <2>1, SearchKeeps DEF Search, Located
  <2>3. Located(sub)'
    BY <1>4, <2>1, <2>2 DEF Search, Located
  <2> QED BY <1>1, <1>2, <1>4, <2>1, <2>3 DEF Search, NodesMatch, TreeInv
<1>5. CASE NearestFound
  <2>1. /\ at = "search" /\ call.op = "tree_find_nearest" /\ call.key \in Key /\ D = Rec
        /\ z = NIL \/ z = call.key
        /\ size \in Sizes /\ call.key + size <= HeapLimit
    BY <1>2, <1>5 DEF NearestFound, NodesMatch
  <2>2. result' = tree_find_nearest(ranges, call.key)
    BY <1>1, <1>2, <1>5, <2>1, NearestFoundThere DEF NearestFound, Return, Located
  <2>3. NodesMatch'
    BY <1>2, <1>5, <2>1, <2>2 DEF NearestFound, Return, NodesMatch
  <2> QED BY <1>1, <1>5, <2>3 DEF NearestFound, Return, TreeInv, Located
<1>6. CASE InsertPresent
  <2>1. z \in D /\ z \notin D
    <3>1. at = "search" /\ D = Rec \ {z} /\ z # NIL
      BY <1>2, <1>6, KeyIsAddress DEF InsertPresent, NodesMatch
    <3> QED BY <1>1, <3>1 DEF Located, Searching
  <2> QED BY <2>1
<1>7. CASE InsertNode
  <2>1. /\ at = "search" /\ call.op = "tree_insert" /\ call.key \in Key /\ call.key \in Rec
        /\ D = Rec \ {call.key} /\ z = NIL /\ call.key \in Nat \ {0} /\ call.key \notin D
    BY <1>2, <1>7, KeyIsAddress DEF InsertNode, NodesMatch
  <2>2. Searching(tree, sub, call.key, NIL, p, n)
    BY <1>1, <2>1 DEF Located
  <2>3. /\ p \in D \cup {NIL}
        /\ p = NIL => D = {}
        /\ p # NIL => IF p < call.key THEN R(tree, p) = NIL ELSE L(tree, p) = NIL
        /\ \A w \in D : /\ p \in sub[L(tree, w)] => call.key < w
                        /\ p \in sub[R(tree, w)] => w < call.key
    BY <1>1, <2>2 DEF Searching, IsTree, Sorted
  <2>4. PICK s : IsTree(tree', s)
    BY <1>1, <1>7, <2>1, <2>3, InsertKeeps DEF InsertNode
  <2>5. DOMAIN tree'.node = D \cup {call.key}
    BY <1>1, <1>7, <2>1, <2>3, InsertedFields DEF InsertNode, IsTree
  <2>6. at' = "splay" /\ z' = call.key /\ call' = call
    BY <1>7 DEF InsertNode
  <2>7. NodesMatch'
    BY <1>2, <2>1, <2>5, <2>6 DEF NodesMatch
  <2>8. Located(s)'
    BY <2>6 DEF Located
  <2> QED BY <2>4, <2>7, <2>8 DEF TreeInv
<1>8. CASE InsertDone
  <2>1. NodesMatch'
    BY <1>2, <1>8 DEF InsertDone, Return, NodesMatch
  <2> QED BY <1>1, <1>8, <2>1 DEF InsertDone, Return, TreeInv, Located
<1>9. CASE RemoveAbsent
  <2>1. at = "search" /\ z = NIL /\ call.key \in D /\ call.key \in Key
    BY <1>2, <1>9 DEF RemoveAbsent, NodesMatch
  <2>2. Searching(tree, sub, call.key, z, p, n)
    BY <1>1, <2>1 DEF Located
  <2>3. call.key \notin D
    BY <1>1, <2>1, <2>2, KeyIsAddress, SearchEnds
  <2> QED BY <2>1, <2>3
<1>10. CASE RemoveFound
  <2>1. NodesMatch'
    BY <1>2, <1>10 DEF RemoveFound, NodesMatch
  <2> QED BY <1>1, <1>10, <2>1 DEF RemoveFound, TreeInv, Located
<1>11. CASE Splay
  <2>1. /\ at = "splay" /\ z = call.key /\ z \in D /\ P(tree, z) # NIL
        /\ tree' = splay(tree, z) /\ UNCHANGED <<call, at, z, p, n, result>>
    BY <1>1, <1>2, <1>11 DEF Splay, Located, NodesMatch
  <2>2. DOMAIN tree'.node = D /\ \E s : IsTree(tree', s)
    BY <1>1, <2>1, SplayKeeps
  <2>3. NodesMatch'
    BY <1>2, <2>1, <2>2 DEF NodesMatch
  <2> QED BY <2>1, <2>2, <2>3 DEF TreeInv, Located
<1>12. CASE RemoveOuter
  <2>1. /\ at = "splay" /\ call.op = "tree_remove" /\ z = call.key /\ z \in D
        /\ z \in Rec /\ z \in Key /\ D = Rec /\ P(tree, z) = NIL
        /\ L(tree, z) = NIL \/ R(tree, z) = NIL
    BY <1>1, <1>2, <1>12 DEF RemoveOuter, Located, NodesMatch
  <2> DEFINE v == IF L(tree, z) = NIL THEN R(tree, z) ELSE L(tree, z)
  <2>2. tree' = Freed(replace(tree, z, v), z)
    BY <1>12 DEF RemoveOuter
  <2>3. \/ L(tree, z) = NIL /\ v = R(tree, z)
        \/ R(tree, z) = NIL /\ v = L(tree, z)
    BY <2>1
  <2> HIDE DEF v
  <2>4. DOMAIN tree'.node = D \ {z} /\ \E s : IsTree(tree', s)
    BY <1>1, <2>1, <2>2, <2>3, RemoveOuterKeeps
  <2>5. at' = "returned" /\ result' = call.key /\ call' = call
    BY <1>12, <2>1 DEF RemoveOuter, Return
  <2>6. NodesMatch'
    BY <1>2, <2>1, <2>4, <2>5 DEF NodesMatch
  <2> QED BY <2>4, <2>5, <2>6 DEF TreeInv, Located
<1>13. CASE RemoveInner
  <2>1. /\ at = "splay" /\ call.op = "tree_remove" /\ z = call.key /\ z \in D
        /\ P(tree, z) = NIL /\ L(tree, z) # NIL /\ R(tree, z) # NIL
        /\ at' = "minimum" /\ p' = R(tree, z)
        /\ UNCHANGED <<tree, call, z, n, result>>
    BY <1>1, <1>2, <1>13 DEF RemoveInner, Located, NodesMatch
  <2>2. Leftmost(tree, sub, z, p')
    BY <1>1, <2>1, MinimumKeeps
  <2>3. Located(sub)'
    BY <2>1, <2>2 DEF Located
  <2>4. NodesMatch'
    BY <1>2, <2>1 DEF NodesMatch
  <2> QED BY <1>1, <2>1, <2>3, <2>4 DEF TreeInv
<1>14. CASE subtree_minimum
  <2>1. /\ at = "minimum" /\ call.op = "tree_remove" /\ z = call.key /\ z \in D
        /\ P(tree, z) = NIL /\ L(tree, z) # NIL /\ R(tree, z) # NIL
        /\ Leftmost(tree, sub, z, p) /\ L(tree, p) # NIL /\ p' = L(tree, p)
        /\ UNCHANGED <<tree, call, at, z, n, result>>
    BY <1>1, <1>2, <1>14 DEF subtree_minimum, Located, NodesMatch
  <2>2. Leftmost(tree, sub, z, p')
    BY <1>1, <2>1, MinimumKeeps
  <2>3. Located(sub)'
    BY <2>1, <2>2 DEF Located
  <2>4. NodesMatch'
    BY <1>2, <2>1 DEF NodesMatch
  <2> QED BY <1>1, <2>1, <2>3, <2>4 DEF TreeInv
<1>15. CASE RemoveJoin
  <2>1. /\ at = "minimum" /\ call.op = "tree_remove" /\ z = call.key /\ z \in D
        /\ z \in Rec /\ z \in Key /\ D = Rec
        /\ P(tree, z) = NIL /\ L(tree, z) # NIL /\ R(tree, z) # NIL
        /\ Leftmost(tree, sub, z, p) /\ L(tree, p) = NIL
        /\ tree' = Freed(Join(tree, z, p), z)
    BY <1>1, <1>2, <1>15 DEF RemoveJoin, Located, NodesMatch
  <2>2. DOMAIN tree'.node = D \ {z} /\ \E s : IsTree(tree', s)
    BY <1>1, <2>1, JoinKeeps DEF Leftmost
  <2>3. at' = "returned" /\ result' = call.key /\ call' = call
    BY <1>15, <2>1 DEF RemoveJoin, Return
  <2>4. NodesMatch'
    BY <1>2, <2>1, <2>2, <2>3 DEF NodesMatch
  <2> QED BY <2>2, <2>3, <2>4 DEF TreeInv, Located
<1> QED BY <1>4, <1>5, <1>6, <1>7, <1>8, <1>9, <1>10, <1>11, <1>12, <1>13, <1>14,
           <1>15 DEF TreeStep

-----------------------------------------------------------------------------
(* The steps of add_range and remove_range, and what AnyAllocator does. *)

\* Every step is one of AnyAllocator or leaves its variables alone.
LEMMA StepImplements == ASSUME RInv, [RNext]_allvars PROVE [AnyNext]_vars
<1>1. CASE UNCHANGED allvars
  BY <1>1 DEF allvars
<1>2. ASSUME NEW lo \in Key, NEW s \in Sizes, AddRange(lo, s) PROVE AnyNext
  BY <1>2 DEF AddRange, AnyNext
<1>3. ASSUME NEW lo \in Key, RemoveRange(lo) PROVE AnyNext
  BY <1>3 DEF RemoveRange, AnyNext
<1>4. CASE TreeStep /\ UNCHANGED <<vars, size>>
  BY <1>4
<1>5. CASE AddTested
  <2>1. /\ call.key \in Key /\ size \in Sizes /\ call.key + size <= HeapLimit
        /\ result = tree_find_nearest(ranges, call.key)
    BY <1>5 DEF AddTested, Returned, RInv, NodesMatch
  <2>2. Allocate(call.key, size)
    BY <1>5, <2>1 DEF AddTested, Allocate
  <2>3. call.key \in {a \in HeapLo .. HeapLimit - 1 : a % Alignment = 0}
    BY <2>1, AddressAssumption
  <2> QED BY <2>1, <2>2, <2>3 DEF AnyNext
<1>6. CASE AddDone
  BY <1>6 DEF AddDone
<1>7. CASE RemoveDone
  <2>1. call.key \in DOMAIN ranges.tree /\ call.key \in Key /\ result = call.key
    BY <1>7 DEF RemoveDone, Returned, RInv, NodesMatch
  <2>2. Free(call.key)
    BY <1>7, <2>1 DEF RemoveDone, Free, tree_remove
  <2>3. call.key \in HeapLo .. HeapLimit - 1
    BY <2>1, KeyIsAddress DEF Address
  <2> QED BY <2>2, <2>3 DEF AnyNext
<1> QED BY <1>1, <1>2, <1>3, <1>4, <1>5, <1>6, <1>7 DEF RNext, Continue

\* The invariant is inductive.
LEMMA RStepKeeps == ASSUME RInv, [RNext]_allvars PROVE RInv'
<1>1. IInv' /\ NoFalseAlarm'
  BY StepImplements, StepKeeps DEF RInv
<1>2. PICK sub : IsTree(tree, sub) /\ Located(sub)
  BY DEF RInv, TreeInv
<1>3. NodesMatch /\ IInv
  BY DEF RInv
<1>4. CASE UNCHANGED allvars
  <2>1. NodesMatch' /\ Located(sub)' /\ IsTree(tree', sub)
    BY <1>2, <1>3, <1>4 DEF allvars, vars, treevars, NodesMatch, Located
  <2> QED BY <1>1, <2>1 DEF RInv, TreeInv
<1>5. ASSUME NEW lo \in Key, NEW s \in Sizes, lo + s <= HeapLimit, AddRange(lo, s)
      PROVE  RInv'
  <2>1. TreeInv'
    BY <1>2, <1>5, CallStarts DEF AddRange
  <2>2. NodesMatch'
    BY <1>3, <1>5 DEF AddRange, Idle, Call, Request, NodesMatch
  <2> QED BY <1>1, <2>1, <2>2 DEF RInv
<1>6. ASSUME NEW lo \in Key, RemoveRange(lo) PROVE RInv'
  <2>1. TreeInv'
    BY <1>2, <1>6, CallStarts DEF RemoveRange
  <2>2. NodesMatch'
    BY <1>3, <1>6 DEF RemoveRange, Idle, Call, Request, NodesMatch
  <2> QED BY <1>1, <2>1, <2>2 DEF RInv
<1>7. CASE TreeStep /\ UNCHANGED <<vars, size>>
  BY <1>1, <1>7, TreeStepKeeps DEF RInv
<1>8. CASE AddTested
  <2>1. /\ at = "returned" /\ call.op = "tree_find_nearest"
        /\ call.key \in Key /\ size \in Sizes
        /\ DOMAIN tree.node = DOMAIN ranges.tree
        /\ result = tree_find_nearest(ranges, call.key)
    BY <1>3, <1>8 DEF AddTested, Returned, NodesMatch
  <2>2. CASE Accepts(ranges, result, call.key, size, HeapLimit)
    <3>1. /\ ranges' = add_range(ranges, result, call.key, size, 0)
          /\ Call("tree_insert", call.key)
      BY <1>8, <2>2 DEF AddTested
    <3>2. TreeInv'
      BY <1>2, <2>1, <3>1, CallStarts
    <3>3. call.key \in Address /\ size \in Nat \ {0}
      BY <2>1, KeyIsAddress, SizesAssumption
    <3>4. /\ call.key \notin DOMAIN ranges.tree
          /\ result \in DOMAIN ranges.tree \cup {NULL}
          /\ NextOf(ranges, result) \in DOMAIN ranges.tree \cup {NULL}
      BY <1>3, <2>1, <2>2, <3>3, AcceptedApart
    <3>5. DOMAIN ranges'.tree = DOMAIN ranges.tree \cup {call.key}
      BY <1>3, <3>1, <3>3, <3>4, AddRangeFields DEF IInv
    <3>6. NodesMatch'
      BY <2>1, <3>1, <3>4, <3>5 DEF Call, NodesMatch
    <3> QED BY <1>1, <3>2, <3>6 DEF RInv
  <2>3. CASE ~ Accepts(ranges, result, call.key, size, HeapLimit)
    <3>1. UNCHANGED <<ranges, tree, at, z, p, n>> /\ call' = [op |-> "none", key |-> NIL]
      BY <1>8, <2>3 DEF AddTested, NoCall
    <3>2. NodesMatch' /\ Located(sub)' /\ IsTree(tree', sub)
      BY <1>2, <2>1, <3>1 DEF NodesMatch, Located
    <3> QED BY <1>1, <3>2 DEF RInv, TreeInv
  <2> QED BY <2>2, <2>3
<1>9. CASE AddDone
  <2>1. /\ at = "returned" /\ DOMAIN tree.node = DOMAIN ranges.tree
        /\ UNCHANGED <<ranges, tree, at>> /\ call' = [op |-> "none", key |-> NIL]
    BY <1>3, <1>9 DEF AddDone, Returned, NoCall, vars, NodesMatch
  <2>2. NodesMatch' /\ Located(sub)' /\ IsTree(tree', sub)
    BY <1>2, <2>1 DEF NodesMatch, Located
  <2> QED BY <1>1, <2>2 DEF RInv, TreeInv
<1>10. CASE RemoveDone
  <2>1. /\ at = "returned" /\ call.key \in DOMAIN ranges.tree /\ result = call.key
        /\ DOMAIN tree.node = DOMAIN ranges.tree \ {call.key}
        /\ ranges' = remove_range(ranges, call.key)
        /\ UNCHANGED <<tree, at>> /\ call' = [op |-> "none", key |-> NIL]
    BY <1>3, <1>10 DEF RemoveDone, Returned, NoCall, NodesMatch
  <2>2. DOMAIN ranges'.tree = DOMAIN ranges.tree \ {call.key}
    <3>1. /\ ranges.tree[call.key].prev \in DOMAIN ranges.tree \cup {NULL}
          /\ ranges.tree[call.key].next \in DOMAIN ranges.tree \cup {NULL}
      BY <1>3, <2>1 DEF IInv, DoublyLinked
    <3> QED BY <1>3, <2>1, <3>1, RemoveRangeFields DEF IInv
  <2>3. NodesMatch' /\ Located(sub)' /\ IsTree(tree', sub)
    BY <1>2, <2>1, <2>2 DEF NodesMatch, Located
  <2> QED BY <1>1, <2>3 DEF RInv, TreeInv
<1> QED BY <1>4, <1>5, <1>6, <1>7, <1>8, <1>9, <1>10 DEF RNext, Continue

\* The empty tree and the empty list fulfil the invariant.
LEMMA RInitially == ASSUME RInit PROVE RInv
<1> DEFINE sub == [x \in {NIL} |-> {}]
<1>1. tree.root = NIL /\ DOMAIN tree.node = {} /\ ranges = new_range_set
  BY DEF RInit, Init, TreeInit, tree_new
<1>2. IsTree(tree, sub)
  <2>1. TypedTree(tree)
    BY DEF RInit, TreeInit, tree_new, TypedTree, NIL
  <2> QED BY <1>1, <2>1 DEF IsTree, Linked, Sorted, Closed
<1>3. Located(sub)
  BY DEF RInit, TreeInit, Located
<1>4. NodesMatch
  <2>1. DOMAIN ranges.tree = {}
    BY <1>1 DEF new_range_set
  <2> QED BY <1>1, <2>1 DEF RInit, TreeInit, NodesMatch
<1>5. IInv /\ NoFalseAlarm
  BY Initially DEF RInit
<1> HIDE DEF sub
<1> QED BY <1>2, <1>3, <1>4, <1>5 DEF RInv, TreeInv

\* The invariant of the range set on the splay tree.
LEMMA RInvariant == RSpec => []RInv
<1>1. RInit => RInv
  BY RInitially
<1>2. RInv /\ [RNext]_allvars => RInv'
  BY RStepKeeps
<1> QED BY <1>1, <1>2, PTL DEF RSpec

\* With the splay tree the range set does what AnyAllocator says with a finite
\* map: for any set of addresses and any sequence of calls, whatever the rotations
\* have made of the tree, a search finds the nearest record and a removal its own.
THEOREM FiniteMapImplemented == RSpec => ImplementsFiniteMap
<1>1. RInit => Init
  BY DEF RInit
<1>2. RInv /\ [RNext]_allvars => [AnyNext]_vars
  BY StepImplements
<1> QED BY <1>1, <1>2, RInvariant, PTL DEF RSpec, Spec, ImplementsFiniteMap

\* Between calls the nodes are those of the recorded blocks and form a search tree
\* whose pointers agree: splay, insertion and removal (stree.c) never lose a
\* node, hang one twice or leave a parent pointer behind.
THEOREM TreeCorrect == RSpec => []SearchTree
<1>1. RInv => SearchTree
  <2> SUFFICES ASSUME RInv, Idle PROVE SearchTree
    BY DEF SearchTree
  <2> DEFINE D == DOMAIN tree.node
  <2>1. D = DOMAIN ranges.tree
    BY DEF RInv, NodesMatch, Idle
  <2>2. PICK sub : IsTree(tree, sub)
    BY DEF RInv, TreeInv
  <2>3. /\ D \subseteq Nat \ {0} /\ NIL \notin D /\ tree.root \in D \cup {NIL}
        /\ sub[NIL] = {} /\ sub[tree.root] = D
        /\ \A x \in D : /\ sub[x] = {x} \cup sub[L(tree, x)] \cup sub[R(tree, x)]
                        /\ \A k \in sub[L(tree, x)] : k < x
                        /\ \A k \in sub[R(tree, x)] : x < k
        /\ \A x \in D :
             /\ L(tree, x) \in D \cup {NIL} /\ R(tree, x) \in D \cup {NIL}
             /\ L(tree, x) # NIL => P(tree, L(tree, x)) = x
             /\ R(tree, x) # NIL => P(tree, R(tree, x)) = x
             /\ P(tree, x) = NIL <=> x = tree.root
             /\ P(tree, x) # NIL => x \in {L(tree, P(tree, x)), R(tree, P(tree, x))}
    BY <2>2 DEF IsTree, TypedTree, Linked, Sorted, NIL
  <2>4. tree.root = NIL <=> D = {}
    BY <2>3
  <2>5. ASSUME NEW x \in D
        PROVE  /\ L(tree, x) # NIL => L(tree, x) < x /\ P(tree, L(tree, x)) = x
               /\ R(tree, x) # NIL => R(tree, x) > x /\ P(tree, R(tree, x)) = x
               /\ IF x = tree.root THEN P(tree, x) = NIL
                  ELSE x \in {L(tree, P(tree, x)), R(tree, P(tree, x))}
    <3>1. L(tree, x) # NIL => L(tree, x) \in sub[L(tree, x)]
      BY <2>3
    <3>2. R(tree, x) # NIL => R(tree, x) \in sub[R(tree, x)] /\ R(tree, x) \in Nat
      BY <2>3
    <3>3. x \in Nat
      BY <2>3
    <3>4. R(tree, x) # NIL => x < R(tree, x)
      BY <3>2, <2>3
    <3> QED BY <2>3, <3>1, <3>2, <3>3, <3>4
  <2> QED BY <2>1, <2>4, <2>5 DEF SearchTree
<1> QED BY <1>1, RInvariant, PTL

\* The list of the records keeps its links mirrored with the splay tree in place
\* of the map.
THEOREM LinksCorrectOnTree == RSpec => []DoublyLinked
BY FiniteMapImplemented, LinksCorrect, PTL DEF ImplementsFiniteMap

\* With the splay tree, too, what add_range refuses overlaps a recorded block.
THEOREM AlarmsJustifiedOnTree == RSpec => []NoFalseAlarm
BY FiniteMapImplemented, AlarmsJustified, PTL DEF ImplementsFiniteMap

=============================================================================
