--------------------------- MODULE SimulatorProofs ---------------------------
(***************************************************************************)
(* Proofs about the lists of Gll.tla and about Simulator.tla on them: for  *)
(* any processes, traces and times every list is the sequence it stands    *)
(* for, every process is in one place and charged what it executed, and    *)
(* the times that are printed add up.                                      *)
(***************************************************************************)
EXTENDS Simulator, FiniteSetTheorems, SequenceTheorems, TLAPS

-----------------------------------------------------------------------------
(* Induction *)

\* A nonempty set of natural numbers has a least element, < being well founded.
LEMMA LeastNatural ==
    ASSUME NEW S \in SUBSET Nat, S # {}
    PROVE  \E m \in S : \A k \in S : m <= k
<1> DEFINE Less == OpToRel(<, Nat)
<1>1. IsWellFoundedOn(Less, Nat)
  BY NatLessThanWellFounded, Zenon
<1>2. \A k, m \in Nat : k < m => <<k, m>> \in Less
  BY DEF OpToRel
<1> HIDE DEF Less
<1>3. PICK m \in S : \A k \in S : ~ (<<k, m>> \in Less)
  BY <1>1, WFMin
<1>4. \A k \in S : ~ (k < m)
  BY <1>2, <1>3
<1> QED BY <1>4

\* A set with 0 in it, and each number whose predecessor is in it, has all numbers.
LEMMA SetInduction ==
    ASSUME NEW S, 0 \in S, \A n \in Nat \ {0} : n - 1 \in S => n \in S
    PROVE  \A n \in Nat : n \in S
<1> DEFINE D == {n \in Nat : n \notin S}
<1>1. CASE D # {}
  <2>1. PICK m \in D : \A k \in D : m <= k
    BY <1>1, LeastNatural
  <2>2. m \in Nat \ {0} /\ m \notin S
    BY <2>1
  <2>3. m - 1 \in Nat /\ ~ (m <= m - 1)
    BY <2>2
  <2>4. m - 1 \in S
    BY <2>1, <2>3
  <2> QED BY <2>2, <2>4
<1> QED BY <1>1

-----------------------------------------------------------------------------
(* A list and its nodes *)

\* The k-th node of s, and Nil at the places next to its ends.
Place(s, k) == IF k \in 1 .. Len(s) THEN s[k] ELSE Nil

ListNode(V) == [data : V, prev : Nat, next : Nat]

\* The nodes of the list are those of s, in this order, with data in V.
Chain(V, list, s) ==
    /\ list = [size |-> list.size, first |-> list.first, last |-> list.last, node |-> list.node]
    /\ s \in Seq(Nat \ {Nil}) /\ list.size = Len(s)
    /\ \A j, k \in 1 .. Len(s) : s[j] = s[k] => j = k
    /\ DOMAIN list.node = {s[k] : k \in 1 .. Len(s)}
    /\ list.node \in [DOMAIN list.node -> ListNode(V)]
    /\ \A k \in 1 .. Len(s) : /\ list.node[s[k]].prev = Place(s, k - 1)
                              /\ list.node[s[k]].next = Place(s, k + 1)
    /\ list.first = Place(s, 1) /\ list.last = Place(s, Len(s))

\* at gives the nodes that a walk along field meets.
Met(list, from, field, count, at) ==
    at = [k \in 0 .. count |->
            IF k = 0 THEN from
            ELSE LET n == at[k - 1] IN IF n = Nil THEN Nil ELSE list.node[n][field]]

\* A walk whose nodes are known.
LEMMA Followed ==
    ASSUME NEW list, NEW from, NEW field, NEW count \in Nat, NEW g,
           g[0] = from,
           \A k \in 1 .. count : g[k] = IF g[k - 1] = Nil THEN Nil ELSE list.node[g[k - 1]][field]
    PROVE  Follow(list, from, field, count) = [k \in 1 .. count |-> g[k - 1]]
<1> DEFINE h == [k \in 0 .. count |-> g[k]]
           at == CHOOSE f : Met(list, from, field, count, f)
<1>1. Met(list, from, field, count, h)
  <2>1. ASSUME NEW k \in 0 .. count
        PROVE  h[k] = IF k = 0 THEN from
                      ELSE LET n == h[k - 1] IN IF n = Nil THEN Nil ELSE list.node[n][field]
    <3>1. CASE k = 0
      BY <3>1
    <3>2. CASE k # 0
      <4>1. k \in 1 .. count /\ k - 1 \in 0 .. count
        BY <3>2
      <4> QED BY <3>2, <4>1
    <3> QED BY <3>1, <3>2
  <2> QED BY <2>1 DEF Met
<1>2. Met(list, from, field, count, at)
  BY <1>1
<1>3. Follow(list, from, field, count) = [k \in 1 .. count |-> at[k - 1]]
  BY DEF Follow, Met
<1> HIDE DEF at
<1> DEFINE P == {k \in Nat : k <= count => at[k] = g[k]}
<1>4. 0 \in P
  BY <1>2 DEF Met
<1>5. ASSUME NEW k \in Nat \ {0}, k - 1 \in P PROVE k \in P
  <2>1. CASE k <= count
    <3>1. k \in 1 .. count /\ k \in 0 .. count /\ k - 1 <= count
      BY <2>1
    <3>2. at[k - 1] = g[k - 1]
      BY <1>5, <3>1
    <3>3. at[k] = IF at[k - 1] = Nil THEN Nil ELSE list.node[at[k - 1]][field]
      BY <1>2, <3>1 DEF Met
    <3> QED BY <3>1, <3>2, <3>3
  <2> QED BY <2>1
<1>6. \A k \in Nat : k \in P
  <2> HIDE DEF P
  <2> QED BY <1>4, <1>5, SetInduction
<1>7. \A k \in 1 .. count : k - 1 \in P /\ k - 1 <= count
  BY <1>6
<1> QED BY <1>3, <1>7

\* What a walk of count nodes meets that goes through s, and one from its end.
Onward(s, count)   == [k \in 1 .. count |-> Place(s, k)]
Backward(s, count) == [k \in 1 .. count |-> Place(s, Len(s) + 1 - k)]

\* The walk from the first node along next goes through s, and then through Nil; so does
\* the walk from the last node along prev through s backwards.
LEMMA Walks ==
    ASSUME NEW V, NEW list, NEW s, Chain(V, list, s), NEW count \in Nat
    PROVE  /\ Follow(list, list.first, "next", count) = Onward(s, count)
           /\ Follow(list, list.last, "prev", count) = Backward(s, count)
<1> DEFINE n == Len(s)
<1>1. n \in Nat /\ \A k \in 1 .. n : s[k] \in Nat \ {Nil}
  BY LenProperties, ElementOfSeq DEF Chain
<1>2. Follow(list, list.first, "next", count) = [k \in 1 .. count |-> Place(s, k)]
  <2> DEFINE g == [k \in Nat |-> Place(s, k + 1)]
  <2>1. g[0] = list.first
    BY DEF Chain
  <2>2. ASSUME NEW k \in 1 .. count
        PROVE  g[k] = IF g[k - 1] = Nil THEN Nil ELSE list.node[g[k - 1]]["next"]
    <3>1. g[k] = Place(s, k + 1) /\ g[k - 1] = Place(s, k)
      BY <2>1
    <3>2. CASE k \in 1 .. n
      BY <1>1, <3>1, <3>2 DEF Chain, Place
    <3>3. CASE k \notin 1 .. n
      BY <1>1, <3>1, <3>3 DEF Place
    <3> QED BY <3>2, <3>3
  <2> HIDE DEF g
  <2>3. Follow(list, list.first, "next", count) = [k \in 1 .. count |-> g[k - 1]]
    BY <2>1, <2>2, Followed
  <2>4. \A k \in 1 .. count : g[k - 1] = Place(s, k)
    BY DEF g
  <2> QED BY <2>3, <2>4
<1>3. Follow(list, list.last, "prev", count) = [k \in 1 .. count |-> Place(s, n + 1 - k)]
  <2> DEFINE g == [k \in Nat |-> Place(s, n - k)]
  <2>1. g[0] = list.last
    BY <1>1 DEF Chain
  <2>2. ASSUME NEW k \in 1 .. count
        PROVE  g[k] = IF g[k - 1] = Nil THEN Nil ELSE list.node[g[k - 1]]["prev"]
    <3>1. g[k] = Place(s, n - k) /\ g[k - 1] = Place(s, n + 1 - k)
      BY <1>1
    <3>2. CASE n + 1 - k \in 1 .. n
      <4> DEFINE m == n + 1 - k
      <4>1. m \in 1 .. n /\ m - 1 = n - k /\ s[m] # Nil /\ Place(s, m) = s[m]
        BY <1>1, <3>2 DEF Place
      <4>2. list.node[s[m]].prev = Place(s, m - 1)
        BY <4>1 DEF Chain
      <4> HIDE DEF m
      <4> QED BY <3>1, <4>1, <4>2 DEF m
    <3>3. CASE n + 1 - k \notin 1 .. n
      <4>1. n - k \notin 1 .. n
        BY <1>1, <3>3
      <4> QED BY <1>1, <3>1, <3>3, <4>1 DEF Place
    <3> QED BY <3>2, <3>3
  <2> HIDE DEF g
  <2>3. Follow(list, list.last, "prev", count) = [k \in 1 .. count |-> g[k - 1]]
    BY <2>1, <2>2, Followed
  <2>4. \A k \in 1 .. count : g[k - 1] = Place(s, n + 1 - k)
    BY <1>1 DEF g
  <2> QED BY <2>3, <2>4
<1> QED BY <1>2, <1>3 DEF Onward, Backward

\* The nodes of a list and its data.
LEMMA ChainData ==
    ASSUME NEW V, NEW list, NEW s, Chain(V, list, s)
    PROVE  /\ Nodes(list) = s /\ list.size = Len(s) /\ Len(s) \in Nat
           /\ Data(list) = [k \in 1 .. Len(s) |-> list.node[s[k]].data]
           /\ Data(list) \in Seq(V) /\ Len(Data(list)) = Len(s)
<1>1. Len(s) \in Nat /\ s \in Seq(Nat \ {Nil}) /\ DOMAIN s = 1 .. Len(s) /\ list.size = Len(s)
      /\ \A k \in 1 .. Len(s) : s[k] \in Nat \ {Nil}
  BY LenProperties, ElementOfSeq DEF Chain
<1>2. Nodes(list) = Onward(s, Len(s))
  <2>1. \A n \in Nat : Follow(list, list.first, "next", n) = Onward(s, n)
    BY Walks
  <2> QED BY <1>1, <2>1 DEF Nodes
<1>3. Nodes(list) = s
  <2>1. \A k \in 1 .. Len(s) : Place(s, k) = s[k]
    BY DEF Place
  <2>2. s = [k \in 1 .. Len(s) |-> s[k]]
    BY <1>1
  <2> QED BY <1>2, <2>1, <2>2 DEF Onward
<1>4. Data(list) = [k \in 1 .. Len(s) |-> list.node[s[k]].data]
  BY <1>1, <1>3 DEF Data, DataOf, DataAt
<1>5. Data(list) \in [1 .. Len(s) -> V]
  <2>1. \A k \in 1 .. Len(s) : list.node[s[k]] \in ListNode(V)
    BY DEF Chain
  <2>2. \A k \in 1 .. Len(s) : list.node[s[k]].data \in V
    BY <2>1 DEF ListNode
  <2> QED BY <1>4, <2>2
<1>6. Data(list) \in Seq(V) /\ Len(Data(list)) = Len(s)
  BY <1>1, <1>5
<1> QED BY <1>1, <1>3, <1>4, <1>6

\* There is a number for a new node.
LEMMA FreshIs ==
    ASSUME NEW V, NEW list, NEW s, Chain(V, list, s)
    PROVE  Fresh(list) \in Nat \ {Nil} /\ Fresh(list) \notin DOMAIN list.node
<1> DEFINE n == Len(s)
           D == DOMAIN list.node
<1>1. n \in Nat /\ list.size = n
  BY ChainData
<1>2. IsFiniteSet(D) /\ Cardinality(D) <= n
  <2> DEFINE f == [k \in 1 .. n |-> s[k]]
  <2>1. D = {s[k] : k \in 1 .. n}
    BY DEF Chain
  <2>2. f \in Surjection(1 .. n, D)
    BY <2>1 DEF Surjection
  <2>3. IsFiniteSet(1 .. n) /\ Cardinality(1 .. n) = n
    <3> HIDE DEF n
    <3> QED BY <1>1, FS_Interval
  <2> HIDE DEF f, D
  <2>4. IsFiniteSet(D) /\ Cardinality(D) <= Cardinality(1 .. n)
    BY <2>2, <2>3, FS_Surjection
  <2> QED BY <2>3, <2>4
<1>3. \E m \in 1 .. n + 1 : m \notin D
  <2>1. SUFFICES ASSUME 1 .. n + 1 \subseteq D PROVE FALSE
    OBVIOUS
  <2>2. IsFiniteSet(1 .. n + 1) /\ Cardinality(1 .. n + 1) = n + 1
    BY <1>1, FS_Interval
  <2> HIDE DEF D, n
  <2>3. Cardinality(1 .. n + 1) <= Cardinality(D)
    BY <1>2, <2>1, FS_Subset
  <2>4. Cardinality(D) \in Nat
    BY <1>2, FS_CardinalityType
  <2> QED BY <1>1, <1>2, <2>2, <2>3, <2>4
<1> QED BY <1>1, <1>3 DEF Fresh, Nil

\* t is s with x in front of its q-th element or, for the next place, behind it.
Inserted(t, s, q, x) ==
    /\ Len(t) = Len(s) + 1
    /\ \A k \in 1 .. Len(s) + 1 : t[k] = IF k < q THEN s[k] ELSE IF k = q THEN x ELSE s[k - 1]

\* t is s without its q-th element.
Without(t, s, q) ==
    /\ Len(t) = Len(s) - 1
    /\ \A k \in 1 .. Len(s) - 1 : t[k] = IF k < q THEN s[k] ELSE s[k + 1]

\* An element comes in before the q-th of a sequence, or to its end.
LEMMA InsertAtIs ==
    ASSUME NEW S, NEW s \in Seq(S), NEW q \in 1 .. Len(s) + 1, NEW x \in S
    PROVE  InsertAt(s, q, x) \in Seq(S) /\ Inserted(InsertAt(s, q, x), s, q, x)
<1> DEFINE a == SubSeq(s, 1, q - 1)
           b == <<x>>
           c == SubSeq(s, q, Len(s))
<1>1. Len(s) \in Nat
  BY LenProperties
<1>2. /\ a \in Seq(S) /\ Len(a) = q - 1 /\ \A k \in 1 .. q - 1 : a[k] = s[k]
      /\ b \in Seq(S) /\ Len(b) = 1 /\ b[1] = x
      /\ c \in Seq(S) /\ Len(c) = Len(s) + 1 - q
      /\ \A k \in 1 .. Len(s) + 1 - q : c[k] = s[q + k - 1]
  BY <1>1
<1> HIDE DEF a, b, c
<1>3. /\ a \o b \in Seq(S) /\ Len(a \o b) = q
      /\ \A k \in 1 .. q : (a \o b)[k] = IF k < q THEN s[k] ELSE x
  <2>1. a \o b \in Seq(S) /\ Len(a \o b) = Len(a) + Len(b)
        /\ \A k \in 1 .. Len(a) + Len(b) : (a \o b)[k] = IF k <= Len(a) THEN a[k] ELSE b[k - Len(a)]
    BY <1>2, ConcatProperties
  <2> QED BY <1>1, <1>2, <2>1
<1>4. /\ a \o b \o c \in Seq(S) /\ Len(a \o b \o c) = Len(s) + 1
      /\ \A k \in 1 .. Len(s) + 1 : (a \o b \o c)[k] = IF k <= q THEN (a \o b)[k] ELSE c[k - q]
  <2>1. (a \o b) \o c \in Seq(S) /\ Len((a \o b) \o c) = Len(a \o b) + Len(c)
        /\ \A k \in 1 .. Len(a \o b) + Len(c) :
             ((a \o b) \o c)[k] = IF k <= Len(a \o b) THEN (a \o b)[k] ELSE c[k - Len(a \o b)]
    BY <1>2, <1>3, ConcatProperties
  <2> QED BY <1>1, <1>2, <1>3, <2>1
<1>5. InsertAt(s, q, x) = a \o b \o c
  BY DEF InsertAt, a, b, c
<1>6. ASSUME NEW k \in 1 .. Len(s) + 1
      PROVE  InsertAt(s, q, x)[k] = IF k < q THEN s[k] ELSE IF k = q THEN x ELSE s[k - 1]
  <2>1. CASE k <= q
    BY <1>1, <1>3, <1>4, <1>5, <2>1
  <2>2. CASE ~ (k <= q)
    <3> DEFINE j == k - q
    <3>1. j \in 1 .. Len(s) + 1 - q /\ q + j - 1 = k - 1
      BY <1>1, <2>2
    <3>2. (a \o b \o c)[k] = c[j]
      BY <1>4, <2>2
    <3> HIDE DEF j
    <3>3. c[j] = s[q + j - 1]
      BY <1>2, <3>1
    <3> QED BY <1>5, <2>2, <3>1, <3>2, <3>3
  <2> QED BY <2>1, <2>2
<1> QED BY <1>4, <1>5, <1>6 DEF Inserted

\* An element that comes in at the end is appended.
LEMMA InsertAtEnd ==
    ASSUME NEW S, NEW s \in Seq(S), NEW x \in S, NEW q, q = Len(s) + 1
    PROVE  InsertAt(s, q, x) = Append(s, x)
<1> DEFINE t == InsertAt(s, q, x)
           r == Append(s, x)
<1>1. Len(s) \in Nat /\ q \in 1 .. Len(s) + 1
  BY LenProperties
<1>2. t \in Seq(S) /\ Inserted(t, s, q, x)
  BY <1>1, InsertAtIs
<1>3. r \in Seq(S) /\ Len(r) = Len(s) + 1
      /\ \A k \in 1 .. Len(s) + 1 : r[k] = IF k = Len(s) + 1 THEN x ELSE s[k]
  BY <1>1
<1> HIDE DEF t, r
<1>4. t \in Seq(S) /\ r \in Seq(S) /\ Len(t) = Len(r) /\ \A k \in 1 .. Len(t) : t[k] = r[k]
  BY <1>1, <1>2, <1>3 DEF Inserted
<1>5. t = r
  BY <1>4, SeqEqual
<1> QED BY <1>5 DEF t, r

\* The q-th element of a sequence goes.
LEMMA RemoveAtIs ==
    ASSUME NEW S, NEW s \in Seq(S), NEW q \in 1 .. Len(s)
    PROVE  RemoveAt(s, q) \in Seq(S) /\ Without(RemoveAt(s, q), s, q)
<1> DEFINE a == SubSeq(s, 1, q - 1)
           c == SubSeq(s, q + 1, Len(s))
<1>1. Len(s) \in Nat
  BY LenProperties
<1>2. /\ a \in Seq(S) /\ Len(a) = q - 1 /\ \A k \in 1 .. q - 1 : a[k] = s[k]
      /\ c \in Seq(S) /\ Len(c) = Len(s) - q
      /\ \A k \in 1 .. Len(s) - q : c[k] = s[q + k]
  BY <1>1
<1> HIDE DEF a, c
<1>3. /\ a \o c \in Seq(S) /\ Len(a \o c) = Len(a) + Len(c)
      /\ \A k \in 1 .. Len(a) + Len(c) : (a \o c)[k] = IF k <= Len(a) THEN a[k] ELSE c[k - Len(a)]
  BY <1>2, ConcatProperties
<1>4. RemoveAt(s, q) = a \o c
  BY DEF RemoveAt, a, c
<1>5. ASSUME NEW k \in 1 .. Len(s) - 1
      PROVE  (a \o c)[k] = IF k < q THEN s[k] ELSE s[k + 1]
  <2>1. CASE k < q
    BY <1>1, <1>2, <1>3, <2>1
  <2>2. CASE ~ (k < q)
    <3> DEFINE j == k - (q - 1)
    <3>1. j \in 1 .. Len(s) - q /\ q + j = k + 1
      BY <1>1, <2>2
    <3>2. (a \o c)[k] = c[j]
      BY <1>1, <1>2, <1>3, <2>2
    <3> HIDE DEF j
    <3>3. c[j] = s[q + j]
      BY <1>2, <3>1
    <3> QED BY <2>2, <3>1, <3>2, <3>3
  <2> QED BY <2>1, <2>2
<1> QED BY <1>1, <1>2, <1>3, <1>4, <1>5 DEF Without

\* u has a new node n with data x, in front of the q-th of the list or behind all.
AddedAt(V, list, s, q, n, x, u) ==
    /\ u = [size |-> Len(s) + 1, first |-> u.first, last |-> u.last, node |-> u.node]
    /\ u.first = IF q = 1 THEN n ELSE list.first
    /\ u.last = IF q = Len(s) + 1 THEN n ELSE list.last
    /\ DOMAIN u.node = DOMAIN list.node \cup {n}
    /\ u.node[n] = [data |-> x, prev |-> Place(s, q - 1), next |-> Place(s, q)]
    /\ \A m \in DOMAIN list.node :
         /\ u.node[m] \in ListNode(V) /\ u.node[m].data = list.node[m].data
         /\ u.node[m].prev = IF m = Place(s, q) THEN n ELSE list.node[m].prev
         /\ u.node[m].next = IF m = Place(s, q - 1) THEN n ELSE list.node[m].next

\* Then it has the nodes of s and n among them.
LEMMA Added ==
    ASSUME NEW V, NEW list, NEW s, Chain(V, list, s), NEW q \in 1 .. Len(s) + 1,
           NEW n \in Nat \ {Nil}, n \notin DOMAIN list.node, NEW x \in V,
           NEW u, u.node = [m \in DOMAIN u.node |-> u.node[m]], AddedAt(V, list, s, q, n, x, u)
    PROVE  Chain(V, u, InsertAt(s, q, n)) /\ Data(u) = InsertAt(Data(list), q, x)
<1> DEFINE L == Len(s)
           t == InsertAt(s, q, n)
<1>1. /\ L \in Nat /\ q \in 1 .. L + 1 /\ s \in Seq(Nat \ {Nil})
      /\ \A k \in 1 .. L : s[k] \in Nat \ {Nil}
      /\ DOMAIN list.node = {s[k] : k \in 1 .. L}
      /\ \A j, k \in 1 .. L : s[j] = s[k] => j = k
  BY LenProperties, ElementOfSeq DEF Chain
<1>2. /\ t \in Seq(Nat \ {Nil}) /\ Len(t) = L + 1
      /\ \A k \in 1 .. L + 1 : t[k] = IF k < q THEN s[k] ELSE IF k = q THEN n ELSE s[k - 1]
  <2> HIDE DEF t
  <2>1. t \in Seq(Nat \ {Nil}) /\ Inserted(t, s, q, n)
    BY <1>1, InsertAtIs DEF t
  <2> QED BY <2>1 DEF Inserted
<1> HIDE DEF t
<1>3. \A k \in 1 .. L : s[k] # n
  BY <1>1
<1>4. \A k \in Int : Place(t, k) = IF k < q THEN Place(s, k) ELSE IF k = q THEN n ELSE Place(s, k - 1)
  BY SMTT(30), <1>1, <1>2 DEF Place
<1>5. \A j, k \in 1 .. L + 1 : t[j] = t[k] => j = k
  <2>1. ASSUME NEW j \in 1 .. L + 1, NEW k \in 1 .. L + 1, j < k PROVE t[j] # t[k]
    <3> HIDE DEF L
    <3>1. CASE k < q
      <4>1. j \in 1 .. L /\ k \in 1 .. L /\ t[j] = s[j] /\ t[k] = s[k]
        BY <1>1, <1>2, <2>1, <3>1
      <4> QED BY <1>1, <2>1, <4>1
    <3>2. CASE k = q
      <4>1. j \in 1 .. L /\ t[j] = s[j] /\ t[k] = n
        BY <1>1, <1>2, <2>1, <3>2
      <4> QED BY <1>3, <4>1
    <3>3. CASE k > q
      <4>1. k - 1 \in 1 .. L /\ t[k] = s[k - 1]
        BY <1>1, <1>2, <3>3
      <4>2. CASE j < q
        <5>1. j \in 1 .. L /\ t[j] = s[j] /\ j # k - 1
          BY <1>1, <1>2, <3>3, <4>2
        <5> QED BY <1>1, <4>1, <5>1
      <4>3. CASE j = q
        <5>1. t[j] = n
          BY <1>2, <4>3
        <5> QED BY <1>3, <4>1, <5>1
      <4>4. CASE j > q
        <5>1. j - 1 \in 1 .. L /\ ~ (j < q) /\ j # q /\ j - 1 # k - 1
          BY <1>1, <2>1, <4>4
        <5>2. t[j] = s[j - 1]
          BY <1>2, <2>1, <5>1
        <5> QED BY <1>1, <4>1, <5>1, <5>2
      <4> QED BY <1>1, <4>2, <4>3, <4>4
    <3> QED BY <1>1, <3>1, <3>2, <3>3
  <2> QED BY SMTT(30), <1>1, <2>1
<1>6. DOMAIN u.node = {t[k] : k \in 1 .. L + 1}
  <2>1. ASSUME NEW m \in DOMAIN u.node PROVE \E k \in 1 .. L + 1 : t[k] = m
    <3>1. CASE m = n
      <4>1. q \in 1 .. L + 1 /\ ~ (q < q)
        BY <1>1
      <4>2. t[q] = n
        BY <1>2, <4>1
      <4> QED BY <3>1, <4>1, <4>2
    <3>2. CASE m # n
      <4>1. PICK k \in 1 .. L : m = s[k]
        BY <1>1, <2>1, <3>2 DEF AddedAt
      <4>2. CASE k < q
        BY <1>1, <1>2, <4>1, <4>2
      <4>3. CASE ~ (k < q)
        <5>1. k + 1 \in 1 .. L + 1 /\ ~ (k + 1 < q) /\ k + 1 # q /\ k + 1 - 1 = k
          BY <1>1, <4>3
        <5>2. t[k + 1] = s[k]
          BY <1>2, <5>1
        <5> QED BY <4>1, <5>1, <5>2
      <4> QED BY <4>2, <4>3
    <3> QED BY <3>1, <3>2
  <2>2. ASSUME NEW k \in 1 .. L + 1 PROVE t[k] \in DOMAIN u.node
    <3>1. k < q => k \in 1 .. L
      BY <1>1
    <3>2. k > q => k - 1 \in 1 .. L
      BY <1>1
    <3> QED BY SMTT(30), <1>1, <1>2, <3>1, <3>2 DEF AddedAt
  <2> DEFINE D == DOMAIN u.node
             N == 1 .. L + 1
  <2>3. (\A m \in D : \E k \in N : t[k] = m) /\ \A k \in N : t[k] \in D
    BY <2>1, <2>2
  <2> HIDE DEF D, N
  <2>4. D = {t[k] : k \in N}
    BY <2>3
  <2> QED BY <2>4 DEF D, N
<1>7. u.node \in [DOMAIN u.node -> ListNode(V)]
  <2>1. u.node[n] \in ListNode(V)
    <3>1. Place(s, q - 1) \in Nat /\ Place(s, q) \in Nat
      BY <1>1 DEF Place, Nil
    <3> QED BY <3>1 DEF AddedAt, ListNode
  <2>2. \A m \in DOMAIN u.node : u.node[m] \in ListNode(V)
    BY <2>1 DEF AddedAt
  <2> QED BY <2>2
<1>8. ASSUME NEW k \in 1 .. L
      PROVE  /\ s[k] \in DOMAIN list.node /\ list.node[s[k]].prev = Place(s, k - 1)
             /\ list.node[s[k]].next = Place(s, k + 1)
             /\ s[k] = Place(s, q) <=> k = q
             /\ s[k] = Place(s, q - 1) <=> k = q - 1
             /\ u.node[s[k]].prev = IF k = q THEN n ELSE Place(s, k - 1)
             /\ u.node[s[k]].next = IF k = q - 1 THEN n ELSE Place(s, k + 1)
  <2>1. /\ s[k] \in DOMAIN list.node /\ list.node[s[k]].prev = Place(s, k - 1)
        /\ list.node[s[k]].next = Place(s, k + 1)
    BY DEF Chain
  <2>2. s[k] = Place(s, q) <=> k = q
    BY <1>1 DEF Place
  <2>3. s[k] = Place(s, q - 1) <=> k = q - 1
    BY <1>1 DEF Place
  <2> QED BY <2>1, <2>2, <2>3 DEF AddedAt
<1>9. ASSUME NEW k \in 1 .. L + 1
      PROVE  u.node[t[k]].prev = Place(t, k - 1) /\ u.node[t[k]].next = Place(t, k + 1)
  <2>1. CASE k < q
    <3>1. k \in 1 .. L /\ t[k] = s[k] /\ k # q /\ k - 1 \in Int /\ k + 1 \in Int /\ k - 1 < q
      <4>1. t[k] = s[k]
        BY <1>2, <2>1
      <4>2. k \in 1 .. L /\ k # q /\ k - 1 \in Int /\ k + 1 \in Int /\ k - 1 < q
        BY <1>1, <2>1
      <4> QED BY <4>1, <4>2
    <3>2. Place(t, k - 1) = Place(s, k - 1)
      BY <1>4, <3>1
    <3>3. Place(t, k + 1) = IF k = q - 1 THEN n ELSE Place(s, k + 1)
      BY <1>1, <1>4, <2>1
    <3> QED BY <1>8, <3>1, <3>2, <3>3
  <2>2. CASE k = q
    <3>1. t[k] = n
      BY <1>2, <2>2
    <3>2. Place(t, k - 1) = Place(s, q - 1) /\ Place(t, k + 1) = Place(s, q)
      <4>1. q - 1 \in Int /\ q + 1 \in Int /\ q - 1 < q /\ ~ (q + 1 < q) /\ q + 1 # q /\ q + 1 - 1 = q
        BY <1>1
      <4> QED BY <1>4, <2>2, <4>1
    <3> QED BY <3>1, <3>2 DEF AddedAt
  <2>3. CASE k > q
    <3> DEFINE j == k - 1
    <3>1. j \in 1 .. L /\ t[k] = s[j] /\ j # q - 1 /\ k = j + 1
      <4>1. j \in 1 .. L /\ ~ (k < q) /\ k # q /\ j # q - 1 /\ k = j + 1
        BY <1>1, <2>3
      <4> QED BY <1>2, <4>1
    <3>2. Place(t, k - 1) = IF j = q THEN n ELSE Place(s, j - 1)
      BY <1>1, <1>4, <2>3
    <3>3. Place(t, k + 1) = Place(s, j + 1)
      <4>1. k + 1 \in Int /\ ~ (k + 1 < q) /\ k + 1 # q /\ k + 1 - 1 = j + 1
        BY <1>1, <2>3
      <4> QED BY <1>4, <4>1
    <3> HIDE DEF j
    <3> QED BY <1>8, <3>1, <3>2, <3>3
  <2> QED BY <1>1, <2>1, <2>2, <2>3
<1>10. u.first = Place(t, 1) /\ u.last = Place(t, Len(t))
  <2>1. Place(t, 1) = IF q = 1 THEN n ELSE Place(s, 1)
    <3>1. 1 < q \/ q = 1
      BY <1>1
    <3> QED BY <1>4, <3>1
  <2>2. Place(t, L + 1) = IF q = L + 1 THEN n ELSE Place(s, L)
    <3>1. L + 1 \in Int /\ ~ (L + 1 < q) /\ L + 1 - 1 = L
      BY <1>1
    <3> QED BY <1>4, <3>1
  <2> QED BY <1>2, <2>1, <2>2 DEF AddedAt, Chain
<1>11. Chain(V, u, t)
  <2>1. u = [size |-> u.size, first |-> u.first, last |-> u.last, node |-> u.node] /\ u.size = Len(t)
    BY <1>2 DEF AddedAt
  <2> QED BY <1>2, <1>5, <1>6, <1>7, <1>9, <1>10, <2>1 DEF Chain
<1>12. Data(u) = InsertAt(Data(list), q, x)
  <2> DEFINE d == Data(list)
             e == InsertAt(d, q, x)
  <2>1. d \in Seq(V) /\ Len(d) = L /\ \A k \in 1 .. L : d[k] = list.node[s[k]].data
    BY ChainData
  <2> HIDE DEF d
  <2>2. q \in 1 .. Len(d) + 1
    BY <2>1
  <2>3. /\ e \in Seq(V) /\ Len(e) = L + 1
        /\ \A k \in 1 .. L + 1 : e[k] = IF k < q THEN d[k] ELSE IF k = q THEN x ELSE d[k - 1]
    <3> HIDE DEF e
    <3>1. e \in Seq(V) /\ Inserted(e, d, q, x)
      BY <2>1, <2>2, InsertAtIs DEF e
    <3> QED BY <2>1, <3>1 DEF Inserted
  <2> HIDE DEF e
  <2>4. Data(u) \in Seq(V) /\ Len(Data(u)) = L + 1 /\ \A k \in 1 .. L + 1 : Data(u)[k] = u.node[t[k]].data
    BY <1>2, <1>11, ChainData
  <2>5. \A k \in 1 .. L : u.node[s[k]].data = d[k]
    BY <1>8, <2>1 DEF AddedAt
  <2>6. u.node[n].data = x
    BY DEF AddedAt
  <2>7. ASSUME NEW k \in 1 .. L + 1 PROVE Data(u)[k] = e[k]
    <3>1. CASE k < q
      <4>1. k \in 1 .. L
        BY <1>1, <3>1
      <4> QED BY <1>2, <2>3, <2>4, <2>5, <3>1, <4>1
    <3>2. CASE k = q
      BY <1>2, <2>3, <2>4, <2>6, <3>2
    <3>3. CASE k > q
      <4> DEFINE j == k - 1
      <4>1. j \in 1 .. L /\ t[k] = s[j] /\ e[k] = d[j]
        BY <1>1, <1>2, <2>3, <3>3
      <4> HIDE DEF j
      <4> QED BY <2>4, <2>5, <4>1
    <3> QED BY <1>1, <3>1, <3>2, <3>3
  <2>8. Data(u) = e
    BY <2>3, <2>4, <2>7, SeqEqual
  <2> QED BY <2>8 DEF d, e
<1> QED BY <1>11, <1>12 DEF t

\* The node at a position, from either end.
LEMMA NodeFound ==
    ASSUME NEW V, NEW list, NEW s, Chain(V, list, s), NEW pos \in Int
    PROVE  gll_findNode(list, pos) = Place(s, pos + 1)
<1> DEFINE L == Len(s)
<1>1. L \in Nat /\ list.size = L
  BY ChainData
<1>2. CASE pos < 0 \/ pos >= L
  <2>1. pos + 1 \notin 1 .. L
    BY <1>1, <1>2
  <2> QED BY <1>1, <1>2, <2>1 DEF gll_findNode, Place
<1>3. CASE ~ (pos < 0 \/ pos >= L)
  <2> DEFINE near == pos + 1
             far  == L - pos
  <2>1. near \in Nat /\ far \in Nat /\ near \in 1 .. near /\ far \in 1 .. far /\ L + 1 - far = near
    BY <1>1, <1>3
  <2>2. gll_findNode(list, pos) = IF pos > (L - 1) \div 2
                                  THEN Follow(list, list.last, "prev", far)[far]
                                  ELSE Follow(list, list.first, "next", near)[near]
    BY <1>1, <1>3 DEF gll_findNode
  <2> HIDE DEF near, far
  <2>3. Follow(list, list.first, "next", near) = Onward(s, near)
        /\ Follow(list, list.last, "prev", far) = Backward(s, far)
    BY <2>1, Walks
  <2>4. Onward(s, near)[near] = Place(s, near) /\ Backward(s, far)[far] = Place(s, near)
    BY <2>1 DEF Onward, Backward
  <2>5. gll_findNode(list, pos) = Place(s, near)
    BY <2>2, <2>3, <2>4
  <2> QED BY <2>5 DEF near
<1> QED BY <1>2, <1>3

\* gll_push has a new first node,
LEMMA PushAdds ==
    ASSUME NEW V, NEW list, NEW s, Chain(V, list, s), NEW x \in V
    PROVE  /\ DOMAIN gll_push(list, x).node = DOMAIN list.node \cup {Fresh(list)}
           /\ gll_push(list, x).node
                = [m \in DOMAIN gll_push(list, x).node |-> gll_push(list, x).node[m]]
           /\ AddedAt(V, list, s, 1, Fresh(list), x, gll_push(list, x))
<1> DEFINE L == Len(s)
           n == Fresh(list)
           u == gll_push(list, x)
<1>1. /\ L \in Nat /\ list.size = L /\ \A k \in 1 .. L : s[k] \in Nat \ {Nil}
      /\ DOMAIN list.node = {s[k] : k \in 1 .. L}
      /\ \A j, k \in 1 .. L : s[j] = s[k] => j = k
  BY LenProperties, ElementOfSeq DEF Chain
<1>2. n \in Nat \ {Nil} /\ n \notin DOMAIN list.node
  BY FreshIs
<1>3. /\ list = [size |-> list.size, first |-> list.first, last |-> list.last, node |-> list.node]
      /\ list.node \in [DOMAIN list.node -> ListNode(V)]
      /\ list.first = Place(s, 1) /\ list.last = Place(s, L)
      /\ \A k \in 1 .. L : /\ list.node[s[k]].prev = Place(s, k - 1)
                           /\ list.node[s[k]].next = Place(s, k + 1)
  BY DEF Chain
<1>4. CASE L = 0
  <2>1. u = [size |-> 1, first |-> n, last |-> n, node |-> WithNode(list.node, n, gll_initNode(x))]
    BY <1>1, <1>3, <1>4 DEF gll_push
  <2>2. DOMAIN list.node = {}
    BY <1>1, <1>4
  <2>3. DOMAIN u.node = {n} /\ u.node = [m \in {n} |-> gll_initNode(x)]
    BY <2>1, <2>2 DEF WithNode
  <2>4. Place(s, 0) = Nil /\ Place(s, 1) = Nil
    BY <1>4 DEF Place
  <2> HIDE DEF u, n
  <2>5. u.size = L + 1 /\ u.first = n /\ u.last = n /\ u.node[n] = gll_initNode(x)
        /\ u = [size |-> L + 1, first |-> u.first, last |-> u.last, node |-> u.node]
    BY <1>4, <2>1, <2>3
  <2>6. AddedAt(V, list, s, 1, n, x, u)
    BY <1>4, <2>2, <2>3, <2>4, <2>5 DEF AddedAt, gll_initNode
  <2> QED BY <2>2, <2>3, <2>6 DEF u, n
<1>5. CASE L # 0
  <2> DEFINE f == s[1]
             new == [gll_initNode(x) EXCEPT !.next = list.first]
             old == [list.node EXCEPT ![list.first].prev = n]
  <2>1. list.first = f /\ f \in DOMAIN list.node /\ Place(s, 1) = f /\ Place(s, 0) = Nil
    BY <1>1, <1>3, <1>5 DEF Place
  <2>2. u = [size |-> L + 1, first |-> n, last |-> list.last, node |-> WithNode(old, n, new)]
    BY <1>1, <1>5 DEF gll_push
  <2>3. DOMAIN old = DOMAIN list.node
        /\ \A m \in DOMAIN list.node :
             old[m] = IF m = f THEN [list.node[m] EXCEPT !.prev = n] ELSE list.node[m]
    BY <2>1
  <2> HIDE DEF old, new, u, n, f
  <2>4. DOMAIN u.node = DOMAIN list.node \cup {n}
        /\ u.node = [m \in DOMAIN list.node \cup {n} |-> IF m = n THEN new ELSE old[m]]
    BY <2>2, <2>3 DEF WithNode
  <2>5. u.node[n] = new /\ \A m \in DOMAIN list.node : u.node[m] = old[m]
    BY <1>2, <2>4
  <2>6. ASSUME NEW m \in DOMAIN list.node
        PROVE  /\ u.node[m] \in ListNode(V) /\ u.node[m].data = list.node[m].data
               /\ u.node[m].prev = IF m = f THEN n ELSE list.node[m].prev
               /\ u.node[m].next = list.node[m].next
    <3>1. list.node[m] \in ListNode(V)
      BY <1>3
    <3> QED BY ZenonT(60), <1>2, <2>3, <2>5, <3>1 DEF ListNode
  <2>7. ASSUME NEW m \in DOMAIN list.node PROVE m # Nil
    BY <1>1
  <2>8. u.size = L + 1 /\ u.first = n /\ u.last = list.last
        /\ u = [size |-> L + 1, first |-> u.first, last |-> u.last, node |-> u.node]
    BY <2>2
  <2>9. AddedAt(V, list, s, 1, n, x, u)
    <3>1. u.node[n] = [data |-> x, prev |-> Place(s, 1 - 1), next |-> Place(s, 1)]
      BY <2>1, <2>5 DEF new, gll_initNode
    <3>2. \A m \in DOMAIN list.node : u.node[m].next = IF m = Place(s, 1 - 1) THEN n ELSE list.node[m].next
      BY <2>1, <2>6, <2>7
    <3>3. u.last = IF 1 = Len(s) + 1 THEN n ELSE list.last
      BY <1>1, <1>5, <2>8
    <3> QED BY <2>1, <2>4, <2>6, <2>8, <3>1, <3>2, <3>3 DEF AddedAt
  <2> QED BY <2>4, <2>5, <2>9 DEF u, n
<1> QED BY <1>4, <1>5

\* and gll_pushBack a new last one.
LEMMA PushBackAdds ==
    ASSUME NEW V, NEW list, NEW s, Chain(V, list, s), NEW x \in V
    PROVE  /\ DOMAIN gll_pushBack(list, x).node = DOMAIN list.node \cup {Fresh(list)}
           /\ gll_pushBack(list, x).node
                = [m \in DOMAIN gll_pushBack(list, x).node |-> gll_pushBack(list, x).node[m]]
           /\ AddedAt(V, list, s, Len(s) + 1, Fresh(list), x, gll_pushBack(list, x))
<1> DEFINE L == Len(s)
           n == Fresh(list)
           u == gll_pushBack(list, x)
<1>1. /\ L \in Nat /\ list.size = L /\ \A k \in 1 .. L : s[k] \in Nat \ {Nil}
      /\ DOMAIN list.node = {s[k] : k \in 1 .. L}
      /\ \A j, k \in 1 .. L : s[j] = s[k] => j = k
  BY LenProperties, ElementOfSeq DEF Chain
<1>2. n \in Nat \ {Nil} /\ n \notin DOMAIN list.node
  BY FreshIs
<1>3. /\ list = [size |-> list.size, first |-> list.first, last |-> list.last, node |-> list.node]
      /\ list.node \in [DOMAIN list.node -> ListNode(V)]
      /\ list.first = Place(s, 1) /\ list.last = Place(s, L)
      /\ \A k \in 1 .. L : /\ list.node[s[k]].prev = Place(s, k - 1)
                           /\ list.node[s[k]].next = Place(s, k + 1)
  BY DEF Chain
<1>4. CASE L = 0
  <2>1. u = [size |-> 1, first |-> n, last |-> n, node |-> WithNode(list.node, n, gll_initNode(x))]
    BY <1>1, <1>3, <1>4 DEF gll_pushBack
  <2>2. DOMAIN list.node = {}
    BY <1>1, <1>4
  <2>3. DOMAIN u.node = {n} /\ u.node = [m \in {n} |-> gll_initNode(x)]
    BY <2>1, <2>2 DEF WithNode
  <2>4. Place(s, 0) = Nil /\ Place(s, 1) = Nil
    BY <1>4 DEF Place
  <2> HIDE DEF u, n
  <2>5. u.size = L + 1 /\ u.first = n /\ u.last = n /\ u.node[n] = gll_initNode(x)
        /\ u = [size |-> L + 1, first |-> u.first, last |-> u.last, node |-> u.node]
    BY <1>4, <2>1, <2>3
  <2>6. AddedAt(V, list, s, L + 1, n, x, u)
    BY <1>4, <2>2, <2>3, <2>4, <2>5 DEF AddedAt, gll_initNode
  <2> QED BY <2>2, <2>3, <2>6 DEF u, n
<1>5. CASE L # 0
  <2> DEFINE f == s[L]
             new == [gll_initNode(x) EXCEPT !.prev = list.last]
             old == [list.node EXCEPT ![list.last].next = n]
  <2>1. list.last = f /\ f \in DOMAIN list.node /\ Place(s, L) = f /\ Place(s, L + 1) = Nil
    BY <1>1, <1>3, <1>5 DEF Place
  <2>2. u = [size |-> L + 1, first |-> list.first, last |-> n, node |-> WithNode(old, n, new)]
    BY <1>1, <1>5 DEF gll_pushBack
  <2>3. DOMAIN old = DOMAIN list.node
        /\ \A m \in DOMAIN list.node :
             old[m] = IF m = f THEN [list.node[m] EXCEPT !.next = n] ELSE list.node[m]
    BY <2>1
  <2> HIDE DEF old, new, u, n, f
  <2>4. DOMAIN u.node = DOMAIN list.node \cup {n}
        /\ u.node = [m \in DOMAIN list.node \cup {n} |-> IF m = n THEN new ELSE old[m]]
    BY <2>2, <2>3 DEF WithNode
  <2>5. u.node[n] = new /\ \A m \in DOMAIN list.node : u.node[m] = old[m]
    BY <1>2, <2>4
  <2>6. ASSUME NEW m \in DOMAIN list.node
        PROVE  /\ u.node[m] \in ListNode(V) /\ u.node[m].data = list.node[m].data
               /\ u.node[m].next = IF m = f THEN n ELSE list.node[m].next
               /\ u.node[m].prev = list.node[m].prev
    <3>1. list.node[m] \in ListNode(V)
      BY <1>3
    <3> QED BY <1>2, <2>3, <2>5, <3>1, ZenonT(60) DEF ListNode
  <2>7. ASSUME NEW m \in DOMAIN list.node PROVE m # Nil
    BY <1>1
  <2>8. u.size = L + 1 /\ u.first = list.first /\ u.last = n
        /\ u = [size |-> L + 1, first |-> u.first, last |-> u.last, node |-> u.node]
    BY <2>2
  <2>9. AddedAt(V, list, s, L + 1, n, x, u)
    <3> DEFINE q == L + 1
    <3>1. q = Len(s) + 1 /\ q # 1 /\ q - 1 = L
      BY <1>1, <1>5
    <3> HIDE DEF q
    <3>2. Place(s, q) = Nil /\ Place(s, q - 1) = f
      BY <2>1, <3>1 DEF q
    <3>3. u.node[n] = [data |-> x, prev |-> f, next |-> Nil]
      BY <2>1, <2>5 DEF new, gll_initNode
    <3>4. u.size = Len(s) + 1
      BY <2>8
    <3>5. AddedAt(V, list, s, q, n, x, u)
      BY <2>4, <2>6, <2>7, <2>8, <3>1, <3>2, <3>3, <3>4 DEF AddedAt
    <3> QED BY <3>5 DEF q
  <2> QED BY <2>4, <2>5, <2>9 DEF u, n
<1> QED BY <1>4, <1>5

\* gll_add has a new node at a position up to the size, or behind all at a negative one.
LEMMA AddAdds ==
    ASSUME NEW V, NEW list, NEW s, Chain(V, list, s), NEW x \in V, NEW pos \in Int, NEW q,
           pos <= Len(s), q = IF pos \in 0 .. Len(s) THEN pos + 1 ELSE Len(s) + 1
    PROVE  /\ DOMAIN gll_add(list, x, pos).node = DOMAIN list.node \cup {Fresh(list)}
           /\ gll_add(list, x, pos).node
                = [m \in DOMAIN gll_add(list, x, pos).node |-> gll_add(list, x, pos).node[m]]
           /\ q \in 1 .. Len(s) + 1 /\ AddedAt(V, list, s, q, Fresh(list), x, gll_add(list, x, pos))
<1> DEFINE L == Len(s)
           n == Fresh(list)
           u == gll_add(list, x, pos)
           at == gll_findNode(list, pos)
           prev == IF at = Nil THEN list.last ELSE list.node[at].prev
           link == [m \in DOMAIN list.node |->
                      [list.node[m] EXCEPT !.prev = IF m = at THEN n ELSE @,
                                           !.next = IF m = prev THEN n ELSE @]]
<1>1. /\ L \in Nat /\ list.size = L /\ \A k \in 1 .. L : s[k] \in Nat \ {Nil}
      /\ DOMAIN list.node = {s[k] : k \in 1 .. L}
  BY LenProperties, ElementOfSeq DEF Chain
<1>2. n \in Nat \ {Nil} /\ n \notin DOMAIN list.node
  BY FreshIs
<1>3. /\ list.node \in [DOMAIN list.node -> ListNode(V)]
      /\ list.first = Place(s, 1) /\ list.last = Place(s, L)
      /\ \A k \in 1 .. L : list.node[s[k]].prev = Place(s, k - 1)
  BY DEF Chain
<1>4. at = Place(s, pos + 1)
  BY NodeFound
<1> HIDE DEF at
<1>5. u = [size  |-> L + 1,
           first |-> IF prev = Nil THEN n ELSE list.first,
           last  |-> IF at = Nil THEN n ELSE list.last,
           node  |-> WithNode(link, n, [data |-> x, prev |-> prev, next |-> at])]
  <2>1. ~ (pos > list.size)
    BY <1>1
  <2> QED BY <1>1, <2>1 DEF gll_add, at
<1> HIDE DEF u, n, link
<1>6. q \in 1 .. L + 1 /\ at = Place(s, q)
  <2>1. CASE pos \in 0 .. L
    BY <1>1, <1>4, <2>1
  <2>2. CASE pos \notin 0 .. L
    <3>1. pos + 1 \notin 1 .. L /\ q = L + 1 /\ L + 1 \notin 1 .. L
      BY <1>1, <2>2
    <3> QED BY <1>1, <1>4, <3>1 DEF Place
  <2> QED BY <2>1, <2>2
<1>7. prev = Place(s, q - 1)
  <2>1. CASE q \in 1 .. L
    <3>1. at = s[q] /\ at # Nil
      BY <1>1, <1>6, <2>1 DEF Place
    <3> QED BY <1>3, <2>1, <3>1
  <2>2. CASE q = L + 1
    <3>1. at = Nil /\ q - 1 = L
      BY <1>1, <1>6, <2>2 DEF Place
    <3> QED BY <1>3, <3>1
  <2> QED BY <1>1, <1>6, <2>1, <2>2
<1>8. at = Nil <=> q = L + 1
  BY <1>1, <1>6 DEF Place
<1>9. prev = Nil <=> q = 1
  <2>1. q - 1 \in 1 .. L <=> q # 1
    BY <1>1, <1>6
  <2> QED BY <1>1, <1>6, <1>7, <2>1 DEF Place
<1> HIDE DEF prev
<1>10. ASSUME NEW m \in DOMAIN list.node
       PROVE  /\ link[m] \in ListNode(V) /\ link[m].data = list.node[m].data
              /\ link[m].prev = IF m = at THEN n ELSE list.node[m].prev
              /\ link[m].next = IF m = prev THEN n ELSE list.node[m].next
  <2>1. list.node[m] \in ListNode(V)
    BY <1>3
  <2> QED BY <1>2, <2>1 DEF ListNode, link
<1>11. DOMAIN link = DOMAIN list.node
  BY DEF link
<1>12. /\ DOMAIN u.node = DOMAIN list.node \cup {n}
       /\ u.node = [m \in DOMAIN u.node |-> u.node[m]]
       /\ u.node[n] = [data |-> x, prev |-> prev, next |-> at]
       /\ \A m \in DOMAIN list.node : u.node[m] = link[m]
  <2>1. u.node = WithNode(link, n, [data |-> x, prev |-> prev, next |-> at])
    BY <1>5
  <2> QED BY <1>2, <1>11, <2>1 DEF WithNode
<1>13. u.size = L + 1 /\ u = [size |-> L + 1, first |-> u.first, last |-> u.last, node |-> u.node]
       /\ u.first = (IF prev = Nil THEN n ELSE list.first)
       /\ u.last = (IF at = Nil THEN n ELSE list.last)
  BY <1>5
<1>14. AddedAt(V, list, s, q, n, x, u)
  BY <1>6, <1>7, <1>8, <1>9, <1>10, <1>12, <1>13 DEF AddedAt
<1> QED BY <1>6, <1>12, <1>14 DEF u, n

\* u is the list without its q-th node.
RemovedAt(V, list, s, q, u) ==
    /\ u = [size |-> Len(s) - 1, first |-> u.first, last |-> u.last, node |-> u.node]
    /\ u.first = IF q = 1 THEN Place(s, q + 1) ELSE list.first
    /\ u.last = IF q = Len(s) THEN Place(s, q - 1) ELSE list.last
    /\ DOMAIN u.node = DOMAIN list.node \ {s[q]}
    /\ \A m \in DOMAIN u.node :
         /\ u.node[m] \in ListNode(V) /\ u.node[m].data = list.node[m].data
         /\ u.node[m].prev = IF m = Place(s, q + 1) THEN Place(s, q - 1) ELSE list.node[m].prev
         /\ u.node[m].next = IF m = Place(s, q - 1) THEN Place(s, q + 1) ELSE list.node[m].next

\* Then it has the other nodes of s.
LEMMA Removed ==
    ASSUME NEW V, NEW list, NEW s, Chain(V, list, s), NEW q \in 1 .. Len(s),
           NEW u, u.node = [m \in DOMAIN u.node |-> u.node[m]], RemovedAt(V, list, s, q, u)
    PROVE  Chain(V, u, RemoveAt(s, q)) /\ Data(u) = RemoveAt(Data(list), q)
<1> DEFINE L == Len(s)
           t == RemoveAt(s, q)
<1>1. /\ L \in Nat /\ q \in 1 .. L /\ s \in Seq(Nat \ {Nil})
      /\ \A k \in 1 .. L : s[k] \in Nat \ {Nil}
      /\ DOMAIN list.node = {s[k] : k \in 1 .. L}
      /\ \A j, k \in 1 .. L : s[j] = s[k] => j = k
      /\ list.first = Place(s, 1) /\ list.last = Place(s, L)
  BY LenProperties, ElementOfSeq DEF Chain
<1>2. /\ t \in Seq(Nat \ {Nil}) /\ Len(t) = L - 1
      /\ \A k \in 1 .. L - 1 : t[k] = IF k < q THEN s[k] ELSE s[k + 1]
  <2> HIDE DEF t
  <2>1. t \in Seq(Nat \ {Nil}) /\ Without(t, s, q)
    BY <1>1, RemoveAtIs DEF t
  <2> QED BY <2>1 DEF Without
<1> HIDE DEF t
<1> DEFINE place(k) == IF k < q THEN k ELSE k + 1
<1>3. ASSUME NEW k \in 1 .. L - 1
      PROVE  place(k) \in 1 .. L /\ place(k) # q /\ t[k] = s[place(k)]
  BY <1>1, <1>2
<1>4. ASSUME NEW j \in 1 .. L, j # q PROVE \E k \in 1 .. L - 1 : place(k) = j
  <2>1. CASE j < q
    <3>1. j \in 1 .. L - 1 /\ place(j) = j
      BY <1>1, <2>1
    <3> QED BY <3>1
  <2>2. CASE j > q
    <3>1. j - 1 \in 1 .. L - 1 /\ place(j - 1) = j
      BY <1>1, <2>2
    <3> QED BY <3>1
  <2> QED BY <1>1, <1>4, <2>1, <2>2
<1>5. ASSUME NEW k \in Int PROVE Place(t, k) = Place(s, place(k))
  BY <1>1, <1>2 DEF Place
<1>6. \A j, k \in 1 .. L - 1 : place(j) = place(k) => j = k
  BY <1>1
<1>7. ASSUME NEW k \in 1 .. L - 1
      PROVE  /\ place(k - 1) = IF place(k) = q + 1 THEN q - 1 ELSE place(k) - 1
             /\ place(k + 1) = IF place(k) = q - 1 THEN q + 1 ELSE place(k) + 1
  BY <1>1
<1> HIDE DEF place
<1>8. \A j, k \in 1 .. L - 1 : t[j] = t[k] => j = k
  <2> SUFFICES ASSUME NEW j \in 1 .. L - 1, NEW k \in 1 .. L - 1, t[j] = t[k] PROVE j = k
    OBVIOUS
  <2> HIDE DEF L
  <2>1. s[place(j)] = s[place(k)] /\ place(j) \in 1 .. L /\ place(k) \in 1 .. L
    BY <1>3
  <2>2. place(j) = place(k)
    BY <1>1, <2>1
  <2> QED BY <1>6, <2>2
<1>9. DOMAIN u.node = {t[k] : k \in 1 .. L - 1}
  <2>1. ASSUME NEW m \in DOMAIN u.node PROVE \E k \in 1 .. L - 1 : t[k] = m
    <3>1. PICK j \in 1 .. L : m = s[j]
      BY <1>1, <2>1 DEF RemovedAt
    <3>2. j # q
      BY <2>1, <3>1 DEF RemovedAt
    <3>3. PICK k \in 1 .. L - 1 : place(k) = j
      BY <1>4, <3>2
    <3> QED BY <1>3, <3>1, <3>3
  <2>2. ASSUME NEW k \in 1 .. L - 1 PROVE t[k] \in DOMAIN u.node
    <3>1. place(k) \in 1 .. L /\ place(k) # q /\ t[k] = s[place(k)]
      BY <1>3
    <3>2. s[place(k)] # s[q]
      BY <1>1, <3>1
    <3> QED BY <1>1, <3>1, <3>2 DEF RemovedAt
  <2> QED BY <2>1, <2>2
<1>10. u.node \in [DOMAIN u.node -> ListNode(V)]
  BY DEF RemovedAt
<1>11. ASSUME NEW j \in 1 .. L
       PROVE  /\ list.node[s[j]].prev = Place(s, j - 1) /\ list.node[s[j]].next = Place(s, j + 1)
              /\ s[j] = Place(s, q + 1) <=> j = q + 1
              /\ s[j] = Place(s, q - 1) <=> j = q - 1
  <2>1. list.node[s[j]].prev = Place(s, j - 1) /\ list.node[s[j]].next = Place(s, j + 1)
    BY DEF Chain
  <2>2. s[j] = Place(s, q + 1) <=> j = q + 1
    BY <1>1 DEF Place
  <2>3. s[j] = Place(s, q - 1) <=> j = q - 1
    BY <1>1 DEF Place
  <2> QED BY <2>1, <2>2, <2>3
<1>12. ASSUME NEW k \in 1 .. L - 1
       PROVE  u.node[t[k]].prev = Place(t, k - 1) /\ u.node[t[k]].next = Place(t, k + 1)
  <2> DEFINE j == place(k)
  <2>1. j \in 1 .. L /\ t[k] = s[j] /\ t[k] \in DOMAIN u.node
    BY <1>3, <1>9
  <2>2. /\ place(k - 1) = IF j = q + 1 THEN q - 1 ELSE j - 1
        /\ place(k + 1) = IF j = q - 1 THEN q + 1 ELSE j + 1
    BY <1>7
  <2> HIDE DEF j
  <2>3. u.node[s[j]].prev = IF j = q + 1 THEN Place(s, q - 1) ELSE Place(s, j - 1)
    BY <1>11, <2>1 DEF RemovedAt
  <2>4. u.node[s[j]].next = IF j = q - 1 THEN Place(s, q + 1) ELSE Place(s, j + 1)
    BY <1>11, <2>1 DEF RemovedAt
  <2>5. k - 1 \in Int /\ k + 1 \in Int
    OBVIOUS
  <2>6. Place(t, k - 1) = Place(s, place(k - 1)) /\ Place(t, k + 1) = Place(s, place(k + 1))
    BY <1>5, <2>5
  <2> QED BY <2>1, <2>2, <2>3, <2>4, <2>6
<1>13. u.first = Place(t, 1) /\ u.last = Place(t, Len(t))
  <2>1. Place(t, 1) = IF q = 1 THEN Place(s, q + 1) ELSE Place(s, 1)
    <3>1. place(1) = IF q = 1 THEN q + 1 ELSE 1
      BY <1>1 DEF place
    <3> QED BY <1>5, <3>1
  <2>2. Place(t, L - 1) = IF q = L THEN Place(s, q - 1) ELSE Place(s, L)
    <3>1. place(L - 1) = IF q = L THEN q - 1 ELSE L
      BY <1>1 DEF place
    <3>2. L - 1 \in Int
      BY <1>1
    <3>3. Place(t, L - 1) = Place(s, place(L - 1))
      BY <1>5, <3>2
    <3> QED BY <3>1, <3>3
  <2> QED BY <1>1, <1>2, <2>1, <2>2 DEF RemovedAt
<1>14. Chain(V, u, t)
  <2>1. u = [size |-> u.size, first |-> u.first, last |-> u.last, node |-> u.node] /\ u.size = Len(t)
    BY <1>2 DEF RemovedAt
  <2> QED BY <1>2, <1>8, <1>9, <1>10, <1>12, <1>13, <2>1 DEF Chain
<1>15. Data(u) = RemoveAt(Data(list), q)
  <2> DEFINE d == Data(list)
             e == RemoveAt(d, q)
  <2>1. d \in Seq(V) /\ Len(d) = L /\ \A k \in 1 .. L : d[k] = list.node[s[k]].data
    BY ChainData
  <2> HIDE DEF d
  <2>2. q \in 1 .. Len(d)
    BY <2>1
  <2>3. e \in Seq(V) /\ Len(e) = L - 1 /\ \A k \in 1 .. L - 1 : e[k] = d[place(k)]
    <3> HIDE DEF e
    <3>1. e \in Seq(V) /\ Without(e, d, q)
      BY <2>1, <2>2, RemoveAtIs DEF e
    <3> QED BY <2>1, <3>1 DEF Without, place
  <2> HIDE DEF e
  <2>4. Data(u) \in Seq(V) /\ Len(Data(u)) = L - 1 /\ \A k \in 1 .. L - 1 : Data(u)[k] = u.node[t[k]].data
    <3>1. Data(u) \in Seq(V) /\ Len(Data(u)) = Len(t) /\ Data(u) = [k \in 1 .. Len(t) |-> u.node[t[k]].data]
      BY <1>14, ChainData
    <3> QED BY <1>2, <3>1
  <2>5. ASSUME NEW k \in 1 .. L - 1 PROVE Data(u)[k] = e[k]
    <3>1. place(k) \in 1 .. L /\ t[k] = s[place(k)] /\ t[k] \in DOMAIN u.node
      BY <1>3, <1>9
    <3>2. u.node[t[k]].data = list.node[s[place(k)]].data
      BY <3>1 DEF RemovedAt
    <3> QED BY <2>1, <2>3, <2>4, <3>1, <3>2
  <2>6. Data(u) = e
    BY <2>3, <2>4, <2>5, SeqEqual
  <2> QED BY <2>6 DEF d, e
<1> QED BY <1>14, <1>15 DEF t

\* gll_remove takes the node at a position away.
LEMMA RemoveRemoves ==
    ASSUME NEW V, NEW list, NEW s, Chain(V, list, s), NEW pos \in 0 .. Len(s) - 1
    PROVE  /\ gll_remove(list, pos).node
                = [m \in DOMAIN gll_remove(list, pos).node |-> gll_remove(list, pos).node[m]]
           /\ pos + 1 \in 1 .. Len(s) /\ RemovedAt(V, list, s, pos + 1, gll_remove(list, pos))
<1> DEFINE L == Len(s)
           u == gll_remove(list, pos)
           q == pos + 1
           n == gll_findNode(list, pos)
           prev == list.node[n].prev
           next == list.node[n].next
           link == [m \in DOMAIN list.node \ {n} |->
                      [list.node[m] EXCEPT !.next = IF m = prev THEN next ELSE @,
                                           !.prev = IF m = next THEN prev ELSE @]]
<1>1. /\ L \in Nat /\ list.size = L /\ \A k \in 1 .. L : s[k] \in Nat \ {Nil}
      /\ list.node \in [DOMAIN list.node -> ListNode(V)]
      /\ DOMAIN list.node = {s[k] : k \in 1 .. L}
      /\ \A k \in 1 .. L : list.node[s[k]].prev = Place(s, k - 1)
                           /\ list.node[s[k]].next = Place(s, k + 1)
  BY LenProperties, ElementOfSeq DEF Chain
<1>2. q \in 1 .. L
  BY <1>1
<1>3. n = s[q] /\ n # Nil
  <2>1. n = Place(s, q)
    BY NodeFound
  <2> HIDE DEF n, q
  <2> QED BY <1>1, <1>2, <2>1 DEF Place
<1> HIDE DEF n, q
<1>4. prev = Place(s, q - 1) /\ next = Place(s, q + 1)
  BY <1>1, <1>2, <1>3
<1> HIDE DEF L
<1>5. u = [size  |-> L - 1,
           first |-> IF prev = Nil THEN next ELSE list.first,
           last  |-> IF next = Nil THEN prev ELSE list.last,
           node  |-> link]
  BY <1>1, <1>3 DEF gll_remove, n
<1> HIDE DEF u, prev, next, link
<1>6. (prev = Nil <=> q = 1) /\ (next = Nil <=> q = L)
  BY <1>1, <1>2, <1>4 DEF Place, L
<1>7. prev \in Nat /\ next \in Nat
  BY <1>1, <1>4 DEF Place, Nil, L
<1>8. ASSUME NEW m \in DOMAIN list.node \ {n}
      PROVE  /\ link[m] \in ListNode(V) /\ link[m].data = list.node[m].data
             /\ link[m].prev = IF m = next THEN prev ELSE list.node[m].prev
             /\ link[m].next = IF m = prev THEN next ELSE list.node[m].next
  <2>1. list.node[m] \in ListNode(V)
    BY <1>1
  <2> QED BY <1>7, <2>1 DEF ListNode, link
<1>9. DOMAIN link = DOMAIN list.node \ {n} /\ link = [m \in DOMAIN link |-> link[m]]
  BY DEF link
<1>10. u.size = L - 1 /\ u = [size |-> L - 1, first |-> u.first, last |-> u.last, node |-> u.node]
       /\ u.first = (IF prev = Nil THEN next ELSE list.first)
       /\ u.last = (IF next = Nil THEN prev ELSE list.last) /\ u.node = link
  BY <1>5
<1>11. RemovedAt(V, list, s, q, u)
  BY <1>3, <1>4, <1>6, <1>8, <1>9, <1>10 DEF RemovedAt, L
<1> QED BY <1>2, <1>9, <1>10, <1>11 DEF u, L, q

\* The list has nodes in a chain, with data in V.
Chained(V, list) == \E s : Chain(V, list, s)

\* Then its links are as WellLinked says, and the walks that go on until NULL meet every
\* node once.
LEMMA LinksAgree ==
    ASSUME NEW V, NEW list, Chained(V, list)
    PROVE  /\ WellLinked(list) /\ Data(list) \in Seq(V) /\ Len(Data(list)) = list.size
           /\ gll_each(list) = Data(list) /\ gll_eachReverse(list) = Reverse(Data(list))
           /\ gll_clear(list) = gll_init /\ gll_destroy(list) = <<>>
<1>1. PICK s : Chain(V, list, s)
  BY DEF Chained
<1> DEFINE L == Len(s)
<1>2. /\ L \in Nat /\ list.size = L /\ \A k \in 1 .. L : s[k] \in Nat \ {Nil}
      /\ s \in Seq(Nat \ {Nil}) /\ DOMAIN s = 1 .. L
      /\ DOMAIN list.node = {s[k] : k \in 1 .. L}
      /\ \A j, k \in 1 .. L : s[j] = s[k] => j = k
  BY <1>1, LenProperties, ElementOfSeq DEF Chain
<1>3. Nodes(list) = s /\ Data(list) = [k \in 1 .. L |-> list.node[s[k]].data]
      /\ Data(list) \in Seq(V) /\ Len(Data(list)) = L
  BY <1>1, ChainData
<1>4. Cardinality(DOMAIN list.node) = L
  <2>1. s \in Surjection(1 .. L, DOMAIN list.node) /\ s \in Injection(1 .. L, DOMAIN list.node)
    <3>1. s \in [1 .. L -> DOMAIN list.node]
      BY <1>2, LenProperties
    <3> QED BY <1>2, <3>1 DEF Surjection, Injection, IsInjective
  <2> HIDE DEF L
  <2>2. IsFiniteSet(1 .. L) /\ Cardinality(1 .. L) = L
    BY <1>2, FS_Interval
  <2> QED BY <2>1, <2>2, FS_Surjection
<1> DEFINE back == Backward(s, L)
<1>5. Follow(list, list.first, "next", L) = s /\ Follow(list, list.last, "prev", L) = back
  <2>1. Follow(list, list.first, "next", L) = s
    BY <1>2, <1>3 DEF Nodes
  <2> HIDE DEF L
  <2>2. Follow(list, list.last, "prev", L) = Backward(s, L)
    BY <1>1, <1>2, Walks
  <2> QED BY <2>1, <2>2
<1>6. /\ back = Reverse(s) /\ back \in Seq(Nat \ {Nil}) /\ Len(back) = L /\ DOMAIN back = 1 .. L
      /\ \A k \in 1 .. L : L + 1 - k \in 1 .. L /\ back[k] = s[L + 1 - k] /\ back[k] \in Nat \ {Nil}
  <2>1. ASSUME NEW k \in 1 .. L PROVE Place(s, L + 1 - k) = s[(L - k) + 1] /\ L + 1 - k \in 1 .. L
    <3>1. L + 1 - k \in 1 .. L /\ L + 1 - k = (L - k) + 1
      BY <1>2
    <3> QED BY <3>1 DEF Place
  <2>2. back = Reverse(s)
    BY <2>1 DEF Backward, Reverse
  <2>3. \A k \in 1 .. L : L + 1 - k \in 1 .. L /\ back[k] = s[L + 1 - k] /\ back[k] \in Nat \ {Nil}
    <3> TAKE k \in 1 .. L
    <3> DEFINE j == L + 1 - k
    <3>1. j \in 1 .. L /\ back[k] = Place(s, j)
      BY <2>1 DEF Backward
    <3> HIDE DEF j, back
    <3>2. back[k] = s[j] /\ back[k] \in Nat \ {Nil}
      BY <1>2, <3>1 DEF Place
    <3> QED BY <3>1, <3>2 DEF j
  <2>4. back \in [1 .. L -> Nat \ {Nil}]
    <3>1. back = [k \in 1 .. L |-> back[k]]
      BY DEF Backward
    <3> HIDE DEF back, L
    <3> QED BY <2>3, <3>1
  <2> QED BY <1>2, <2>2, <2>3, <2>4
<1> HIDE DEF back
<1>7. WellLinked(list)
  <2>1. Range(s) = DOMAIN list.node
    BY <1>2 DEF Range
  <2>2. L = 0 => list.first = Nil /\ list.last = Nil
    BY <1>1 DEF Chain, Place
  <2>3. L # 0 => list.node[list.first].prev = Nil /\ list.node[list.last].next = Nil
    <3> SUFFICES ASSUME L # 0 PROVE list.node[list.first].prev = Nil /\ list.node[list.last].next = Nil
      OBVIOUS
    <3>1. 1 \in 1 .. L /\ L \in 1 .. L
      BY <1>2
    <3>2. list.first = s[1] /\ list.last = s[L]
      BY <1>1, <3>1 DEF Chain, Place
    <3>3. list.node[s[1]].prev = Place(s, 1 - 1) /\ list.node[s[L]].next = Place(s, L + 1)
      BY <1>1, <3>1 DEF Chain
    <3>4. Place(s, 1 - 1) = Nil /\ Place(s, L + 1) = Nil
      BY <1>2 DEF Place
    <3> QED BY <3>2, <3>3, <3>4
  <2> QED BY <1>2, <1>3, <1>4, <1>5, <1>6, <2>1, <2>2, <2>3 DEF WellLinked
<1>8. Walk(list, list.first, "next") = s /\ Walk(list, list.last, "prev") = back
  <2> DEFINE Until(r) == SubSeq(r, 1, Cardinality({k \in DOMAIN r : r[k] # Nil}))
             count == Cardinality(DOMAIN list.node)
  <2>1. ASSUME NEW r \in Seq(Nat \ {Nil}), Len(r) = L
        PROVE  Until(r) = r
    <3>1. {k \in DOMAIN r : r[k] # Nil} = 1 .. L
      BY <2>1
    <3> HIDE DEF L
    <3>2. Cardinality(1 .. L) = L
      BY <1>2, FS_Interval
    <3>3. SubSeq(r, 1, Len(r)) = r
      BY <2>1, SubSeqFull
    <3> QED BY <2>1, <3>1, <3>2, <3>3
  <2>2. /\ Walk(list, list.first, "next") = Until(Follow(list, list.first, "next", count))
        /\ Walk(list, list.last, "prev") = Until(Follow(list, list.last, "prev", count))
    BY DEF Walk
  <2> HIDE DEF Until
  <2> QED BY <1>2, <1>4, <1>5, <1>6, <2>1, <2>2
<1>9. gll_each(list) = Data(list)
  BY <1>3, <1>8 DEF gll_each, Data
<1>10. gll_eachReverse(list) = Reverse(Data(list))
  <2> DEFINE d == Data(list)
  <2>1. gll_eachReverse(list) = [k \in 1 .. L |-> list.node[back[k]].data]
    BY <1>6, <1>8 DEF gll_eachReverse, DataOf, DataAt
  <2>2. ASSUME NEW k \in 1 .. L PROVE list.node[back[k]].data = d[(L - k) + 1]
    <3> DEFINE j == L + 1 - k
    <3>1. j \in 1 .. L /\ back[k] = s[j] /\ j = (L - k) + 1
      BY <1>2, <1>6
    <3> HIDE DEF j
    <3>2. list.node[s[j]].data = d[j]
      BY <1>3, <3>1
    <3> QED BY <3>1, <3>2
  <2>3. Reverse(d) = [k \in 1 .. L |-> d[(L - k) + 1]]
    BY <1>3 DEF Reverse
  <2> HIDE DEF d
  <2>4. gll_eachReverse(list) = Reverse(d)
    BY <2>1, <2>2, <2>3
  <2> QED BY <2>4 DEF d
<1>11. gll_destroy(list) = <<>>
  <2>1. Range(s) = DOMAIN list.node
    BY <1>2 DEF Range
  <2>2. DOMAIN list.node \ Range(Walk(list, list.first, "next")) = {}
    BY <1>8, <2>1
  <2>3. gll_destroy(list) = [m \in {} |-> list.node[m]]
    BY <2>2 DEF gll_destroy, Restrict
  <2>4. [m \in {} |-> list.node[m]] = <<>>
    OBVIOUS
  <2> QED BY <2>3, <2>4
<1>12. gll_clear(list) = gll_init
  BY <1>11 DEF gll_clear, gll_init
<1> QED BY <1>2, <1>3, <1>7, <1>9, <1>10, <1>11, <1>12

\* A list without nodes stands for the empty sequence.
LEMMA EmptyIsChained == \A V : Chained(V, gll_init) /\ Data(gll_init) = <<>>
<1> TAKE V
<1>1. Chain(V, gll_init, <<>>)
  BY DEF Chain, gll_init, Place, ListNode
<1>2. Chained(V, gll_init)
  BY <1>1 DEF Chained
<1>3. Data(gll_init) \in Seq(V) /\ Len(Data(gll_init)) = 0
  BY <1>2, LinksAgree DEF gll_init
<1>4. Data(gll_init) = <<>>
  BY <1>3, EmptySeq
<1> QED BY <1>2, <1>4

\* gll_push puts data in front of the sequence,
LEMMA Pushed ==
    ASSUME NEW V, NEW list, Chained(V, list), NEW x \in V
    PROVE  Chained(V, gll_push(list, x)) /\ Data(gll_push(list, x)) = <<x>> \o Data(list)
<1> DEFINE u == gll_push(list, x)
           n == Fresh(list)
           d == Data(list)
<1>1. PICK s : Chain(V, list, s)
  BY DEF Chained
<1>2. n \in Nat \ {Nil} /\ n \notin DOMAIN list.node /\ 1 \in 1 .. Len(s) + 1
  BY <1>1, FreshIs, ChainData
<1>3. u.node = [m \in DOMAIN u.node |-> u.node[m]] /\ AddedAt(V, list, s, 1, n, x, u)
  BY <1>1, PushAdds
<1>4. d \in Seq(V)
  BY <1>1, ChainData
<1> HIDE DEF u, n, d
<1>5. Chain(V, u, InsertAt(s, 1, n)) /\ Data(u) = InsertAt(d, 1, x)
  BY <1>1, <1>2, <1>3, Added DEF d
<1>6. InsertAt(d, 1, x) = <<x>> \o d
  <2>1. SubSeq(d, 1, 1 - 1) = <<>> /\ SubSeq(d, 1, Len(d)) = d
    BY <1>4, SubSeqFull, SubSeqEmpty
  <2>2. <<>> \o <<x>> = <<x>>
    OBVIOUS
  <2> QED BY <2>1, <2>2 DEF InsertAt
<1> QED BY <1>5, <1>6 DEF Chained, u, d

\* gll_pushBack behind it,
LEMMA PushedBack ==
    ASSUME NEW V, NEW list, Chained(V, list), NEW x \in V
    PROVE  Chained(V, gll_pushBack(list, x)) /\ Data(gll_pushBack(list, x)) = Append(Data(list), x)
<1> DEFINE u == gll_pushBack(list, x)
           n == Fresh(list)
           d == Data(list)
<1>1. PICK s : Chain(V, list, s)
  BY DEF Chained
<1> DEFINE q == Len(s) + 1
<1>2. n \in Nat \ {Nil} /\ n \notin DOMAIN list.node /\ q \in 1 .. Len(s) + 1
  BY <1>1, FreshIs, ChainData
<1>3. u.node = [m \in DOMAIN u.node |-> u.node[m]] /\ AddedAt(V, list, s, q, n, x, u)
  BY <1>1, PushBackAdds
<1>4. d \in Seq(V) /\ Len(d) = Len(s) /\ q = Len(d) + 1
  BY <1>1, ChainData
<1> HIDE DEF u, n, d, q
<1>5. Chain(V, u, InsertAt(s, q, n)) /\ Data(u) = InsertAt(d, q, x)
  BY <1>1, <1>2, <1>3, Added DEF d
<1>6. InsertAt(d, q, x) = Append(d, x)
  BY <1>4, InsertAtEnd
<1> QED BY <1>5, <1>6 DEF Chained, u, d

\* gll_add in front of the element at a position, or behind all if none is there.
LEMMA AddedToData ==
    ASSUME NEW V, NEW list, Chained(V, list), NEW x \in V, NEW pos \in Int, pos <= list.size
    PROVE  /\ Chained(V, gll_add(list, x, pos))
           /\ Data(gll_add(list, x, pos)) = IF pos \in 0 .. list.size - 1
                                            THEN InsertAt(Data(list), pos + 1, x)
                                            ELSE Append(Data(list), x)
<1> DEFINE u == gll_add(list, x, pos)
           n == Fresh(list)
           d == Data(list)
<1>1. PICK s : Chain(V, list, s)
  BY DEF Chained
<1> DEFINE q == IF pos \in 0 .. Len(s) THEN pos + 1 ELSE Len(s) + 1
<1>2. n \in Nat \ {Nil} /\ n \notin DOMAIN list.node
  BY <1>1, FreshIs
<1>3. d \in Seq(V) /\ Len(d) = Len(s) /\ list.size = Len(s) /\ Len(s) \in Nat
  BY <1>1, ChainData
<1>4. u.node = [m \in DOMAIN u.node |-> u.node[m]] /\ q \in 1 .. Len(s) + 1
      /\ AddedAt(V, list, s, q, n, x, u)
  BY <1>1, <1>3, AddAdds
<1>5. IF pos \in 0 .. Len(d) - 1 THEN q = pos + 1 ELSE q = Len(d) + 1
  BY <1>3
<1> HIDE DEF u, n, d, q
<1>6. Chain(V, u, InsertAt(s, q, n)) /\ Data(u) = InsertAt(d, q, x)
  BY <1>1, <1>2, <1>4, Added DEF d
<1>7. q = Len(d) + 1 => InsertAt(d, q, x) = Append(d, x)
  BY <1>3, InsertAtEnd
<1> QED BY <1>3, <1>5, <1>6, <1>7 DEF Chained, u, d

\* gll_remove takes the element at a position away.
LEMMA RemovedFromData ==
    ASSUME NEW V, NEW list, Chained(V, list), NEW pos \in 0 .. list.size - 1
    PROVE  /\ Chained(V, gll_remove(list, pos))
           /\ Data(gll_remove(list, pos)) = RemoveAt(Data(list), pos + 1)
<1> DEFINE u == gll_remove(list, pos)
           d == Data(list)
           q == pos + 1
<1>1. PICK s : Chain(V, list, s)
  BY DEF Chained
<1>2. pos \in 0 .. Len(s) - 1
  BY <1>1, ChainData
<1>3. u.node = [m \in DOMAIN u.node |-> u.node[m]] /\ q \in 1 .. Len(s) /\ RemovedAt(V, list, s, q, u)
  BY <1>1, <1>2, RemoveRemoves
<1> HIDE DEF u, d, q
<1>4. Chain(V, u, RemoveAt(s, q)) /\ Data(u) = RemoveAt(d, q)
  BY <1>1, <1>3, Removed DEF d
<1> QED BY <1>4 DEF Chained, u, d, q

\* What is at a position, and at the ends.
LEMMA Gets ==
    ASSUME NEW V, NEW list, Chained(V, list)
    PROVE  /\ \A pos \in Int : gll_get(list, pos) = IF pos \in 0 .. list.size - 1
                                                    THEN Data(list)[pos + 1] ELSE NULL
           /\ gll_first(list) = IF list.size = 0 THEN NULL ELSE Data(list)[1]
           /\ gll_last(list) = IF list.size = 0 THEN NULL ELSE Data(list)[list.size]
           /\ list.size \in Nat /\ (list.first = Nil <=> list.size = 0)
           /\ (list.last = Nil <=> list.size = 0)
<1>1. PICK s : Chain(V, list, s)
  BY DEF Chained
<1> DEFINE L == Len(s)
           d == Data(list)
<1>2. L \in Nat /\ list.size = L /\ (\A k \in 1 .. L : s[k] \in Nat \ {Nil})
      /\ list.first = Place(s, 1) /\ list.last = Place(s, L)
  BY <1>1, LenProperties, ElementOfSeq DEF Chain
<1>3. \A k \in 1 .. L : list.node[s[k]].data = d[k]
  BY <1>1, ChainData
<1> HIDE DEF L, d
<1>4. \A k \in Int : DataAt(list, Place(s, k)) = IF k \in 1 .. L THEN d[k] ELSE NULL
  BY <1>2, <1>3 DEF DataAt, Place, L
<1>5. ASSUME NEW pos \in Int
      PROVE  gll_get(list, pos) = IF pos \in 0 .. L - 1 THEN d[pos + 1] ELSE NULL
  <2> DEFINE k == pos + 1
  <2>1. gll_findNode(list, pos) = Place(s, k)
    BY <1>1, NodeFound
  <2>2. k \in Int /\ (k \in 1 .. L <=> pos \in 0 .. L - 1)
    BY <1>2
  <2> HIDE DEF k
  <2>3. gll_get(list, pos) = IF pos \in 0 .. L - 1 THEN d[k] ELSE NULL
    BY <1>4, <2>1, <2>2 DEF gll_get
  <2> QED BY <2>3 DEF k
<1>6. gll_first(list) = (IF L = 0 THEN NULL ELSE d[1]) /\ gll_last(list) = (IF L = 0 THEN NULL ELSE d[L])
  <2>1. L \in Int /\ (1 \in 1 .. L <=> L # 0) /\ (L \in 1 .. L <=> L # 0)
    BY <1>2
  <2> QED BY <1>2, <1>4, <2>1 DEF gll_first, gll_last
<1>7. (Place(s, 1) = Nil <=> L = 0) /\ (Place(s, L) = Nil <=> L = 0)
  BY <1>2 DEF Place, L
<1> QED BY <1>2, <1>5, <1>6, <1>7 DEF d

\* The first element goes, or the last.
LEMMA RemoveEnds ==
    ASSUME NEW S, NEW s \in Seq(S), s # <<>>
    PROVE  RemoveAt(s, 1) = Tail(s) /\ RemoveAt(s, Len(s)) = Front(s)
<1>1. Len(s) \in Nat
  BY LenProperties
<1>2. SubSeq(s, 1, 1 - 1) = <<>> /\ SubSeq(s, Len(s) + 1, Len(s)) = <<>>
  BY <1>1, SubSeqEmpty
<1>3. SubSeq(s, 1 + 1, Len(s)) = Tail(s)
  BY TailIsSubSeq
<1>4. Tail(s) \in Seq(S) /\ SubSeq(s, 1, Len(s) - 1) \in Seq(S)
  BY <1>1, HeadTailProperties
<1> DEFINE t == Tail(s)
           f == SubSeq(s, 1, Len(s) - 1)
<1> HIDE DEF t, f
<1>5. <<>> \o t = t /\ f \o <<>> = f
  BY <1>4, ConcatEmptySeq DEF t, f
<1> QED BY <1>2, <1>3, <1>5 DEF RemoveAt, Front, t, f

\* gll_pop and gll_popBack do so, if there is one.
LEMMA Popped ==
    ASSUME NEW V, NEW list, Chained(V, list)
    PROVE  /\ Chained(V, gll_pop(list)) /\ Chained(V, gll_popBack(list))
           /\ Data(gll_pop(list)) = IF list.size = 0 THEN Data(list) ELSE Tail(Data(list))
           /\ Data(gll_popBack(list)) = IF list.size = 0 THEN Data(list) ELSE Front(Data(list))
<1> DEFINE d == Data(list)
           n == list.size
<1>1. d \in Seq(V) /\ Len(d) = n
  BY LinksAgree
<1>2. n \in Nat /\ (list.first = Nil <=> n = 0) /\ (list.last = Nil <=> n = 0)
  BY Gets
<1>3. CASE n = 0
  BY <1>2, <1>3 DEF gll_pop, gll_popBack
<1>4. CASE n # 0
  <2> DEFINE z == n - 1
  <2>1. z \in 0 .. n - 1 /\ 0 \in 0 .. n - 1 /\ z + 1 = n /\ 0 + 1 = 1
    BY <1>2, <1>4
  <2>2. Chained(V, gll_remove(list, 0)) /\ Data(gll_remove(list, 0)) = RemoveAt(d, 0 + 1)
    BY <2>1, RemovedFromData
  <2> HIDE DEF z
  <2>3. Chained(V, gll_remove(list, z)) /\ Data(gll_remove(list, z)) = RemoveAt(d, z + 1)
    BY <2>1, RemovedFromData
  <2>4. gll_pop(list) = gll_remove(list, 0) /\ gll_popBack(list) = gll_remove(list, z)
    BY <1>2, <1>4 DEF gll_pop, gll_popBack, z
  <2>5. d # <<>>
    BY <1>1, <1>4
  <2> HIDE DEF d, n
  <2>6. RemoveAt(d, 1) = Tail(d) /\ RemoveAt(d, Len(d)) = Front(d)
    BY <1>1, <2>5, RemoveEnds
  <2> QED BY <1>1, <1>4, <2>1, <2>2, <2>3, <2>4, <2>6 DEF d, n
<1> QED BY <1>3, <1>4

\* gll_set replaces an element.
LEMMA SetInData ==
    ASSUME NEW V, NEW list, Chained(V, list), NEW x \in V, NEW pos \in 0 .. list.size - 1
    PROVE  /\ Chained(V, gll_set(list, x, pos))
           /\ Data(gll_set(list, x, pos)) = ReplaceAt(Data(list), pos + 1, x)
<1> DEFINE u == gll_set(list, x, pos)
           d == Data(list)
           q == pos + 1
           n == gll_findNode(list, pos)
<1>1. PICK s : Chain(V, list, s)
  BY DEF Chained
<1> DEFINE L == Len(s)
<1>2. /\ L \in Nat /\ list.size = L /\ \A k \in 1 .. L : s[k] \in Nat \ {Nil}
      /\ list.node \in [DOMAIN list.node -> ListNode(V)]
      /\ DOMAIN list.node = {s[k] : k \in 1 .. L}
      /\ list = [size |-> list.size, first |-> list.first, last |-> list.last, node |-> list.node]
  BY <1>1, LenProperties, ElementOfSeq DEF Chain
<1>3. q \in 1 .. L /\ n = Place(s, q)
  BY <1>1, <1>2, NodeFound
<1> HIDE DEF n, q
<1>4. n = s[q] /\ n # Nil /\ n \in DOMAIN list.node
  BY <1>2, <1>3 DEF Place
<1>5. u = [list EXCEPT !.node[n].data = x]
  BY <1>4 DEF gll_set, n
<1> HIDE DEF u, L
<1>6. u.size = list.size /\ u.first = list.first /\ u.last = list.last
      /\ u.node = [list.node EXCEPT ![n] = [@ EXCEPT !.data = x]]
      /\ u = [size |-> list.size, first |-> list.first, last |-> list.last, node |-> u.node]
  BY <1>2, <1>5
<1>7. DOMAIN u.node = DOMAIN list.node
      /\ \A m \in DOMAIN u.node :
           /\ u.node[m] \in ListNode(V)
           /\ u.node[m].prev = list.node[m].prev /\ u.node[m].next = list.node[m].next
           /\ u.node[m].data = IF m = n THEN x ELSE list.node[m].data
  <2>1. DOMAIN u.node = DOMAIN list.node
        /\ \A m \in DOMAIN u.node : u.node[m] = IF m = n THEN [list.node[m] EXCEPT !.data = x] ELSE list.node[m]
    BY <1>4, <1>6
  <2>2. ASSUME NEW m \in DOMAIN u.node
        PROVE  /\ u.node[m] \in ListNode(V)
               /\ u.node[m].prev = list.node[m].prev /\ u.node[m].next = list.node[m].next
               /\ u.node[m].data = IF m = n THEN x ELSE list.node[m].data
    <3>1. list.node[m] \in ListNode(V)
      BY <1>2, <2>1
    <3> QED BY <2>1, <3>1 DEF ListNode
  <2> QED BY <2>1, <2>2
<1>8. u.node = [m \in DOMAIN u.node |-> u.node[m]]
  BY <1>2, <1>6
<1>9. Chain(V, u, s)
  <2>1. u.node \in [DOMAIN u.node -> ListNode(V)]
    BY <1>7, <1>8
  <2>2. ASSUME NEW k \in 1 .. Len(s)
        PROVE  u.node[s[k]].prev = Place(s, k - 1) /\ u.node[s[k]].next = Place(s, k + 1)
    <3>1. s[k] \in DOMAIN u.node
      BY <1>2, <1>7 DEF L
    <3>2. list.node[s[k]].prev = Place(s, k - 1) /\ list.node[s[k]].next = Place(s, k + 1)
      BY <1>1 DEF Chain
    <3> QED BY <1>7, <3>1, <3>2
  <2> QED BY <1>1, <1>6, <1>7, <2>1, <2>2 DEF Chain
<1>10. Data(u) = ReplaceAt(d, q, x)
  <2>1. d \in Seq(V) /\ Len(d) = L /\ \A k \in 1 .. L : d[k] = list.node[s[k]].data
    BY <1>1, ChainData DEF L
  <2>2. Data(u) \in Seq(V) /\ Len(Data(u)) = L /\ \A k \in 1 .. L : Data(u)[k] = u.node[s[k]].data
    BY <1>9, ChainData DEF L
  <2> HIDE DEF d
  <2>3. ReplaceAt(d, q, x) \in Seq(V) /\ Len(ReplaceAt(d, q, x)) = L
        /\ \A k \in 1 .. L : ReplaceAt(d, q, x)[k] = IF k = q THEN x ELSE d[k]
    BY <1>3, <2>1, ExceptSeq DEF ReplaceAt
  <2>4. ASSUME NEW k \in 1 .. L PROVE Data(u)[k] = ReplaceAt(d, q, x)[k]
    <3>1. s[k] \in DOMAIN u.node /\ (s[k] = n <=> k = q)
      <4>1. s[k] = s[q] => k = q
        BY <1>1, <1>3 DEF Chain, L
      <4> QED BY <1>2, <1>4, <1>7, <4>1
    <3> QED BY <1>7, <2>1, <2>2, <2>3, <3>1
  <2> DEFINE r == ReplaceAt(d, q, x)
  <2> HIDE DEF r
  <2>5. Data(u) = r
    BY <2>2, <2>3, <2>4, SeqEqual DEF r
  <2> QED BY <2>5 DEF r
<1> QED BY <1>9, <1>10 DEF Chained, u, d, q

\* On a list with its nodes in a chain the operations agree with those on sequences.
LEMMA ChainedAgree ==
    ASSUME NEW V, NEW list, Chained(V, list), NEW x \in V
    PROVE  OperationsAgree(list, x)
<1> DEFINE d == Data(list)
           n == list.size
<1>1. \A u : Chained(V, u) => WellLinked(u)
  BY LinksAgree
<1>2. d \in Seq(V) /\ Len(d) = n /\ n \in Nat
  BY LinksAgree, Gets
<1>3. gll_first(list) = gll_get(list, 0) /\ gll_last(list) = gll_get(list, n - 1)
  <2> DEFINE z == n - 1
  <2>1. gll_get(list, 0) = IF 0 \in 0 .. n - 1 THEN d[0 + 1] ELSE NULL
    BY Gets
  <2>2. z \in Int /\ z + 1 = n /\ (z \in 0 .. n - 1 <=> n # 0) /\ (0 \in 0 .. n - 1 <=> n # 0)
    BY <1>2
  <2> HIDE DEF z
  <2>3. gll_get(list, z) = IF z \in 0 .. n - 1 THEN d[z + 1] ELSE NULL
    BY <2>2, Gets
  <2>4. gll_first(list) = (IF n = 0 THEN NULL ELSE d[1]) /\ gll_last(list) = (IF n = 0 THEN NULL ELSE d[n])
    BY Gets
  <2> QED BY <2>1, <2>2, <2>3, <2>4 DEF z
<1>4. /\ Holds(gll_popBack(list), IF n = 0 THEN d ELSE Front(d))
      /\ Holds(gll_push(list, x), <<x>> \o d)
  BY <1>1, Popped, Pushed DEF Holds
<1>5. ASSUME NEW pos \in 0 .. n - 1
      PROVE  /\ gll_get(list, pos) = d[pos + 1]
             /\ Holds(gll_set(list, x, pos), ReplaceAt(d, pos + 1, x))
             /\ Holds(gll_remove(list, pos), RemoveAt(d, pos + 1))
             /\ Holds(gll_add(list, x, pos), InsertAt(d, pos + 1, x))
  <2>1. pos \in Int /\ pos <= n
    BY <1>2
  <2>2. gll_get(list, pos) = d[pos + 1]
    BY <2>1, Gets
  <2>3. Chained(V, gll_set(list, x, pos)) /\ Data(gll_set(list, x, pos)) = ReplaceAt(d, pos + 1, x)
    BY SetInData
  <2>4. Chained(V, gll_remove(list, pos)) /\ Data(gll_remove(list, pos)) = RemoveAt(d, pos + 1)
    BY RemovedFromData
  <2>5. Chained(V, gll_add(list, x, pos)) /\ Data(gll_add(list, x, pos)) = InsertAt(d, pos + 1, x)
    BY <2>1, AddedToData
  <2> QED BY <1>1, <2>2, <2>3, <2>4, <2>5 DEF Holds
<1>6. ASSUME NEW pos \in {-1, n}
      PROVE  /\ gll_get(list, pos) = NULL
             /\ gll_set(list, x, pos) = list /\ gll_remove(list, pos) = list
             /\ Holds(gll_add(list, x, pos), Append(d, x))
  <2>1. pos \in Int /\ pos <= n /\ pos \notin 0 .. n - 1 /\ (pos < 0 \/ pos >= n)
    BY <1>2
  <2>2. gll_get(list, pos) = NULL
    BY <2>1, Gets
  <2>3. gll_findNode(list, pos) = Nil
    BY <2>1 DEF gll_findNode
  <2>4. gll_set(list, x, pos) = list /\ gll_remove(list, pos) = list
    BY <2>3 DEF gll_set, gll_remove
  <2>5. Chained(V, gll_add(list, x, pos)) /\ Data(gll_add(list, x, pos)) = Append(d, x)
    BY <2>1, AddedToData
  <2> QED BY <1>1, <2>2, <2>4, <2>5 DEF Holds
<1>7. gll_add(list, x, n + 1) = list
  <2> DEFINE z == n + 1
  <2>1. z > list.size
    BY <1>2
  <2> HIDE DEF z
  <2>2. gll_add(list, x, z) = list
    BY <2>1 DEF gll_add
  <2> QED BY <2>2 DEF z
<1>8. /\ WellLinked(list) /\ gll_each(list) = d /\ gll_eachReverse(list) = Reverse(d)
      /\ gll_clear(list) = gll_init /\ gll_destroy(list) = <<>>
  BY LinksAgree
<1> QED BY <1>3, <1>4, <1>5, <1>6, <1>7, <1>8 DEF OperationsAgree

-----------------------------------------------------------------------------
(* How often something is in a list *)

\* Where p is in d.
Spots(d, p) == {k \in DOMAIN d : d[k] = p}

\* They are finitely many,
LEMMA SpotsFinite ==
    ASSUME NEW S, NEW d \in Seq(S), NEW p
    PROVE  IsFiniteSet(Spots(d, p)) /\ Cardinality(Spots(d, p)) \in Nat
<1> DEFINE n == Len(d)
<1>1. n \in Nat /\ Spots(d, p) \subseteq 1 .. n
  BY LenProperties DEF Spots
<1> HIDE DEF n
<1>2. IsFiniteSet(1 .. n)
  BY <1>1, FS_Interval
<1>3. IsFiniteSet(Spots(d, p))
  BY <1>1, <1>2, FS_Subset
<1> QED BY <1>3, FS_CardinalityType

\* one more when p comes behind the others,
LEMMA SpotsAppended ==
    ASSUME NEW S, NEW d \in Seq(S), NEW x \in S, NEW p
    PROVE  Cardinality(Spots(Append(d, x), p))
             = Cardinality(Spots(d, p)) + (IF x = p THEN 1 ELSE 0)
<1> DEFINE n == Len(d)
           t == Append(d, x)
           D == Spots(d, p)
           T == Spots(t, p)
<1>1. n \in Nat /\ DOMAIN d = 1 .. n /\ DOMAIN t = 1 .. n + 1
      /\ \A k \in 1 .. n + 1 : t[k] = IF k = n + 1 THEN x ELSE d[k]
  BY LenProperties, AppendProperties
<1>2. n + 1 \notin D /\ IsFiniteSet(D) /\ Cardinality(D) \in Nat
  <2>1. n + 1 \notin D
    BY <1>1 DEF Spots
  <2> HIDE DEF n
  <2>2. IsFiniteSet(D) /\ Cardinality(D) \in Nat
    BY SpotsFinite
  <2> QED BY <2>1, <2>2
<1> HIDE DEF t
<1>3. CASE x = p
  <2>1. T = D \cup {n + 1}
    BY <1>1, <1>3 DEF Spots
  <2> HIDE DEF D, T
  <2>2. Cardinality(D \cup {n + 1}) = Cardinality(D) + 1
    BY <1>2, FS_AddElement
  <2> QED BY <1>3, <2>1, <2>2 DEF D, T, t
<1>4. CASE x # p
  <2>1. T = D
    BY <1>1, <1>4 DEF Spots
  <2> QED BY <1>2, <1>4, <2>1 DEF t
<1> QED BY <1>3, <1>4

\* or in front of them.
LEMMA SpotsInFront ==
    ASSUME NEW S, NEW d \in Seq(S), NEW x \in S, NEW p
    PROVE  Cardinality(Spots(<<x>> \o d, p))
             = Cardinality(Spots(d, p)) + (IF x = p THEN 1 ELSE 0)
<1> DEFINE n == Len(d)
           t == <<x>> \o d
           D == Spots(d, p)
           E == {k \in 2 .. n + 1 : d[k - 1] = p}
           T == Spots(t, p)
<1>1. n \in Nat /\ DOMAIN d = 1 .. n /\ DOMAIN t = 1 .. n + 1
      /\ \A k \in 1 .. n + 1 : t[k] = IF k = 1 THEN x ELSE d[k - 1]
  <2>1. /\ <<x>> \in Seq(S) /\ Len(<<x>>) = 1 /\ <<x>>[1] = x
    OBVIOUS
  <2>2. t \in Seq(S) /\ Len(t) = Len(<<x>>) + n
        /\ \A k \in 1 .. Len(<<x>>) + n : t[k] = IF k <= Len(<<x>>) THEN <<x>>[k] ELSE d[k - Len(<<x>>)]
    BY <2>1, ConcatProperties
  <2>3. n \in Nat /\ DOMAIN d = 1 .. n
    BY LenProperties
  <2> HIDE DEF t
  <2>4. DOMAIN t = 1 .. n + 1
    BY <2>1, <2>2, <2>3
  <2> QED BY <2>1, <2>2, <2>3, <2>4
<1>2. IsFiniteSet(D) /\ Cardinality(D) \in Nat
  BY SpotsFinite
<1>3. IsFiniteSet(E) /\ Cardinality(E) = Cardinality(D)
  <2> DEFINE f == [k \in D |-> k + 1]
  <2>1. f \in Bijection(D, E)
    <3>1. \A k \in D : k \in 1 .. n /\ d[k] = p /\ f[k] = k + 1
      BY <1>1 DEF Spots
    <3>2. f \in [D -> E]
      <4>1. ASSUME NEW k \in D PROVE k + 1 \in E
        <5>1. k \in 1 .. n /\ (k + 1) - 1 = k /\ d[k] = p
          BY <3>1
        <5> QED BY <1>1, <5>1
      <4> QED BY <4>1
    <3>3. \A a, b \in D : f[a] = f[b] => a = b
      BY <3>1
    <3>4. ASSUME NEW e \in E PROVE \E k \in D : f[k] = e
      <4>1. e - 1 \in D
        BY <1>1 DEF Spots
      <4>2. f[e - 1] = e
        BY <1>1, <4>1
      <4> QED BY <4>1, <4>2
    <3> HIDE DEF f, D, E
    <3> QED BY <3>2, <3>3, <3>4 DEF Bijection, Injection, Surjection, IsInjective
  <2>2. ExistsBijection(D, E)
    BY <2>1 DEF ExistsBijection
  <2> HIDE DEF D, E
  <2> QED BY <1>2, <2>2, FS_Bijection
<1>4. 1 \notin E
  OBVIOUS
<1> HIDE DEF t
<1>5. CASE x = p
  <2>1. T = E \cup {1}
    BY <1>1, <1>5 DEF Spots
  <2> HIDE DEF D, E, T
  <2>2. Cardinality(E \cup {1}) = Cardinality(E) + 1
    BY <1>3, <1>4, FS_AddElement
  <2> QED BY <1>3, <1>5, <2>1, <2>2 DEF D, T, t
<1>6. CASE x # p
  <2>1. T = E
    BY <1>1, <1>6 DEF Spots
  <2> HIDE DEF D, E
  <2> QED BY <1>2, <1>3, <1>6, <2>1 DEF D, t
<1> QED BY <1>5, <1>6

\* The entries of a list that grows at either end,
LEMMA EntriesPushed ==
    ASSUME NEW V, NEW list, Chained(V, list), NEW x \in V, NEW p
    PROVE  /\ Entries(list, p) \in Nat
           /\ Entries(gll_pushBack(list, x), p) = Entries(list, p) + (IF x = p THEN 1 ELSE 0)
           /\ Entries(gll_push(list, x), p) = Entries(list, p) + (IF x = p THEN 1 ELSE 0)
<1> DEFINE d == Data(list)
<1>1. d \in Seq(V)
  BY LinksAgree
<1>2. Data(gll_pushBack(list, x)) = Append(d, x) /\ Data(gll_push(list, x)) = <<x>> \o d
  BY Pushed, PushedBack
<1>3. \A l : Entries(l, p) = Cardinality(Spots(Data(l), p))
  BY DEF Entries, Spots
<1> HIDE DEF d
<1>4. /\ Cardinality(Spots(d, p)) \in Nat
      /\ Cardinality(Spots(Append(d, x), p)) = Cardinality(Spots(d, p)) + (IF x = p THEN 1 ELSE 0)
      /\ Cardinality(Spots(<<x>> \o d, p)) = Cardinality(Spots(d, p)) + (IF x = p THEN 1 ELSE 0)
  BY <1>1, SpotsFinite, SpotsAppended, SpotsInFront
<1> QED BY <1>2, <1>3, <1>4 DEF d

\* and of one whose first element goes.
LEMMA EntriesPopped ==
    ASSUME NEW V, NEW list, Chained(V, list), NEW p, p # NULL
    PROVE  /\ Entries(list, p) \in Nat /\ Entries(gll_pop(list), p) \in Nat
           /\ Entries(list, p) = Entries(gll_pop(list), p) + (IF gll_first(list) = p THEN 1 ELSE 0)
           /\ gll_first(list) \in V \cup {NULL}
<1> DEFINE d == Data(list)
           n == list.size
<1>1. d \in Seq(V) /\ Len(d) = n /\ n \in Nat
  BY LinksAgree, Gets
<1>2. \A l : Entries(l, p) = Cardinality(Spots(Data(l), p))
  BY DEF Entries, Spots
<1>3. gll_first(list) = IF n = 0 THEN NULL ELSE d[1]
  BY Gets
<1>4. Data(gll_pop(list)) = IF n = 0 THEN d ELSE Tail(d)
  BY Popped
<1> HIDE DEF d, n
<1>5. Cardinality(Spots(d, p)) \in Nat
  BY <1>1, SpotsFinite
<1>6. CASE n = 0
  BY <1>2, <1>3, <1>4, <1>5, <1>6 DEF d
<1>7. CASE n # 0
  <2>1. d # <<>> /\ d[1] \in V
    BY <1>1, <1>7
  <2> DEFINE t == Tail(d)
             x == d[1]
  <2>2. t \in Seq(V) /\ x \in V /\ <<x>> \o t = d
    BY <1>1, <2>1
  <2> HIDE DEF t, x
  <2>3. Cardinality(Spots(t, p)) \in Nat
        /\ Cardinality(Spots(<<x>> \o t, p)) = Cardinality(Spots(t, p)) + (IF x = p THEN 1 ELSE 0)
    BY <2>2, SpotsFinite, SpotsInFront
  <2>4. Entries(list, p) = Cardinality(Spots(d, p)) /\ Entries(gll_pop(list), p) = Cardinality(Spots(t, p))
        /\ gll_first(list) = x
    BY <1>2, <1>3, <1>4, <1>7 DEF d, t, x
  <2> QED BY <1>5, <2>1, <2>2, <2>3, <2>4 DEF x
<1> QED BY <1>6, <1>7

\* f gives the list after each of the first n items.
ReadUpTo(list, data, n, f) ==
    f = [k \in 0 .. n |-> IF k = 0 THEN list ELSE gll_pushBack(f[k - 1], data[k])]

\* A list that is read has the items behind those it had.
LEMMA AllPushed ==
    ASSUME NEW V, NEW list, Chained(V, list), NEW data \in Seq(V)
    PROVE  Chained(V, PushAll(list, data)) /\ Data(PushAll(list, data)) = Data(list) \o data
<1> DEFINE d == Data(list)
           L == Len(data)
           f == CHOOSE g : ReadUpTo(list, data, L, g)
<1>1. d \in Seq(V) /\ L \in Nat
  BY LinksAgree, LenProperties
<1>2. ReadUpTo(list, data, L, f)
  <2> DEFINE P == {n \in Nat : \E g : ReadUpTo(list, data, n, g)}
  <2>1. 0 \in P
    <3>1. ReadUpTo(list, data, 0, [k \in 0 .. 0 |-> list])
      BY DEF ReadUpTo
    <3> QED BY <3>1
  <2>2. ASSUME NEW n \in Nat \ {0}, n - 1 \in P PROVE n \in P
    <3>1. PICK g : ReadUpTo(list, data, n - 1, g)
      BY <2>2
    <3> DEFINE h == [k \in 0 .. n |-> IF k = n THEN gll_pushBack(g[n - 1], data[n]) ELSE g[k]]
    <3>2. \A k \in 0 .. n : h[k] = IF k = 0 THEN list ELSE gll_pushBack(h[k - 1], data[k])
      <4> SUFFICES ASSUME NEW k \in 0 .. n
                   PROVE  h[k] = IF k = 0 THEN list ELSE gll_pushBack(h[k - 1], data[k])
        OBVIOUS
      <4>1. k # 0 => k - 1 \in 0 .. n - 1 /\ k - 1 # n /\ k - 1 \in 0 .. n
        OBVIOUS
      <4>2. k # 0 => h[k - 1] = g[k - 1]
        BY <4>1
      <4>3. CASE k = n
        BY <4>2, <4>3
      <4>4. CASE k # n
        <5>1. k \in 0 .. n - 1 /\ h[k] = g[k]
          BY <4>4
        <5>2. g[k] = IF k = 0 THEN list ELSE gll_pushBack(g[k - 1], data[k])
          BY <3>1, <5>1 DEF ReadUpTo
        <5> QED BY <4>2, <5>1, <5>2
      <4> QED BY <4>3, <4>4
    <3>3. ReadUpTo(list, data, n, h)
      BY <3>2 DEF ReadUpTo
    <3> QED BY <3>3
  <2>3. \A n \in Nat : n \in P
    <3> HIDE DEF P
    <3> QED BY <2>1, <2>2, SetInduction
  <2> QED BY <1>1, <2>3
<1>3. PushAll(list, data) = f[L]
  BY DEF PushAll, ReadUpTo
<1> HIDE DEF f, d
<1> DEFINE Q == {k \in Nat : k <= L => Chained(V, f[k]) /\ Data(f[k]) = d \o SubSeq(data, 1, k)}
<1>4. 0 \in Q
  <2>1. f[0] = list
    BY <1>1, <1>2 DEF ReadUpTo
  <2>2. SubSeq(data, 1, 0) = <<>>
    BY SubSeqEmpty
  <2>3. d \o <<>> = d
    BY <1>1, ConcatEmptySeq
  <2> QED BY <2>1, <2>2, <2>3 DEF d
<1>5. ASSUME NEW k \in Nat \ {0}, k - 1 \in Q PROVE k \in Q
  <2> SUFFICES ASSUME k <= L PROVE Chained(V, f[k]) /\ Data(f[k]) = d \o SubSeq(data, 1, k)
    OBVIOUS
  <2> DEFINE j == k - 1
             b == SubSeq(data, 1, j)
             x == data[k]
  <2>1. j \in Nat /\ j <= L /\ Chained(V, f[j]) /\ Data(f[j]) = d \o b
    BY <1>1, <1>5
  <2>2. k \in 1 .. L /\ x \in V /\ b \in Seq(V)
    BY <1>1
  <2>3. SubSeq(data, 1, k) = b \o <<x>>
    <3>1. 1 \in 1 .. L
      BY <1>1, <2>2
    <3> QED BY <2>2, <3>1, SubSeqRecursiveSecond
  <2>4. f[k] = gll_pushBack(f[j], x)
    BY <1>1, <1>2, <2>2, SMTT(30) DEF ReadUpTo
  <2> HIDE DEF j, b, x
  <2>5. Chained(V, f[k]) /\ Data(f[k]) = Append(d \o b, x)
    BY <2>1, <2>2, <2>4, PushedBack
  <2>6. <<x>> \in Seq(V) /\ d \o b \in Seq(V)
    BY <1>1, <2>2, ConcatProperties
  <2>7. Append(d \o b, x) = (d \o b) \o <<x>>
    BY <2>2, <2>6, AppendIsConcat
  <2>8. (d \o b) \o <<x>> = d \o (b \o <<x>>)
    BY <1>1, <2>2, <2>6, ConcatAssociative, SMTT(30)
  <2> QED BY <2>3, <2>5, <2>7, <2>8
<1>6. \A k \in Nat : k \in Q
  <2> HIDE DEF Q
  <2> QED BY <1>4, <1>5, SetInduction
<1>7. Chained(V, f[L]) /\ Data(f[L]) = d \o SubSeq(data, 1, L)
  BY <1>1, <1>6
<1>8. SubSeq(data, 1, L) = data
  BY SubSeqFull
<1> QED BY <1>3, <1>7, <1>8 DEF d

-----------------------------------------------------------------------------
(* The lists of the simulator *)

\* Every list is the sequence it stands for; only runningProcess has NULL entries.
ListsAreChained ==
    /\ Chained(Process, processList) /\ Chained(Process, readyProcess)
    /\ Chained(Process, blockedProcess) /\ Chained(Process \cup {NULL}, runningProcess)

\* So are the requests of the processes, which come from the input.
RequestsAreChained ==
    /\ trace \in [Process -> Seq(Request)]
    /\ memReq = [p \in Process |-> memReq[p]]
    /\ \A p \in Process : Chained(Request, memReq[p])

\* When readPage is called a process runs, and still when it has returned, unless
\* that process waits for the disk or there was none.
OneRuns ==
    /\ pc = "read" => running # NULL
    /\ pc \in {"arrive", "disk", "pause"} /\ simPause \in {-1, 1, 4} => running # NULL

ListInv == ListsAreChained /\ RequestsAreChained /\ OneRuns /\ OnePlace

Is(x, p) == IF x = p THEN 1 ELSE 0

\* From a to b, which become c and e, goes x.
Moves(x, a, b, c, e) ==
    \A p \in Process :
        /\ {Entries(a, p), Entries(b, p), Entries(c, p), Entries(e, p)} \subseteq Nat
        /\ Entries(a, p) = Entries(c, p) + Is(x, p)
        /\ Entries(e, p) = Entries(b, p) + Is(x, p)

\* The first process of one list goes to another.
LEMMA Moved ==
    ASSUME NEW V, NEW W, NEW a, NEW b, Chained(V, a), Chained(W, b), gll_first(a) \in W
    PROVE  /\ Chained(V, gll_pop(a))
           /\ Chained(W, gll_push(b, gll_first(a))) /\ Chained(W, gll_pushBack(b, gll_first(a)))
           /\ Moves(gll_first(a), a, b, gll_pop(a), gll_push(b, gll_first(a)))
           /\ Moves(gll_first(a), a, b, gll_pop(a), gll_pushBack(b, gll_first(a)))
<1> DEFINE x == gll_first(a)
<1>1. Chained(V, gll_pop(a))
  BY Popped
<1> HIDE DEF x
<1>2. x \in W
  BY DEF x
<1>3. Chained(W, gll_push(b, x)) /\ Chained(W, gll_pushBack(b, x))
  BY <1>2, Pushed, PushedBack
<1>4. ASSUME NEW p \in Process
      PROVE  /\ {Entries(a, p), Entries(b, p), Entries(gll_pop(a), p), Entries(gll_push(b, x), p),
                 Entries(gll_pushBack(b, x), p)} \subseteq Nat
             /\ Entries(a, p) = Entries(gll_pop(a), p) + Is(x, p)
             /\ Entries(gll_push(b, x), p) = Entries(b, p) + Is(x, p)
             /\ Entries(gll_pushBack(b, x), p) = Entries(b, p) + Is(x, p)
  <2>1. p # NULL
    BY SimulatorAssumption
  <2>2. Entries(a, p) \in Nat /\ Entries(gll_pop(a), p) \in Nat
        /\ Entries(a, p) = Entries(gll_pop(a), p) + Is(x, p)
    BY <2>1, EntriesPopped DEF Is, x
  <2>3. /\ Entries(b, p) \in Nat
        /\ Entries(gll_pushBack(b, x), p) = Entries(b, p) + Is(x, p)
        /\ Entries(gll_push(b, x), p) = Entries(b, p) + Is(x, p)
    BY <1>2, EntriesPushed DEF Is
  <2>4. Is(x, p) \in Nat
    BY DEF Is
  <2> QED BY <2>2, <2>3, <2>4
<1> QED BY <1>1, <1>3, <1>4 DEF Moves, x

\* The requests of the processes come and go, one after the other.
LEMMA RequestsMove ==
    ASSUME RequestsAreChained, NEW p \in Process
    PROVE  /\ trace[p] \in Seq(Request) /\ Chained(Request, memReq[p])
           /\ Chained(Request, gll_pop(memReq[p])) /\ Chained(Request, gll_init)
           /\ Chained(Request, PushAll(memReq[p], trace[p]))
<1>1. trace[p] \in Seq(Request) /\ Chained(Request, memReq[p])
  BY DEF RequestsAreChained
<1> QED BY <1>1, Popped, EmptyIsChained, AllPushed

\* When the list of one process changes the others are as before.
LEMMA RequestsChange ==
    ASSUME RequestsAreChained, NEW p \in Process, NEW list, Chained(Request, list),
           memReq' = [memReq EXCEPT ![p] = list], trace' = trace
    PROVE  RequestsAreChained'
  BY DEF RequestsAreChained

\* The first entries of the lists.
LEMMA Firsts ==
    ASSUME ListsAreChained
    PROVE  /\ arriving \in Process \cup {NULL} /\ gll_first(readyProcess) \in Process \cup {NULL}
           /\ faulted \in Process \cup {NULL} /\ running \in Process \cup {NULL}
<1>1. \A V, list : Chained(V, list) => gll_first(list) \in V \cup {NULL}
  <2> TAKE V, list
  <2> SUFFICES ASSUME Chained(V, list) PROVE gll_first(list) \in V \cup {NULL}
    OBVIOUS
  <2>1. "p" # NULL
    BY DEF NULL
  <2> QED BY <2>1, EntriesPopped
<1> QED BY <1>1 DEF ListsAreChained, arriving, faulted, running

\* An empty list has no entries.
LEMMA NoEntries == \A p : Entries(gll_init, p) = 0
<1> TAKE p
<1>1. Data(gll_init) = <<>>
  BY EmptyIsChained
<1>2. {k \in DOMAIN <<>> : <<>>[k] = p} = {}
  OBVIOUS
<1> QED BY <1>1, <1>2, FS_EmptySet DEF Entries

\* At the start all processes are in processList, in the order of the file.
LEMMA ListInit == Init => ListInv
<1> SUFFICES ASSUME Init PROVE ListInv
  OBVIOUS
<1>1. ListsAreChained /\ Data(processList) = TraceFile
  <2>1. TraceFile \in Seq(Process)
    BY SimulatorAssumption
  <2>2. Chained(Process, gll_init) /\ Chained(Process \cup {NULL}, gll_init) /\ Data(gll_init) = <<>>
    BY EmptyIsChained
  <2>3. Chained(Process, PushAll(gll_init, TraceFile))
        /\ Data(PushAll(gll_init, TraceFile)) = <<>> \o TraceFile
    BY <2>1, <2>2, AllPushed
  <2>4. <<>> \o TraceFile = TraceFile
    BY <2>1, ConcatEmptySeq
  <2> QED BY <2>2, <2>3, <2>4 DEF Init, ListsAreChained
<1>2. RequestsAreChained
  <2>1. trace \in [Process -> Seq(Request)]
    <3>1. \A n \in 0 .. MaxTrace : [1 .. n -> Request] \subseteq Seq(Request)
      BY SimulatorAssumption
    <3> QED BY SMTT(30), <3>1 DEF Init
  <2>2. memReq = [p \in Process |-> gll_init]
    BY DEF Init
  <2> QED BY <2>1, <2>2, EmptyIsChained DEF RequestsAreChained
<1>3. OneRuns
  BY DEF OneRuns, Init
<1>4. OnePlace
  <2> SUFFICES ASSUME NEW p \in Process
               PROVE  Entries(processList, p) + Entries(readyProcess, p) + Entries(runningProcess, p)
                        + Entries(blockedProcess, p) + (IF p \in done THEN 1 ELSE 0) = 1
    BY DEF OnePlace
  <2>1. Entries(gll_init, p) = 0
    BY NoEntries
  <2>2. Entries(processList, p) = 1
    <3>1. PICK k \in DOMAIN TraceFile : TraceFile[k] = p
      BY SimulatorAssumption DEF Range
    <3>2. \A j \in DOMAIN TraceFile : TraceFile[j] = p => j = k
      BY <3>1, SimulatorAssumption DEF IsInjective
    <3>3. {j \in DOMAIN TraceFile : TraceFile[j] = p} = {k}
      BY <3>1, <3>2
    <3> QED BY <1>1, <3>3, FS_Singleton DEF Entries
  <2>3. readyProcess = gll_init /\ runningProcess = gll_init /\ blockedProcess = gll_init /\ done = {}
    BY DEF Init
  <2> QED BY <2>1, <2>2, <2>3
<1> QED BY <1>1, <1>2, <1>3, <1>4 DEF ListInv

\* The numbers of entries are numbers.
LEMMA EntriesInNat ==
    ASSUME ListsAreChained, NEW p \in Process
    PROVE  {Entries(processList, p), Entries(readyProcess, p), Entries(runningProcess, p),
            Entries(blockedProcess, p)} \subseteq Nat
<1>1. p # NULL
  BY SimulatorAssumption
<1> QED BY <1>1, EntriesPopped DEF ListsAreChained

\* A process that goes from one list to another is still in one place.
LEMMA StillOnePlace ==
    ASSUME ListInv, done' = done, NEW x,
           \/ /\ Moves(x, processList, readyProcess, processList', readyProcess')
              /\ UNCHANGED <<runningProcess, blockedProcess>>
           \/ /\ Moves(x, readyProcess, runningProcess, readyProcess', runningProcess')
              /\ UNCHANGED <<processList, blockedProcess>>
           \/ /\ Moves(x, runningProcess, blockedProcess, runningProcess', blockedProcess')
              /\ UNCHANGED <<processList, readyProcess>>
           \/ /\ Moves(x, blockedProcess, readyProcess, blockedProcess', readyProcess')
              /\ UNCHANGED <<processList, runningProcess>>
           \/ /\ Moves(x, runningProcess, readyProcess, runningProcess', readyProcess')
              /\ UNCHANGED <<processList, blockedProcess>>
    PROVE  OnePlace'
<1> SUFFICES ASSUME NEW p \in Process
             PROVE  Entries(processList', p) + Entries(readyProcess', p) + Entries(runningProcess', p)
                      + Entries(blockedProcess', p) + (IF p \in done' THEN 1 ELSE 0) = 1
  BY DEF OnePlace
<1> DEFINE a == Entries(processList, p)
           b == Entries(readyProcess, p)
           c == Entries(runningProcess, p)
           d == Entries(blockedProcess, p)
           e == IF p \in done THEN 1 ELSE 0
           i == Is(x, p)
           a1 == Entries(processList', p)
           b1 == Entries(readyProcess', p)
           c1 == Entries(runningProcess', p)
           d1 == Entries(blockedProcess', p)
<1>1. a \in Nat /\ b \in Nat /\ c \in Nat /\ d \in Nat /\ i \in Nat /\ e \in Nat
  BY EntriesInNat DEF ListInv, Is
<1>2. a + b + c + d + e = 1
  BY DEF ListInv, OnePlace
<1>3. \/ a = a1 + i /\ b1 = b + i /\ c1 = c /\ d1 = d /\ a1 \in Nat
      \/ b = b1 + i /\ c1 = c + i /\ a1 = a /\ d1 = d /\ b1 \in Nat
      \/ c = c1 + i /\ d1 = d + i /\ a1 = a /\ b1 = b /\ c1 \in Nat
      \/ d = d1 + i /\ b1 = b + i /\ a1 = a /\ c1 = c /\ d1 \in Nat
      \/ c = c1 + i /\ b1 = b + i /\ a1 = a /\ d1 = d /\ c1 \in Nat
  BY DEF Moves
<1> HIDE DEF a, b, c, d, e, i, a1, b1, c1, d1
<1>4. a1 + b1 + c1 + d1 + e = 1
  <2>1. CASE a = a1 + i /\ b1 = b + i /\ c1 = c /\ d1 = d /\ a1 \in Nat
    BY <1>1, <1>2, <2>1
  <2>2. CASE b = b1 + i /\ c1 = c + i /\ a1 = a /\ d1 = d /\ b1 \in Nat
    BY <1>1, <1>2, <2>2
  <2>3. CASE c = c1 + i /\ d1 = d + i /\ a1 = a /\ b1 = b /\ c1 \in Nat
    BY <1>1, <1>2, <2>3
  <2>4. CASE d = d1 + i /\ b1 = b + i /\ a1 = a /\ c1 = c /\ d1 \in Nat
    BY <1>1, <1>2, <2>4
  <2>5. CASE c = c1 + i /\ b1 = b + i /\ a1 = a /\ d1 = d /\ c1 \in Nat
    BY <1>1, <1>2, <2>5
  <2> QED BY <1>3, <2>1, <2>2, <2>3, <2>4, <2>5
<1> QED BY <1>4 DEF a1, b1, c1, d1, e

\* MoveToReady is a move from processList to readyProcess.
LEMMA ReadyKeeps ==
    ASSUME ListInv, MoveToReady, arriving # NULL,
           UNCHANGED <<trace, runningProcess, blockedProcess, done>>
    PROVE  /\ ListsAreChained' /\ RequestsAreChained' /\ OnePlace'
           /\ Moves(arriving, processList, readyProcess, processList', readyProcess')
<1>1. arriving \in Process
  BY Firsts DEF ListInv
<1>2. /\ Chained(Process, processList') /\ Chained(Process, readyProcess')
      /\ Moves(arriving, processList, readyProcess, processList', readyProcess')
  BY <1>1, Moved DEF ListInv, ListsAreChained, MoveToReady, arriving
<1>3. ListsAreChained'
  BY <1>2 DEF ListInv, ListsAreChained
<1>4. RequestsAreChained'
  <2> DEFINE list == PushAll(memReq[arriving], trace[arriving])
  <2>1. Chained(Request, list)
    BY <1>1, RequestsMove DEF ListInv
  <2>2. memReq' = [memReq EXCEPT ![arriving] = list]
    BY DEF MoveToReady
  <2> HIDE DEF list
  <2> QED BY <1>1, <2>1, <2>2, RequestsChange DEF ListInv
<1>5. OnePlace'
  BY <1>2, StillOnePlace DEF MoveToReady
<1> QED BY <1>2, <1>3, <1>4, <1>5

\* Every action keeps the lists what they are.
LEMMA ListStep == ListInv /\ [Next]_vars => ListInv'
<1> SUFFICES ASSUME ListInv, [Next]_vars PROVE ListInv'
  OBVIOUS
<1> USE DEF ListInv
<1>1. ASSUME UNCHANGED <<lists, done, trace, memReq>> 
      PROVE  ListsAreChained' /\ RequestsAreChained' /\ OnePlace' /\ running' = running
  BY <1>1 DEF lists, ListsAreChained, RequestsAreChained, OnePlace, running
<1>2. ASSUME NEW p \in Process, memReq' = [memReq EXCEPT ![p] = gll_pop(@)],
             UNCHANGED <<lists, done, trace>>
      PROVE  ListsAreChained' /\ RequestsAreChained' /\ OnePlace' /\ running' = running
  <2>1. Chained(Request, gll_pop(memReq[p]))
    BY RequestsMove
  <2> DEFINE list == gll_pop(memReq[p])
  <2>2. memReq' = [memReq EXCEPT ![p] = list]
    BY <1>2
  <2> HIDE DEF list
  <2>3. RequestsAreChained'
    BY <1>2, <2>1, <2>2, RequestsChange DEF list
  <2> QED BY <1>2, <2>3 DEF lists, ListsAreChained, OnePlace, running
<1>3. CASE Arrive
  <2>1. ListsAreChained' /\ RequestsAreChained' /\ OnePlace'
    BY <1>3, ReadyKeeps DEF Arrive, Due, input
  <2>2. OneRuns'
    BY <1>3 DEF Arrive, OneRuns, local, running
  <2> QED BY <2>1, <2>2
<1>4. CASE StartFirst
  <2> DEFINE x == gll_first(readyProcess)
  <2>1. x \in Process \cup {NULL}
    BY Firsts
  <2>2. /\ Chained(Process, readyProcess') /\ Chained(Process \cup {NULL}, runningProcess')
        /\ Moves(x, readyProcess, runningProcess, readyProcess', runningProcess')
    BY <1>4, <2>1, Moved DEF StartFirst, ListsAreChained
  <2> HIDE DEF x
  <2>3. UNCHANGED <<processList, blockedProcess, done, trace, memReq>>
    BY <1>4 DEF StartFirst, input, pcb
  <2>4. OnePlace'
    BY <2>2, <2>3, StillOnePlace
  <2>5. OneRuns'
    BY <1>4 DEF StartFirst, OneRuns
  <2> QED BY <2>2, <2>3, <2>4, <2>5 DEF ListsAreChained, RequestsAreChained
<1>5. CASE NothingRuns
  <2>1. UNCHANGED <<lists, done, trace, memReq>> /\ simPause' = 2 /\ pc' = "arrive"
    BY <1>5 DEF NothingRuns, Return, input, pcb
  <2> QED BY <1>1, <2>1 DEF OneRuns
<1>6. CASE DiskInterrupt
  <2>1. UNCHANGED <<lists, done, trace, memReq>> /\ running # NULL /\ pc' = "arrive"
    BY <1>6 DEF DiskInterrupt, Return, input, pcb
  <2> QED BY <1>1, <2>1 DEF OneRuns
<1>7. CASE Continue
  <2>1. UNCHANGED <<lists, done, trace, memReq>> /\ running # NULL
    BY <1>7 DEF Continue, input, pcb
  <2> QED BY <1>1, <2>1 DEF OneRuns
<1>8. CASE QuantumEnds
  <2>1. UNCHANGED <<lists, done, trace, memReq>> /\ running # NULL
    BY <1>8 DEF QuantumEnds, OneRuns, input, pcb
  <2> QED BY <1>1, <2>1 DEF OneRuns
<1>9. CASE NoRequest
  <2>1. UNCHANGED <<lists, done, trace, memReq>> /\ running # NULL
    BY <1>9 DEF NoRequest, Reads, OneRuns, input, pcb
  <2> QED BY <1>1, <2>1 DEF OneRuns
<1>10. CASE NonMem
  <2>1. UNCHANGED <<lists, done, trace>> /\ running # NULL /\ running \in Process
    BY <1>10, Firsts DEF NonMem, Reads, OneRuns, input
  <2>2. memReq' = memReq \/ memReq' = [memReq EXCEPT ![running] = gll_pop(@)]
    <3>1. memReq' = [memReq EXCEPT ![running] = @] \/ memReq' = [memReq EXCEPT ![running] = gll_pop(@)]
      BY <1>10 DEF NonMem, Charge
    <3>2. [memReq EXCEPT ![running] = @] = memReq
      BY DEF RequestsAreChained
    <3> QED BY <3>1, <3>2
  <2>3. ListsAreChained' /\ RequestsAreChained' /\ OnePlace' /\ running' = running
    BY <1>1, <1>2, <2>1, <2>2
  <2> QED BY <2>1, <2>3 DEF OneRuns
<1>11. CASE Mem
  <2>1. UNCHANGED <<processList, readyProcess, done, trace>> /\ running # NULL /\ running \in Process
    BY <1>11, Firsts DEF Mem, Reads, OneRuns, input
  <2>2. memReq' = memReq \/ memReq' = [memReq EXCEPT ![running] = gll_pop(@)]
    <3>1. memReq' = [memReq EXCEPT ![running] = @] \/ memReq' = [memReq EXCEPT ![running] = gll_pop(@)]
      BY <1>11 DEF Mem, Charge
    <3>2. [memReq EXCEPT ![running] = @] = memReq
      BY DEF RequestsAreChained
    <3> QED BY <3>1, <3>2
  <2>3. CASE UNCHANGED <<runningProcess, blockedProcess>>
    <3>1. ListsAreChained' /\ RequestsAreChained' /\ OnePlace' /\ running' = running
      BY <1>1, <1>2, <2>1, <2>2, <2>3 DEF lists
    <3> QED BY <2>1, <3>1 DEF OneRuns
  <2>4. CASE Block /\ pc' = "arrive" /\ simPause' = 0
    <3>1. /\ Chained(Process \cup {NULL}, runningProcess') /\ Chained(Process, blockedProcess')
          /\ Moves(running, runningProcess, blockedProcess, runningProcess', blockedProcess')
      BY <2>1, <2>4, Moved DEF ListsAreChained, Block, running
    <3>2. OnePlace'
      BY <2>1, <3>1, StillOnePlace
    <3>3. RequestsAreChained'
      <4> DEFINE list == gll_pop(memReq[running])
      <4>1. Chained(Request, list)
        BY <2>1, RequestsMove
      <4>2. memReq' = memReq \/ memReq' = [memReq EXCEPT ![running] = list]
        BY <2>2
      <4> HIDE DEF list
      <4>3. CASE memReq' = memReq
        BY <2>1, <4>3 DEF RequestsAreChained
      <4> QED BY <2>1, <4>1, <4>2, <4>3, RequestsChange
    <3>4. OneRuns'
      BY <2>4 DEF OneRuns
    <3> QED BY <2>1, <3>1, <3>2, <3>3, <3>4 DEF ListsAreChained
  <2>5. UNCHANGED <<runningProcess, blockedProcess>> \/ (Block /\ pc' = "arrive" /\ simPause' = 0)
    BY <1>11 DEF Mem, Return
  <2> QED BY <2>3, <2>4, <2>5
<1>12. CASE AllArrived
  <2>1. UNCHANGED <<lists, done, trace, memReq, simPause>> /\ pc = "arrive"
    BY <1>12 DEF AllArrived, input, pcb, local
  <2>2. pc' \in {"disk", "pause"}
    BY <1>12 DEF AllArrived
  <2> QED BY <1>1, <2>1, <2>2 DEF OneRuns
<1>13. CASE DiskCrash
  <2>1. UNCHANGED <<lists, done, trace, memReq>> /\ pc' = "crashed"
    BY <1>13 DEF DiskCrash, input, pcb
  <2> QED BY <1>1, <2>1 DEF OneRuns
<1>14. ASSUME DiskCalled, DiskReturn, simPause' = simPause, running' = running PROVE OneRuns'
  BY <1>14 DEF DiskCalled, DiskReturn, OneRuns
<1>15. FirstOfFaulted # NULL => faulted \in Process
  BY Firsts DEF FirstOfFaulted
<1>16. NONMEM # NULL /\ NULL \notin Address
  BY SimulatorAssumption DEF NONMEM, NULL
<1>17. CASE SkipNonMem
  <2>1. UNCHANGED <<lists, done, trace, simPause>> /\ faulted \in Process
        /\ memReq' = [memReq EXCEPT ![faulted] = gll_pop(@)] /\ DiskCalled /\ DiskReturn
    BY <1>15, <1>16, <1>17 DEF SkipNonMem, input, local
  <2> QED BY <1>2, <1>14, <2>1
<1>18. CASE SwapIn
  <2>1. UNCHANGED <<processList, runningProcess, done, trace, simPause>> /\ faulted \in Process
        /\ memReq' = [memReq EXCEPT ![faulted] = gll_pop(@)] /\ DiskCalled /\ DiskReturn
        /\ readyProcess' = gll_pushBack(readyProcess, faulted) /\ blockedProcess' = gll_pop(blockedProcess)
    BY <1>15, <1>16, <1>18 DEF SwapIn, input, local
  <2>2. /\ Chained(Process, readyProcess') /\ Chained(Process, blockedProcess')
        /\ Moves(faulted, blockedProcess, readyProcess, blockedProcess', readyProcess')
    BY <2>1, Moved DEF ListsAreChained, faulted
  <2>3. OnePlace'
    BY <2>1, <2>2, StillOnePlace
  <2>4. RequestsAreChained'
    <3> DEFINE list == gll_pop(memReq[faulted])
    <3>1. Chained(Request, list)
      BY <2>1, RequestsMove
    <3>2. memReq' = [memReq EXCEPT ![faulted] = list]
      BY <2>1
    <3> HIDE DEF list
    <3> QED BY <2>1, <3>1, <3>2, RequestsChange
  <2>5. OneRuns'
    BY <1>14, <2>1 DEF running
  <2> QED BY <2>1, <2>2, <2>3, <2>4, <2>5 DEF ListsAreChained
<1>19. CASE AfterFault
  <2>1. UNCHANGED <<lists, done, trace, memReq>> /\ pc' = "schedule"
    BY <1>19 DEF AfterFault, input, pcb
  <2> QED BY <1>1, <2>1 DEF OneRuns
<1>20. CASE AfterEnd
  <2> DEFINE p == running
  <2>1. p \in Process /\ pc' = "schedule" /\ UNCHANGED <<processList, readyProcess, blockedProcess, trace>>
        /\ memReq' = [memReq EXCEPT ![p] = gll_init] /\ runningProcess' = gll_pop(runningProcess)
        /\ done' = done \cup {p}
    BY <1>20, Firsts DEF AfterEnd, OneRuns, input
  <2>2. RequestsAreChained'
    BY <2>1, EmptyIsChained, RequestsChange
  <2>3. Chained(Process \cup {NULL}, runningProcess')
    BY <2>1, Popped DEF ListsAreChained
  <2>4. \A q \in Process : /\ Entries(runningProcess, q) \in Nat /\ Entries(runningProcess', q) \in Nat
                           /\ Entries(runningProcess, q) = Entries(runningProcess', q) + Is(p, q)
    <3>1. \A q \in Process : q # NULL
      BY SimulatorAssumption
    <3> QED BY <2>1, <3>1, EntriesPopped DEF ListsAreChained, Is, running
  <2> HIDE DEF p
  <2>5. \A q \in Process : IF q = p THEN q \in done' ELSE (q \in done' <=> q \in done)
    BY <2>1
  <2>6. OnePlace'
    BY <2>1, <2>4, <2>5, EntriesInNat DEF OnePlace, Is
  <2> QED BY <2>1, <2>2, <2>3, <2>6 DEF ListsAreChained, OneRuns
<1>21. CASE AfterInterrupt
  <2>1. running \in Process /\ pc' = "schedule" /\ UNCHANGED <<processList, blockedProcess, trace, memReq, done>>
        /\ readyProcess' = gll_pushBack(readyProcess, running) /\ runningProcess' = gll_pop(runningProcess)
    BY <1>21, Firsts DEF AfterInterrupt, OneRuns, input, pcb
  <2>2. /\ Chained(Process, readyProcess') /\ Chained(Process \cup {NULL}, runningProcess')
        /\ Moves(running, runningProcess, readyProcess, runningProcess', readyProcess')
    BY <2>1, Moved DEF ListsAreChained, running
  <2>3. OnePlace'
    BY <2>1, <2>2, StillOnePlace
  <2> QED BY <2>1, <2>2, <2>3 DEF ListsAreChained, RequestsAreChained, OneRuns
<1>22. CASE AfterNothing
  <2>1. UNCHANGED <<lists, done, trace, memReq>> /\ pc' = "schedule"
    BY <1>22 DEF AfterNothing, input, pcb
  <2> QED BY <1>1, <2>1 DEF OneRuns
<1>23. CASE schedulingRR
  <2> DEFINE x == gll_first(readyProcess)
  <2>1. x \in Process \cup {NULL}
    BY Firsts
  <2>2. /\ Chained(Process, readyProcess') /\ Chained(Process \cup {NULL}, runningProcess')
        /\ Moves(x, readyProcess, runningProcess, readyProcess', runningProcess')
    BY <1>23, <2>1, Moved DEF schedulingRR, ListsAreChained
  <2> HIDE DEF x
  <2>3. UNCHANGED <<processList, blockedProcess, done, trace, memReq>> /\ pc' = "idle"
    BY <1>23 DEF schedulingRR, input, pcb
  <2>4. OnePlace'
    BY <2>2, <2>3, StillOnePlace
  <2> QED BY <2>2, <2>3, <2>4 DEF ListsAreChained, RequestsAreChained, OneRuns
<1>24. CASE NotIdle \/ AllDone \/ NextDiskInterrupt
  <2>1. UNCHANGED <<lists, done, trace, memReq>> /\ pc' \in {"process", "done", "idle disk"}
    BY <1>24 DEF NotIdle, AllDone, NextDiskInterrupt, input, pcb
  <2> QED BY <1>1, <2>1 DEF OneRuns
<1>25. CASE NextArrival
  <2>1. MoveToReady /\ arriving # NULL /\ UNCHANGED <<trace, runningProcess, blockedProcess, done>>
        /\ pc' = "process"
    BY <1>25 DEF NextArrival, input
  <2> QED BY <2>1, ReadyKeeps DEF OneRuns
<1>26. CASE Stop \/ UNCHANGED vars
  <2>1. UNCHANGED <<lists, done, trace, memReq, pc, simPause>>
    BY <1>26 DEF Stop, vars, input, pcb, local
  <2> QED BY <1>1, <2>1 DEF OneRuns
<1> QED
  BY <1>3, <1>4, <1>5, <1>6, <1>7, <1>8, <1>9, <1>10, <1>11, <1>12, <1>13, <1>17, <1>18, <1>19, <1>20,
     <1>21, <1>22, <1>23, <1>24, <1>25, <1>26 DEF Next

\* A process is always in one list, once, or finished (simulator.c:516).
THEOREM EachInOnePlace == Spec => []OnePlace
<1>1. ListInv => OnePlace
  BY DEF ListInv
<1> QED BY <1>1, ListInit, ListStep, PTL DEF Spec

\* Every operation of gll.c does to the lists of the simulator what it does to the
\* sequences they stand for (gll.c:129, 246).
THEOREM ListsAgree == Spec => []ListOperationsAgree
<1>1. ListInv => ListOperationsAgree
  <2> SUFFICES ASSUME ListInv,
                      NEW list \in {processList, readyProcess, runningProcess, blockedProcess}
               PROVE  OperationsAgree(list, Head(TraceFile))
    BY DEF ListOperationsAgree
  <2>1. Head(TraceFile) \in Process
    <3>1. TraceFile \in Seq(Process) /\ TraceFile # <<>>
      BY SimulatorAssumption DEF Range
    <3> QED BY <3>1, HeadTailProperties
  <2>2. Chained(Process, list) \/ Chained(Process \cup {NULL}, list)
    BY DEF ListInv, ListsAreChained
  <2> QED BY <2>1, <2>2, ChainedAgree
<1> QED BY <1>1, ListInit, ListStep, PTL DEF Spec

-----------------------------------------------------------------------------
(* The time of the processes *)

NoCharge == [waits |-> FALSE, time |-> 0]

\* g gives what is charged for the first requests.
ChargedUpTo(requests, n, g) ==
    g = [k \in 0 .. n |-> IF k = 0 THEN NoCharge
                          ELSE Execute(g[k - 1], requests[k])]

Account == [waits : BOOLEAN, time : Nat]

\* Charged is what Execute makes of one request after the other.
LEMMA ChargedIs ==
    ASSUME NEW requests \in Seq(Request)
    PROVE  /\ Charged(requests)[0] = NoCharge
           /\ \A k \in 1 .. Len(requests) :
                 Charged(requests)[k] = Execute(Charged(requests)[k - 1], requests[k])
           /\ \A k \in 0 .. Len(requests) : Charged(requests)[k] \in Account
<1> DEFINE L == Len(requests)
           f == Charged(requests)
<1>1. L \in Nat /\ \A k \in 1 .. L : requests[k] \in Request
  BY LenProperties, ElementOfSeq
<1>2. ChargedUpTo(requests, L, f)
  <2> DEFINE P == {n \in Nat : \E g : ChargedUpTo(requests, n, g)}
  <2>1. 0 \in P
    <3>1. ChargedUpTo(requests, 0, [k \in 0 .. 0 |-> NoCharge])
      BY DEF ChargedUpTo
    <3> QED BY <3>1
  <2>2. ASSUME NEW n \in Nat \ {0}, n - 1 \in P PROVE n \in P
    <3>1. PICK g : ChargedUpTo(requests, n - 1, g)
      BY <2>2
    <3> DEFINE h == [k \in 0 .. n |-> IF k = n THEN Execute(g[n - 1], requests[n]) ELSE g[k]]
    <3>2. ASSUME NEW k \in 0 .. n
          PROVE  h[k] = IF k = 0 THEN NoCharge ELSE Execute(h[k - 1], requests[k])
      <4>1. k # 0 => k - 1 \in 0 .. n - 1 /\ k - 1 # n /\ k - 1 \in 0 .. n
        OBVIOUS
      <4>2. k # 0 => h[k - 1] = g[k - 1]
        BY <4>1
      <4>3. CASE k = n
        BY <4>2, <4>3
      <4>4. CASE k # n
        <5>1. k \in 0 .. n - 1 /\ h[k] = g[k]
          BY <4>4
        <5>2. g[k] = IF k = 0 THEN NoCharge ELSE Execute(g[k - 1], requests[k])
          BY <3>1, <5>1 DEF ChargedUpTo
        <5> QED BY <4>2, <5>1, <5>2
      <4> QED BY <4>3, <4>4
    <3>3. ChargedUpTo(requests, n, h)
      BY <3>2 DEF ChargedUpTo
    <3> QED BY <3>3
  <2>3. \A n \in Nat : n \in P
    <3> HIDE DEF P
    <3> QED BY <2>1, <2>2, SetInduction
  <2>4. f = CHOOSE g : ChargedUpTo(requests, L, g)
    BY DEF Charged, ChargedUpTo, NoCharge
  <2> HIDE DEF f
  <2> QED BY <1>1, <2>3, <2>4
<1> HIDE DEF f
<1>3. f[0] = NoCharge /\ \A k \in 1 .. L : f[k] = Execute(f[k - 1], requests[k])
  BY <1>1, <1>2 DEF ChargedUpTo
<1> DEFINE Q == {k \in Nat : k <= L => f[k] \in Account}
<1>4. 0 \in Q
  <2>1. NoCharge \in Account
    BY DEF Account, NoCharge
  <2> QED BY <1>3, <2>1
<1>5. ASSUME NEW k \in Nat \ {0}, k - 1 \in Q PROVE k \in Q
  <2> SUFFICES ASSUME k <= L PROVE f[k] \in Account
    OBVIOUS
  <2> DEFINE s == f[k - 1]
  <2>1. k \in 1 .. L /\ s \in Account /\ f[k] = Execute(s, requests[k])
    BY <1>1, <1>3, <1>5
  <2> DEFINE r == requests[k]
  <2> HIDE DEF s, r
  <2>2. non_mem_inst_length \in Nat /\ Frac_mem_inst \in Nat
    BY SimulatorAssumption
  <2>3. Execute(s, r) \in Account
    BY <2>1, <2>2 DEF Execute, Account
  <2> QED BY <2>1, <2>3 DEF r
<1>6. \A k \in Nat : k \in Q
  <2> HIDE DEF Q
  <2> QED BY <1>4, <1>5, SetInduction
<1> QED BY <1>3, <1>6 DEF f

\* The requests of p that are left, and how many are done.
Left(p)  == memReq[p].size
Taken(p) == Len(trace[p]) - Left(p)

Unread(p) == Entries(processList, p) > 0
Waits(p)  == Entries(blockedProcess, p) > 0

\* memReq has the requests of p that are left.
HasRest(p) ==
    /\ Left(p) <= Len(trace[p])
    /\ \A j \in 1 .. Left(p) : Data(memReq[p])[j] = trace[p][Taken(p) + j]

\* A process that is ready or runs was charged what it took off the list; of an
\* instruction that a quantum cut it was charged all but fracLeft.
ChargedReady(p) ==
    /\ fracLeft[p] = 0 => user_time[p] = Charged(trace[p])[Taken(p)].time
    /\ fracLeft[p] > 0 =>
          /\ Left(p) > 0 /\ Data(memReq[p])[1] = NONMEM /\ fracLeft[p] < non_mem_inst_length
          /\ user_time[p] + fracLeft[p] = Charged(trace[p])[Taken(p)].time + non_mem_inst_length
    /\ Left(p) > 0 => ~ Charged(trace[p])[Taken(p)].waits

ChargedBlocked(p) ==
    /\ fracLeft[p] = 0 /\ user_time[p] = Charged(trace[p])[Taken(p)].time
    /\ Charged(trace[p])[Taken(p)].waits

ChargedSoFar(p) ==
    /\ Unread(p) => Left(p) = 0 /\ fracLeft[p] = 0 /\ user_time[p] = 0
    /\ ~ Unread(p) /\ p \notin done =>
          /\ HasRest(p)
          /\ IF Waits(p) THEN ChargedBlocked(p) ELSE ChargedReady(p)
    /\ p \in done => user_time[p] = Charged(trace[p])[Len(trace[p])].time

\* A process that is at its end has no request left; no page is ever resident.  Only
\* processes finish.
EndsAndPages ==
    /\ pc \in {"arrive", "pause"} /\ simPause = -1 => Left(running) = 0
    /\ pc = "disk" => simPause = 4
    /\ \A page \in Address : ~ Resident(page)
    /\ done \subseteq Process

TimesAreNumbers ==
    /\ fracLeft \in [Process -> Nat] /\ user_time \in [Process -> Nat]
    /\ current_time \in Int /\ stopTime \in Int /\ start_time \in [Process -> Int]

ChargeInv == ListInv /\ EndsAndPages /\ TimesAreNumbers /\ \A p \in Process : ChargedSoFar(p)

\* A process whose account and place are as before.
LEMMA SameAccount ==
    ASSUME NEW q \in Process, ChargedSoFar(q), trace' = trace, memReq'[q] = memReq[q],
           fracLeft'[q] = fracLeft[q], user_time'[q] = user_time[q],
           Unread(q)' <=> Unread(q), Waits(q)' <=> Waits(q), (q \in done') <=> (q \in done)
    PROVE  ChargedSoFar(q)'
  BY DEF ChargedSoFar, ChargedReady, ChargedBlocked, HasRest, Left, Taken

\* A list of requests has a first one unless it is empty.
LEMMA NoRequestLeft ==
    ASSUME NEW list, Chained(Request, list)
    PROVE  list.size \in Nat /\ (gll_first(list) = NULL <=> list.size = 0)
<1>1. NULL \notin Request
  BY SimulatorAssumption DEF Request, NONMEM, NULL
<1>2. /\ Data(list) \in Seq(Request) /\ Len(Data(list)) = list.size /\ list.size \in Nat
      /\ gll_first(list) = IF list.size = 0 THEN NULL ELSE Data(list)[1]
  BY LinksAgree, Gets
<1>3. list.size > 0 => Data(list)[1] \in Request
  BY <1>2
<1> QED BY <1>1, <1>2, <1>3

\* The first request is the next of the trace.
LEMMA FirstRequest ==
    ASSUME RequestsAreChained, NEW p \in Process
    PROVE  /\ Left(p) \in Nat /\ (gll_first(memReq[p]) = NULL <=> Left(p) = 0)
           /\ Left(p) > 0 => /\ gll_first(memReq[p]) \in Request
                             /\ gll_first(memReq[p]) = Data(memReq[p])[1]
           /\ Data(memReq[p]) \in Seq(Request) /\ Len(Data(memReq[p])) = Left(p)
           /\ trace[p] \in Seq(Request) /\ Len(trace[p]) \in Nat
<1> DEFINE list == memReq[p]
<1>1. Chained(Request, list) /\ trace[p] \in Seq(Request)
  BY DEF RequestsAreChained
<1>2. NULL \notin Request
  BY SimulatorAssumption DEF Request, NONMEM, NULL
<1> HIDE DEF list
<1>3. /\ Data(list) \in Seq(Request) /\ Len(Data(list)) = list.size /\ list.size \in Nat
      /\ gll_first(list) = IF list.size = 0 THEN NULL ELSE Data(list)[1]
  BY <1>1, LinksAgree, Gets
<1>4. list.size > 0 => Data(list)[1] \in Request
  BY <1>3
<1> QED BY <1>1, <1>2, <1>3, <1>4, LenProperties DEF list, Left

\* When it is taken off the list the others are left.
LEMMA RequestTaken ==
    ASSUME RequestsAreChained, NEW p \in Process, HasRest(p), Left(p) > 0,
           trace' = trace, memReq'[p] = gll_pop(memReq[p])
    PROVE  /\ HasRest(p)' /\ Left(p)' = Left(p) - 1 /\ Taken(p)' = Taken(p) + 1
           /\ Taken(p) \in 0 .. Len(trace[p])
           /\ Charged(trace[p])[Taken(p)] \in Account
           /\ Charged(trace[p])[Taken(p)']
                = Execute(Charged(trace[p])[Taken(p)], gll_first(memReq[p]))
<1> DEFINE d == Data(memReq[p])
           e == Data(memReq'[p])
           T == trace[p]
           n == Left(p)
           k == Taken(p)
           x == gll_first(memReq[p])
<1>1. n \in Nat \ {0} /\ d \in Seq(Request) /\ Len(d) = n /\ T \in Seq(Request) /\ Len(T) \in Nat /\ x = d[1]
  BY FirstRequest
<1>2. n <= Len(T) /\ k = Len(T) - n /\ \A j \in 1 .. n : d[j] = T[k + j]
  BY DEF HasRest, Taken
<1>3. Chained(Request, memReq'[p]) /\ e = Tail(d)
  BY <1>1, RequestsMove, Popped DEF RequestsAreChained, Left
<1>4. memReq'[p].size = Len(e)
  BY <1>3, LinksAgree
<1> HIDE DEF d, e, T, n, k, x
<1>5. d # <<>>
  BY <1>1
<1>6. Len(e) = n - 1 /\ \A j \in 1 .. n - 1 : e[j] = d[j + 1]
  BY <1>1, <1>3, <1>5, HeadTailProperties
<1>7. Left(p)' = n - 1
  BY <1>4, <1>6 DEF Left
<1>8. Taken(p)' = k + 1
  BY <1>1, <1>2, <1>7 DEF Taken, T
<1>9. \A j \in 1 .. n - 1 : e[j] = T[(k + 1) + j]
  <2> TAKE j \in 1 .. n - 1
  <2> DEFINE i == j + 1
  <2>1. i \in 1 .. n /\ e[j] = d[i] /\ k + i = (k + 1) + j
    BY <1>1, <1>2, <1>6
  <2> HIDE DEF i
  <2>2. d[i] = T[k + i]
    BY <1>2, <2>1
  <2> QED BY <2>1, <2>2
<1>10. HasRest(p)'
  <2>1. n - 1 <= Len(T)
    BY <1>1, <1>2
  <2> QED BY <1>7, <1>8, <1>9, <2>1 DEF HasRest, T, e
<1> DEFINE m == k + 1
<1>11. m \in 1 .. Len(T) /\ m - 1 = k /\ k \in 0 .. Len(T) /\ 1 \in 1 .. n
  BY <1>1, <1>2
<1> HIDE DEF m
<1>12. Charged(T)[k] \in Account /\ Charged(T)[m] = Execute(Charged(T)[m - 1], T[m])
  BY <1>1, <1>11, ChargedIs
<1>13. T[m] = x
  BY <1>1, <1>2, <1>11 DEF m
<1> QED BY <1>7, <1>8, <1>10, <1>11, <1>12, <1>13 DEF d, T, n, k, x, m

\* Where the processes are that a list has first.
LEMMA PlacesOfFirst ==
    ASSUME ListInv, NEW p \in Process
    PROVE  /\ p = running => ~ Unread(p) /\ ~ Waits(p) /\ p \notin done
           /\ p = arriving => /\ Unread(p) /\ ~ Waits(p) /\ p \notin done /\ p # running
                              /\ Entries(processList, p) = 1
           /\ p = faulted => /\ Waits(p) /\ ~ Unread(p) /\ p \notin done /\ p # running
                             /\ Entries(blockedProcess, p) = 1
<1> DEFINE a == Entries(processList, p)
           b == Entries(readyProcess, p)
           c == Entries(runningProcess, p)
           d == Entries(blockedProcess, p)
<1>1. p # NULL
  BY SimulatorAssumption
<1>2. a \in Nat /\ b \in Nat /\ c \in Nat /\ d \in Nat
  BY EntriesInNat DEF ListInv
<1>3. a + b + c + d + (IF p \in done THEN 1 ELSE 0) = 1
  BY DEF ListInv, OnePlace
<1>4. (p = arriving => a > 0) /\ (p = running => c > 0) /\ (p = faulted => d > 0)
  <2>1. \A V, list : Chained(V, list) /\ gll_first(list) = p => Entries(list, p) > 0
    <3> TAKE V, list
    <3> SUFFICES ASSUME Chained(V, list), gll_first(list) = p PROVE Entries(list, p) > 0
      OBVIOUS
    <3>1. Entries(gll_pop(list), p) \in Nat /\ Entries(list, p) = Entries(gll_pop(list), p) + 1
      BY <1>1, EntriesPopped
    <3> QED BY <3>1
  <2> QED BY <2>1 DEF ListInv, ListsAreChained, arriving, running, faulted
<1>5. (Unread(p) <=> a > 0) /\ (Waits(p) <=> d > 0)
  BY DEF Unread, Waits
<1> HIDE DEF a, b, c, d
<1>6. p = running => ~ (a > 0) /\ ~ (d > 0) /\ p \notin done
  BY <1>2, <1>3, <1>4
<1>7. p = arriving => a = 1 /\ ~ (d > 0) /\ ~ (c > 0) /\ p \notin done
  BY <1>2, <1>3, <1>4
<1>8. p = faulted => d = 1 /\ ~ (a > 0) /\ ~ (c > 0) /\ p \notin done
  BY <1>2, <1>3, <1>4
<1> QED BY <1>4, <1>5, <1>6, <1>7, <1>8 DEF a, d

\* What Execute does to the account of a process.
LEMMA ExecuteIs ==
    ASSUME NEW s \in Account, NEW r
    PROVE  /\ Execute(s, r).time \in Nat
           /\ s.waits => Execute(s, r).time = s.time /\ (Execute(s, r).waits <=> r = NONMEM)
           /\ ~ s.waits /\ r = NONMEM => /\ Execute(s, r).time = s.time + non_mem_inst_length
                                         /\ ~ Execute(s, r).waits
           /\ ~ s.waits /\ r # NONMEM => /\ Execute(s, r).time = s.time + Frac_mem_inst
                                         /\ Execute(s, r).waits
<1>1. non_mem_inst_length \in Nat /\ Frac_mem_inst \in Nat /\ s.time \in Nat
  BY SimulatorAssumption DEF Account
<1>2. CASE s.waits
  BY <1>1, <1>2 DEF Execute
<1>3. CASE ~ s.waits
  <2>1. CASE r = NONMEM
    BY <1>1, <1>3, <2>1 DEF Execute
  <2>2. CASE r # NONMEM
    BY <1>1, <1>3, <2>2 DEF Execute
  <2> QED BY <1>3, <2>1, <2>2
<1> QED BY <1>2, <1>3

\* A process that arrives was charged nothing.
LEMMA ArrivalCharge ==
    ASSUME ChargeInv, MoveToReady, arriving # NULL, Moves(arriving, processList, readyProcess,
           processList', readyProcess'),
           UNCHANGED <<trace, blockedProcess, fracLeft, user_time, done>>, NEW q \in Process
    PROVE  ChargedSoFar(q)'
<1> DEFINE p == arriving
<1>1. p \in Process
  BY Firsts DEF ChargeInv, ListInv
<1>2. /\ Entries(processList, q) \in Nat /\ Entries(processList', q) \in Nat
      /\ Entries(processList, q) = Entries(processList', q) + Is(p, q)
  BY DEF Moves
<1>3. Waits(q)' <=> Waits(q)
  BY DEF Waits
<1>4. memReq' = [memReq EXCEPT ![p] = PushAll(memReq[p], trace[p])]
  BY DEF MoveToReady
<1>5. DOMAIN memReq = Process /\ ChargedSoFar(q)
  BY DEF ChargeInv, ListInv, RequestsAreChained
<1> HIDE DEF p
<1>6. CASE q # p
  <2>1. memReq'[q] = memReq[q]
    BY <1>4, <1>6
  <2>2. Unread(q)' <=> Unread(q)
    BY <1>2, <1>6 DEF Unread, Is
  <2> QED BY <1>3, <1>5, <2>1, <2>2, SameAccount
<1>7. CASE q = p
  <2>1. Unread(q) /\ ~ Waits(q) /\ q \notin done /\ Entries(processList, q) = 1
    BY <1>7, PlacesOfFirst DEF ChargeInv, p
  <2>2. ~ Unread(q)'
    BY <1>2, <1>7, <2>1 DEF Unread, Is
  <2>3. Left(q) = 0 /\ fracLeft[q] = 0 /\ user_time[q] = 0
    BY <1>5, <2>1 DEF ChargedSoFar
  <2>4. /\ Data(memReq[q]) \in Seq(Request) /\ Len(Data(memReq[q])) = 0 /\ Chained(Request, memReq[q])
        /\ trace[q] \in Seq(Request) /\ Len(trace[q]) \in Nat
    BY <2>3, FirstRequest DEF ChargeInv, ListInv, RequestsAreChained
  <2> DEFINE T == trace[q]
             list == memReq'[q]
  <2>5. list = PushAll(memReq[q], T)
    BY <1>4, <1>5, <1>7
  <2>6. Chained(Request, PushAll(memReq[q], T)) /\ Data(PushAll(memReq[q], T)) = Data(memReq[q]) \o T
    BY <2>4, AllPushed
  <2>7. Data(memReq[q]) \o T = T
    <3>1. Data(memReq[q]) = <<>>
      BY <2>4, EmptySeq
    <3> QED BY <2>4, <3>1, ConcatEmptySeq
  <2> HIDE DEF list, T
  <2>8. Data(list) = T /\ list.size = Len(T)
    BY <2>5, <2>6, <2>7, LinksAgree
  <2>9. Left(q)' = Len(T) /\ Taken(q)' = 0
    BY <2>4, <2>8 DEF Left, Taken, T, list
  <2>10. HasRest(q)'
    <3>1. \A j \in 1 .. Len(T) : T[j] = T[0 + j]
      BY <2>4 DEF T
    <3>2. Left(q)' <= Len(T)
      BY <2>4, <2>9 DEF T
    <3> QED BY <2>8, <2>9, <3>1, <3>2 DEF HasRest, list, T
  <2>11. Charged(T)[0] = NoCharge
    BY <2>4, ChargedIs DEF T
  <2>12. ChargedReady(q)'
    <3>1. Charged(trace'[q])[Taken(q)'] = NoCharge
      BY <2>9, <2>11 DEF T
    <3> QED BY <2>3, <3>1 DEF ChargedReady, NoCharge
  <2>13. ~ Waits(q)' /\ q \notin done'
    BY <1>3, <2>1
  <2> QED BY <2>2, <2>10, <2>12, <2>13 DEF ChargedSoFar
<1> QED BY <1>6, <1>7

\* An instruction without an address may be cut by the end of the quantum; then fracLeft
\* has what it lacks.
LEMMA NonMemCharge ==
    ASSUME ChargeInv, NonMem, NEW q \in Process
    PROVE  ChargedSoFar(q)'
<1> DEFINE p == running
<1>1. p \in Process /\ pc = "read" /\ current_time < stopTime
  BY Firsts DEF ChargeInv, ListInv, OneRuns, NonMem, Reads
<1>2. UNCHANGED <<trace, lists, done>>
  BY DEF NonMem, input
<1>3. (Waits(q)' <=> Waits(q)) /\ (Unread(q)' <=> Unread(q)) /\ (q \in done') = (q \in done)
  BY <1>2 DEF Waits, Unread, lists
<1>4. DOMAIN memReq = Process /\ ChargedSoFar(q) /\ TimesAreNumbers
  BY DEF ChargeInv, ListInv, RequestsAreChained
<1> DEFINE left == fracLeft[p]
           n == non_mem_inst_length
           needed == IF left > 0 THEN left ELSE n
           time == IF stopTime - current_time < needed THEN stopTime - current_time ELSE needed
<1>5. /\ user_time' = [user_time EXCEPT ![p] = @ + time]
      /\ fracLeft' = [fracLeft EXCEPT ![p] = IF time < needed THEN needed - time ELSE 0]
      /\ memReq' = [memReq EXCEPT ![p] = IF time < needed THEN @ ELSE gll_pop(@)]
      /\ gll_first(memReq[p]) = NONMEM
  BY DEF NonMem, Charge
<1>6. left \in Nat /\ n \in Nat \ {0} /\ user_time[p] \in Nat
  BY <1>1, <1>4, SimulatorAssumption DEF TimesAreNumbers
<1>7. stopTime - current_time \in Nat \ {0}
  BY <1>1, <1>4 DEF TimesAreNumbers
<1>8. /\ needed \in Nat \ {0} /\ time \in Nat \ {0} /\ (time < needed \/ time = needed)
      /\ (left > 0 => needed = left) /\ (left = 0 => needed = n)
  BY <1>6, <1>7
<1> HIDE DEF p, left, n, needed, time
<1>9. CASE q # p
  <2>1. memReq'[q] = memReq[q] /\ fracLeft'[q] = fracLeft[q] /\ user_time'[q] = user_time[q]
    BY <1>1, <1>4, <1>5, <1>9 DEF TimesAreNumbers
  <2> QED BY <1>2, <1>3, <1>4, <2>1, SameAccount
<1>10. CASE q = p
  <2>1. ~ Unread(q) /\ ~ Waits(q) /\ q \notin done
    BY <1>10, PlacesOfFirst DEF ChargeInv, p
  <2>2. HasRest(q) /\ ChargedReady(q)
    BY <1>4, <2>1 DEF ChargedSoFar
  <2>3. Left(q) > 0 /\ Left(q) \in Nat
    <3>1. NONMEM # NULL
      BY DEF NONMEM, NULL
    <3>2. RequestsAreChained
      BY DEF ChargeInv, ListInv
    <3> QED BY <1>5, <1>10, <3>1, <3>2, FirstRequest
  <2> DEFINE c == Charged(trace[q])[Taken(q)]
  <2>4. /\ fracLeft[q] = left
        /\ left = 0 => user_time[q] = c.time
        /\ left > 0 => left < n /\ user_time[q] + left = c.time + n
        /\ Data(memReq[q])[1] = NONMEM /\ ~ c.waits
    <3>1. gll_first(memReq[q]) = Data(memReq[q])[1]
      BY <2>3, FirstRequest DEF ChargeInv, ListInv
    <3> QED BY <1>5, <1>10, <2>2, <2>3, <3>1 DEF ChargedReady, left, n
  <2>5. user_time'[q] = user_time[q] + time
    BY <1>1, <1>4, <1>5, <1>10 DEF TimesAreNumbers
  <2>6. CASE time < needed
    <3>1. memReq'[q] = memReq[q] /\ fracLeft'[q] = needed - time
      BY <1>1, <1>4, <1>5, <1>10, <2>6 DEF TimesAreNumbers
    <3>2. HasRest(q)' /\ Taken(q)' = Taken(q) /\ Left(q)' = Left(q)
      BY <1>2, <2>2, <3>1 DEF HasRest, Taken, Left
    <3>3. Charged(trace'[q])[Taken(q)'] = c
      BY <1>2, <3>2
    <3> HIDE DEF c
    <3>4. fracLeft'[q] > 0 /\ fracLeft'[q] < n
      BY <1>6, <1>8, <2>4, <2>6, <3>1
    <3>5. user_time'[q] + fracLeft'[q] = user_time[q] + needed
      BY <1>6, <1>8, <1>10, <2>5, <3>1
    <3>6. user_time'[q] + fracLeft'[q] = c.time + n
      BY <1>6, <1>8, <2>4, <3>5
    <3>7. ChargedReady(q)'
      BY <2>3, <2>4, <3>1, <3>2, <3>3, <3>4, <3>6 DEF ChargedReady, n
    <3> QED BY <1>3, <2>1, <3>2, <3>7 DEF ChargedSoFar
  <2>7. CASE time = needed
    <3>1. ~ (time < needed)
      BY <1>8, <2>7
    <3>2. memReq'[q] = gll_pop(memReq[q]) /\ fracLeft'[q] = 0
      BY <1>1, <1>4, <1>5, <1>10, <3>1 DEF TimesAreNumbers
    <3>3. /\ HasRest(q)' /\ c \in Account
          /\ Charged(trace[q])[Taken(q)'] = Execute(c, gll_first(memReq[q]))
      BY <1>2, <2>2, <2>3, <3>2, RequestTaken DEF ChargeInv, ListInv
    <3>4. gll_first(memReq[q]) = NONMEM
      BY <1>5, <1>10
    <3> DEFINE e == Charged(trace'[q])[Taken(q)']
    <3> HIDE DEF c
    <3>5. e = Execute(c, NONMEM)
      BY <1>2, <3>3, <3>4
    <3>6. e.time = c.time + n /\ ~ e.waits
      <4>1. ~ c.waits
        BY <2>4
      <4> HIDE DEF e
      <4> QED BY <3>3, <3>5, <4>1, ExecuteIs DEF n
    <3>7. user_time'[q] = c.time + n
      <4>1. c.time \in Nat
        BY <3>3 DEF Account
      <4> QED BY <1>6, <1>8, <1>10, <2>4, <2>5, <2>7, <4>1
    <3>8. ChargedReady(q)'
      BY <3>2, <3>6, <3>7 DEF ChargedReady
    <3> QED BY <1>3, <2>1, <3>3, <3>8 DEF ChargedSoFar
  <2> QED BY <1>8, <2>6, <2>7
<1> QED BY <1>9, <1>10

\* The same for a process that an action leaves alone.
LEMMA OthersKeep ==
    ASSUME ChargeInv, NEW p \in Process, NEW q \in Process, q # p, NEW a, NEW b, NEW c,
           memReq' = [memReq EXCEPT ![p] = a], fracLeft' = [fracLeft EXCEPT ![p] = b],
           user_time' = [user_time EXCEPT ![p] = c], UNCHANGED <<trace, processList>>,
           Entries(blockedProcess', q) = Entries(blockedProcess, q), (q \in done') <=> (q \in done)
    PROVE  ChargedSoFar(q)'
<1>1. memReq'[q] = memReq[q] /\ fracLeft'[q] = fracLeft[q] /\ user_time'[q] = user_time[q]
  BY DEF ChargeInv, ListInv, RequestsAreChained, TimesAreNumbers
<1>2. (Waits(q)' <=> Waits(q)) /\ (Unread(q)' <=> Unread(q))
  BY DEF Waits, Unread
<1> QED BY <1>1, <1>2, SameAccount DEF ChargeInv

\* A memory access is charged at once.  It is the last request of the process, or the
\* process waits for the disk.
LEMMA MemCharge ==
    ASSUME ChargeInv, Mem, NEW q \in Process
    PROVE  ChargedSoFar(q)'
<1> DEFINE p == running
           x == gll_first(memReq[p])
           F == Frac_mem_inst
<1>1. p \in Process /\ pc = "read" /\ current_time < stopTime /\ x \in Address
  BY Firsts DEF ChargeInv, ListInv, OneRuns, Mem, Reads
<1>2. UNCHANGED <<trace, processList, done>>
  BY DEF Mem, input
<1>3. ListInv'
  BY ListStep DEF ChargeInv, Next
<1>4. DOMAIN memReq = Process /\ ChargedSoFar(q) /\ TimesAreNumbers /\ RequestsAreChained
  BY DEF ChargeInv, ListInv, RequestsAreChained
<1>5. F \in {0, 1}
  BY SimulatorAssumption
<1>6. ~ (stopTime - current_time < F)
  BY <1>1, <1>4, <1>5 DEF TimesAreNumbers
<1> DEFINE time == IF stopTime - current_time < F THEN stopTime - current_time ELSE F
<1>7. /\ user_time' = [user_time EXCEPT ![p] = @ + time]
      /\ fracLeft' = [fracLeft EXCEPT ![p] = IF time < F THEN F - time ELSE fracLeft[p]]
      /\ memReq' = [memReq EXCEPT ![p] = IF time < F THEN @ ELSE gll_pop(@)]
  BY DEF Mem, Charge
<1>8. time = F /\ ~ (F < F)
  BY <1>5, <1>6
<1> HIDE DEF time, F
<1>9. /\ user_time' = [user_time EXCEPT ![p] = user_time[p] + F]
      /\ fracLeft' = [fracLeft EXCEPT ![p] = fracLeft[p]]
      /\ memReq' = [memReq EXCEPT ![p] = gll_pop(memReq[p])]
  BY <1>7, <1>8
<1>10. \/ /\ gll_first(memReq'[p]) = NULL
          /\ UNCHANGED <<runningProcess, blockedProcess>>
       \/ Block
  <2>1. ~ Resident(x)
    BY <1>1 DEF ChargeInv, EndsAndPages
  <2> QED BY <2>1 DEF Mem
<1>11. Block => Moves(p, runningProcess, blockedProcess, runningProcess', blockedProcess')
  BY <1>1, Moved DEF ChargeInv, ListInv, ListsAreChained, Block, running
<1>12. /\ q # p \/ ~ Block => Entries(blockedProcess', q) = Entries(blockedProcess, q)
       /\ q = p /\ Block => Waits(q)'
  <2>1. CASE Block
    <3>1. /\ {Entries(blockedProcess, q), Entries(blockedProcess', q)} \subseteq Nat
          /\ Entries(blockedProcess', q) = Entries(blockedProcess, q) + Is(p, q)
      BY <1>11, <2>1 DEF Moves
    <3> QED BY <2>1, <3>1 DEF Is, Waits
  <2>2. CASE ~ Block
    BY <1>10, <2>2
  <2> QED BY <2>1, <2>2
<1> HIDE DEF p
<1>13. CASE q # p
  BY <1>1, <1>2, <1>9, <1>12, <1>13, OthersKeep
<1>14. CASE q = p
  <2>1. ~ Unread(q) /\ ~ Waits(q) /\ q \notin done
    BY <1>14, PlacesOfFirst DEF ChargeInv, p
  <2>2. HasRest(q) /\ ChargedReady(q)
    BY <1>4, <2>1 DEF ChargedSoFar
  <2>3. Left(q) > 0 /\ Left(q) \in Nat /\ x = Data(memReq[q])[1] /\ x # NONMEM
    <3>1. x # NULL /\ x # NONMEM
      BY <1>1, SimulatorAssumption
    <3> QED BY <1>4, <1>14, <3>1, FirstRequest
  <2> DEFINE c == Charged(trace[q])[Taken(q)]
             e == Charged(trace'[q])[Taken(q)']
  <2>4. fracLeft[q] = 0 /\ user_time[q] = c.time /\ ~ c.waits
    <3>1. fracLeft[q] \in Nat
      BY <1>4 DEF TimesAreNumbers
    <3>2. ~ (fracLeft[q] > 0)
      BY <2>2, <2>3 DEF ChargedReady
    <3> QED BY <2>2, <2>3, <3>1, <3>2 DEF ChargedReady
  <2>5. user_time'[q] = user_time[q] + F /\ fracLeft'[q] = 0 /\ memReq'[q] = gll_pop(memReq[q])
    BY <1>4, <1>9, <1>14, <2>4 DEF TimesAreNumbers
  <2>6. HasRest(q)' /\ c \in Account /\ Charged(trace[q])[Taken(q)'] = Execute(c, x)
    BY <1>2, <1>4, <1>14, <2>2, <2>3, <2>5, RequestTaken
  <2>7. e = Execute(c, x)
    BY <1>2, <2>6
  <2> HIDE DEF c, e, x
  <2>8. e.time = c.time + F /\ e.waits
    BY <2>3, <2>4, <2>6, <2>7, ExecuteIs DEF F
  <2>9. fracLeft'[q] = 0 /\ user_time'[q] = e.time
    BY <2>4, <2>5, <2>8
  <2>10. ~ Unread(q)' /\ q \notin done'
    BY <1>2, <2>1 DEF Unread
  <2>11. CASE Block
    <3>1. ChargedBlocked(q)'
      BY <2>8, <2>9 DEF ChargedBlocked, e
    <3> QED BY <1>12, <1>14, <2>6, <2>10, <2>11, <3>1 DEF ChargedSoFar
  <2>12. CASE ~ Block
    <3>1. Left(q)' = 0
      <4>1. Chained(Request, memReq'[q]) /\ gll_first(memReq'[q]) = NULL
        BY <1>3, <1>10, <1>14, <2>12 DEF ListInv, RequestsAreChained
      <4> QED BY <4>1, NoRequestLeft DEF Left
    <3>2. ChargedReady(q)'
      BY <2>9, <3>1 DEF ChargedReady, e
    <3>3. ~ Waits(q)'
      BY <1>12, <2>1, <2>12 DEF Waits
    <3> QED BY <2>6, <2>10, <3>2, <3>3 DEF ChargedSoFar
  <2> QED BY <2>11, <2>12
<1> QED BY <1>13, <1>14

\* When nothing is charged and one process is not left alone.
LEMMA OthersKeepTime ==
    ASSUME ChargeInv, NEW p \in Process, NEW q \in Process, q # p, NEW a,
           memReq' = [memReq EXCEPT ![p] = a], UNCHANGED <<fracLeft, user_time, trace, processList>>,
           Entries(blockedProcess', q) = Entries(blockedProcess, q), (q \in done') <=> (q \in done)
    PROVE  ChargedSoFar(q)'
<1>1. fracLeft' = [fracLeft EXCEPT ![p] = fracLeft[p]] /\ user_time' = [user_time EXCEPT ![p] = user_time[p]]
  BY DEF ChargeInv, TimesAreNumbers
<1> DEFINE b == fracLeft[p]
           c == user_time[p]
<1>2. fracLeft' = [fracLeft EXCEPT ![p] = b] /\ user_time' = [user_time EXCEPT ![p] = c]
  BY <1>1
<1> HIDE DEF b, c
<1> QED BY <1>2, OthersKeep

\* The process that waits drops its requests up to and with the next address; with
\* that it becomes ready.
LEMMA DiskCharge ==
    ASSUME ChargeInv, SkipNonMem \/ SwapIn, NEW q \in Process
    PROVE  ChargedSoFar(q)'
<1> DEFINE p == faulted
           x == gll_first(memReq[p])
<1>1. x # NULL /\ (SkipNonMem => x = NONMEM) /\ (SwapIn => x \in Address) /\ p # NULL
  <2>1. NONMEM # NULL /\ NULL \notin Address
    BY SimulatorAssumption DEF NONMEM, NULL
  <2> QED BY <2>1 DEF SkipNonMem, SwapIn, FirstOfFaulted
<1>2. p \in Process
  BY <1>1, Firsts DEF ChargeInv, ListInv
<1>3. /\ UNCHANGED <<trace, processList, done, fracLeft, user_time>>
      /\ memReq' = [memReq EXCEPT ![p] = gll_pop(memReq[p])]
  BY DEF SkipNonMem, SwapIn, lists, input
<1>4. DOMAIN memReq = Process /\ ChargedSoFar(q) /\ RequestsAreChained
  BY DEF ChargeInv, ListInv, RequestsAreChained
<1>5. SwapIn => Moves(p, blockedProcess, readyProcess, blockedProcess', readyProcess')
  <2> SUFFICES ASSUME SwapIn
               PROVE  Moves(p, blockedProcess, readyProcess, blockedProcess', readyProcess')
    OBVIOUS
  <2>1. readyProcess' = gll_pushBack(readyProcess, p) /\ blockedProcess' = gll_pop(blockedProcess)
    BY DEF SwapIn
  <2>2. Chained(Process, readyProcess) /\ Chained(Process, blockedProcess)
    BY DEF ChargeInv, ListInv, ListsAreChained
  <2>3. Moves(p, blockedProcess, readyProcess, gll_pop(blockedProcess), gll_pushBack(readyProcess, p))
    BY <1>2, <2>2, Moved DEF faulted
  <2> QED BY <2>1, <2>3
<1>6. SkipNonMem => blockedProcess' = blockedProcess
  BY DEF SkipNonMem, lists
<1> HIDE DEF p
<1>7. CASE q # p
  <2>1. Entries(blockedProcess', q) = Entries(blockedProcess, q)
    <3>1. CASE SkipNonMem
      BY <1>6, <3>1
    <3>2. CASE SwapIn
      <4>1. /\ {Entries(blockedProcess, q), Entries(blockedProcess', q)} \subseteq Nat
            /\ Entries(blockedProcess, q) = Entries(blockedProcess', q) + Is(p, q)
        BY <1>5, <3>2 DEF Moves
      <4> QED BY <1>7, <4>1 DEF Is
    <3> QED BY <3>1, <3>2
  <2> QED BY <1>2, <1>3, <1>7, <2>1, OthersKeepTime
<1>8. CASE q = p
  <2>1. Waits(q) /\ ~ Unread(q) /\ q \notin done /\ Entries(blockedProcess, q) = 1
    BY <1>8, PlacesOfFirst DEF ChargeInv, p
  <2>2. HasRest(q) /\ ChargedBlocked(q)
    BY <1>4, <2>1 DEF ChargedSoFar
  <2>3. Left(q) > 0
    BY <1>1, <1>4, <1>8, FirstRequest
  <2> DEFINE c == Charged(trace[q])[Taken(q)]
             e == Charged(trace'[q])[Taken(q)']
  <2>4. fracLeft'[q] = 0 /\ user_time'[q] = c.time /\ c.waits
    BY <1>3, <2>2 DEF ChargedBlocked
  <2>5. memReq'[q] = gll_pop(memReq[q])
    BY <1>3, <1>4, <1>8
  <2>6. HasRest(q)' /\ c \in Account /\ Charged(trace[q])[Taken(q)'] = Execute(c, x)
    BY <1>3, <1>4, <1>8, <2>2, <2>3, <2>5, RequestTaken
  <2>7. e = Execute(c, x)
    BY <1>3, <2>6
  <2> HIDE DEF c, e, x
  <2>8. e.time = c.time /\ (e.waits <=> x = NONMEM)
    BY <2>4, <2>6, <2>7, ExecuteIs
  <2>9. ~ Unread(q)' /\ q \notin done'
    BY <1>3, <2>1 DEF Unread
  <2>10. CASE SkipNonMem
    <3>1. ChargedBlocked(q)'
      BY <1>1, <2>4, <2>8, <2>10 DEF ChargedBlocked, e
    <3>2. Waits(q)'
      BY <1>6, <2>1, <2>10 DEF Waits
    <3> QED BY <2>6, <2>9, <3>1, <3>2 DEF ChargedSoFar
  <2>11. CASE SwapIn
    <3>1. x # NONMEM
      BY <1>1, <2>11, SimulatorAssumption
    <3>2. ChargedReady(q)'
      BY <2>4, <2>8, <3>1 DEF ChargedReady, e
    <3>3. ~ Waits(q)'
      <4>1. /\ Entries(blockedProcess', q) \in Nat
            /\ 1 = Entries(blockedProcess', q) + Is(p, q)
        BY <1>5, <2>1, <2>11 DEF Moves
      <4> QED BY <1>8, <4>1 DEF Is, Waits
    <3> QED BY <2>6, <2>9, <3>2, <3>3 DEF ChargedSoFar
  <2> QED BY <2>10, <2>11
<1> QED BY <1>7, <1>8

\* A process finishes when it has no request left.
LEMMA EndCharge ==
    ASSUME ChargeInv, AfterEnd, NEW q \in Process
    PROVE  ChargedSoFar(q)'
<1> DEFINE p == running
<1>1. p \in Process /\ Left(p) = 0
  BY Firsts DEF ChargeInv, ListInv, OneRuns, EndsAndPages, AfterEnd
<1>2. /\ UNCHANGED <<trace, processList, blockedProcess, fracLeft, user_time>>
      /\ memReq' = [memReq EXCEPT ![p] = gll_init] /\ done' = done \cup {p}
  BY DEF AfterEnd, input
<1>3. DOMAIN memReq = Process /\ ChargedSoFar(q) /\ TimesAreNumbers /\ RequestsAreChained
  BY DEF ChargeInv, ListInv, RequestsAreChained
<1> HIDE DEF p
<1>4. CASE q # p
  <2>1. (q \in done') <=> (q \in done)
    BY <1>2, <1>4
  <2> DEFINE a == gll_init
  <2>2. memReq' = [memReq EXCEPT ![p] = a]
    BY <1>2
  <2> HIDE DEF a
  <2> QED BY <1>1, <1>2, <1>4, <2>1, <2>2, OthersKeepTime
<1>5. CASE q = p
  <2>1. ~ Unread(q) /\ ~ Waits(q) /\ q \notin done
    BY <1>5, PlacesOfFirst DEF ChargeInv, p
  <2>2. ChargedReady(q) /\ Left(q) = 0
    BY <1>1, <1>3, <1>5, <2>1 DEF ChargedSoFar
  <2>3. fracLeft[q] \in Nat /\ ~ (fracLeft[q] > 0)
    BY <1>3, <2>2 DEF ChargedReady, TimesAreNumbers
  <2>4. Taken(q) = Len(trace[q])
    BY <1>3, <2>2, FirstRequest DEF Taken
  <2>5. user_time[q] = Charged(trace[q])[Len(trace[q])].time
    BY <2>2, <2>3, <2>4 DEF ChargedReady
  <2>6. ~ Unread(q)' /\ q \in done'
    BY <1>2, <1>5, <2>1 DEF Unread
  <2> QED BY <1>2, <2>5, <2>6 DEF ChargedSoFar
<1> QED BY <1>4, <1>5

\* At the start nothing was charged to anyone.
LEMMA ChargeInit == Init => ChargeInv
<1> SUFFICES ASSUME Init PROVE ChargeInv
  OBVIOUS
<1>1. ListInv
  BY ListInit
<1>2. EndsAndPages
  <2>1. \A a \in Address : ~ Resident(a)
    <3> SUFFICES ASSUME NEW a \in Address PROVE Zero # Pointer(a)
      BY DEF Init, Resident
    <3> QED BY DEF Zero, Pointer
  <2> QED BY <2>1 DEF Init, EndsAndPages
<1>3. TimesAreNumbers
  <2>1. user_time \in [Process -> Nat] /\ fracLeft \in [Process -> Nat]
    BY DEF Init
  <2>2. start_time \in [Process -> Int]
    <3>1. start_time \in [Process -> StartTimes]
      BY DEF Init
    <3>2. StartTimes \subseteq Int
      BY SimulatorAssumption
    <3> QED BY <3>1, <3>2
  <2> QED BY <2>1, <2>2 DEF Init, TimesAreNumbers
<1>4. ASSUME NEW p \in Process PROVE ChargedSoFar(p)
  <2>1. Entries(processList, p) = 1 /\ p \notin done
    <3>1. /\ Entries(readyProcess, p) = 0 /\ Entries(runningProcess, p) = 0
          /\ Entries(blockedProcess, p) = 0 /\ p \notin done
      BY NoEntries DEF Init
    <3>2. Entries(processList, p) \in Nat
      BY <1>1, EntriesInNat DEF ListInv
    <3> QED BY <1>1, <3>1, <3>2 DEF ListInv, OnePlace
  <2>2. memReq[p] = gll_init /\ fracLeft[p] = 0 /\ user_time[p] = 0
    BY DEF Init
  <2>3. Left(p) = 0
    BY <2>2 DEF Left, gll_init
  <2> QED BY <2>1, <2>2, <2>3 DEF ChargedSoFar, Unread
<1> QED BY <1>1, <1>2, <1>3, <1>4 DEF ChargeInv

\* Only a process whose requests are all taken ends, and what diskToMemory stores is
\* never what readPage looks for.
LEMMA EndsStep == ChargeInv /\ [Next]_vars => EndsAndPages'
<1> SUFFICES ASSUME ChargeInv, [Next]_vars PROVE EndsAndPages'
  OBVIOUS
<1>1. ListInv /\ ListInv' /\ EndsAndPages
  BY ListStep DEF ChargeInv
<1>0. done' \subseteq Process
  <2>1. done' = done \/ AfterEnd
    BY DEF Next, Arrive, StartFirst, NothingRuns, DiskInterrupt, Continue, QuantumEnds, NoRequest, NonMem, Mem,
       AllArrived, DiskCrash, SkipNonMem, SwapIn, AfterFault, AfterInterrupt, AfterNothing,
       schedulingRR, NotIdle, AllDone, NextArrival, NextDiskInterrupt, Stop, vars
  <2>2. AfterEnd => done' = done \cup {running} /\ running \in Process
    BY <1>1, Firsts DEF AfterEnd, ListInv, OneRuns
  <2> QED BY <1>1, <2>1, <2>2 DEF EndsAndPages
<1>2. tlb' = tlb /\ pt' = pt => \A a \in Address : ~ Resident(a)'
  BY <1>1 DEF EndsAndPages, Resident
<1>3. pc' \notin {"arrive", "pause", "disk"} /\ tlb' = tlb /\ pt' = pt => EndsAndPages'
  BY <1>0, <1>2 DEF EndsAndPages
<1>4. pc' \notin {"disk"} /\ simPause' # -1 /\ tlb' = tlb /\ pt' = pt => EndsAndPages'
  BY <1>0, <1>2 DEF EndsAndPages
<1>5. ASSUME pc' = "arrive", simPause' = -1, tlb' = tlb, pt' = pt, running' = running,
             running \in Process, gll_first(memReq'[running]) = NULL
      PROVE  EndsAndPages'
  <2>1. Chained(Request, memReq'[running])
    BY <1>1, <1>5 DEF ListInv, RequestsAreChained
  <2>2. Left(running)' = 0
    BY <1>5, <2>1, NoRequestLeft DEF Left
  <2> QED BY <1>0, <1>2, <1>5, <2>2 DEF EndsAndPages
<1>6. pc = "read" => running \in Process
  BY <1>1, Firsts DEF ListInv, OneRuns
<1>7. CASE Arrive
  <2>1. UNCHANGED <<runningProcess, tlb, pt, simPause, pc>> /\ pc \in {"init", "arrive"}
        /\ arriving # NULL /\ memReq' = [memReq EXCEPT ![arriving] = PushAll(@, trace[arriving])]
    BY <1>7 DEF Arrive, Due, MoveToReady, pages, local
  <2>2. running' = running
    BY <2>1 DEF running
  <2>3. CASE pc = "arrive" /\ simPause = -1
    <3>1. arriving \in Process /\ running \in Process
      BY <1>1, <2>1, <2>3, Firsts DEF ListInv, OneRuns
    <3>2. running # arriving
      BY <1>1, <3>1, PlacesOfFirst
    <3> DEFINE a == PushAll(memReq[arriving], trace[arriving])
    <3>3. memReq' = [memReq EXCEPT ![arriving] = a]
      BY <2>1
    <3> HIDE DEF a
    <3>4. memReq'[running] = memReq[running]
      BY <1>1, <3>1, <3>2, <3>3 DEF ListInv, RequestsAreChained
    <3>5. Left(running)' = 0
      BY <1>1, <2>2, <2>3, <3>4 DEF EndsAndPages, Left
    <3> QED BY <1>0, <1>2, <2>1, <2>3, <3>5 DEF EndsAndPages
  <2> QED BY <1>3, <1>4, <2>1, <2>3
<1>8. CASE NothingRuns \/ DiskInterrupt \/ QuantumEnds
  <2>1. tlb' = tlb /\ pt' = pt /\ pc' = "arrive" /\ simPause' \in {1, 2, 4}
    BY <1>8 DEF NothingRuns, DiskInterrupt, QuantumEnds, Return, pages
  <2> QED BY <1>4, <2>1
<1>9. CASE StartFirst \/ Continue \/ DiskCrash
  <2>1. tlb' = tlb /\ pt' = pt /\ pc' \in {"crashed", "process", "read"}
    BY <1>9 DEF StartFirst, Continue, DiskCrash, pages
  <2> QED BY <1>3, <2>1
<1>10. CASE NoRequest
  <2>1. tlb' = tlb /\ pt' = pt /\ pc' = "arrive" /\ simPause' = -1 /\ pc = "read"
        /\ running' = running /\ memReq' = memReq /\ gll_first(memReq[running]) = NULL
    BY <1>10 DEF NoRequest, Reads, Return, pages, lists, pcb, running
  <2> QED BY <1>5, <1>6, <2>1
<1>11. CASE NonMem
  <2>1. tlb' = tlb /\ pt' = pt /\ pc = "read" /\ running' = running
        /\ IF gll_first(memReq'[running]) = NULL THEN pc' = "arrive" /\ simPause' = -1 ELSE pc' = pc
    BY <1>11 DEF NonMem, Reads, Return, pages, lists, running
  <2> QED BY <1>3, <1>5, <1>6, <2>1
<1>12. CASE Mem
  <2>1. tlb' = tlb /\ pt' = pt /\ pc = "read"
    BY <1>12 DEF Mem, Reads, pages
  <2>2. \/ /\ gll_first(memReq'[running]) = NULL /\ pc' = "arrive" /\ simPause' = -1
           /\ running' = running
        \/ pc' = pc
        \/ pc' = "arrive" /\ simPause' = 0
    BY <1>12 DEF Mem, Return, running
  <2> QED BY <1>3, <1>4, <1>5, <1>6, <2>1, <2>2
<1>13. CASE AllArrived
  <2>1. tlb' = tlb /\ pt' = pt /\ pc = "arrive" /\ simPause' = simPause /\ running' = running
        /\ memReq' = memReq /\ pc' = IF simPause = 4 THEN "disk" ELSE "pause"
    BY <1>13 DEF AllArrived, pages, local, lists, pcb, running
  <2>2. simPause = -1 => Left(running)' = 0
    BY <1>1, <2>1 DEF EndsAndPages, Left
  <2> QED BY <1>0, <1>2, <2>1, <2>2 DEF EndsAndPages
<1>14. CASE SkipNonMem \/ SwapIn
  <2>1. \A a \in Address : ~ Resident(a)'
    <3>1. CASE SkipNonMem
      BY <1>2, <3>1 DEF SkipNonMem, pages
    <3>2. CASE SwapIn
      <4> SUFFICES ASSUME NEW a \in Address, NEW b PROVE Byte(b) # Pointer(a) /\ Vaddr(b) # Pointer(a)
        BY <3>2 DEF SwapIn, Resident
      <4> QED BY DEF Byte, Vaddr, Pointer
    <3> QED BY <1>14, <3>1, <3>2
  <2>2. simPause' = simPause /\ pc' = IF pc = "disk" THEN "pause" ELSE "process"
    BY <1>14 DEF SkipNonMem, SwapIn, DiskReturn, local
  <2>3. pc = "disk" => simPause = 4
    BY <1>1 DEF EndsAndPages
  <2> QED BY <1>0, <2>1, <2>2, <2>3 DEF EndsAndPages
<1>15. CASE AfterFault \/ AfterEnd \/ AfterInterrupt \/ AfterNothing \/ schedulingRR
  <2>1. tlb' = tlb /\ pt' = pt /\ pc' \in {"schedule", "idle"}
    BY <1>15 DEF AfterFault, AfterEnd, AfterInterrupt, AfterNothing, schedulingRR, pages
  <2> QED BY <1>3, <2>1
<1>16. CASE NotIdle \/ AllDone \/ NextArrival \/ NextDiskInterrupt
  <2>1. tlb' = tlb /\ pt' = pt /\ pc' \in {"process", "done", "idle disk"}
    BY <1>16 DEF NotIdle, AllDone, NextArrival, NextDiskInterrupt, pages
  <2> QED BY <1>3, <2>1
<1>17. CASE Stop \/ UNCHANGED vars
  <2>1. UNCHANGED <<pc, simPause, memReq, runningProcess, tlb, pt>>
    BY <1>17 DEF Stop, vars, pcb, lists, local, pages
  <2> QED BY <1>0, <1>1, <2>1 DEF EndsAndPages, Left, running, Resident
<1> QED
  BY <1>7, <1>8, <1>9, <1>10, <1>11, <1>12, <1>13, <1>14, <1>15, <1>16, <1>17 DEF Next

\* The times remain numbers; what is charged is never negative.
LEMMA NumbersStep == ChargeInv /\ [Next]_vars => TimesAreNumbers'
<1> SUFFICES ASSUME ChargeInv, [Next]_vars PROVE TimesAreNumbers'
  OBVIOUS
<1>1. ListInv /\ TimesAreNumbers
  BY DEF ChargeInv
<1> USE <1>1 DEF TimesAreNumbers
<1>2. {quantum, contextSwitchTime, Swap_latency, Frac_mem_inst, non_mem_inst_length} \subseteq Nat
  BY SimulatorAssumption
<1>3. ASSUME NEW p \in Process, NEW needed \in Nat, NEW rest \in Nat, NEW time \in Nat,
             time = (IF stopTime - current_time < needed THEN stopTime - current_time ELSE needed),
             current_time' = current_time + time,
             user_time' = [user_time EXCEPT ![p] = @ + time],
             fracLeft' = [fracLeft EXCEPT ![p] = IF time < needed THEN needed - time ELSE rest],
             UNCHANGED <<stopTime, start_time>>
      PROVE  TimesAreNumbers'
  <2>1. user_time[p] + time \in Nat
    BY <1>3
  <2>2. (IF time < needed THEN needed - time ELSE rest) \in Nat
    BY <1>3
  <2>3. current_time' \in Int
    BY <1>3
  <2> QED BY <1>3, <2>1, <2>2, <2>3
<1>4. pc = "read" => running \in Process
  BY <1>1, Firsts DEF ListInv, OneRuns
<1>5. CASE NonMem \/ Mem
  <2>1. running \in Process /\ current_time < stopTime /\ UNCHANGED <<stopTime, start_time>>
    BY <1>4, <1>5 DEF NonMem, Mem, Reads, local, input, Return
  <2>2. PICK needed \in Nat, rest \in Nat : Charge(needed, rest)
    <3>1. fracLeft[running] \in Nat
      BY <2>1
    <3>2. CASE NonMem
      <4>1. (IF fracLeft[running] > 0 THEN fracLeft[running] ELSE non_mem_inst_length) \in Nat
        BY <1>2, <3>1
      <4> DEFINE n == IF fracLeft[running] > 0 THEN fracLeft[running] ELSE non_mem_inst_length
      <4>2. Charge(n, 0)
        BY <3>2 DEF NonMem
      <4> HIDE DEF n
      <4> QED BY <4>1, <4>2 DEF n
    <3>3. CASE Mem
      <4>1. Charge(Frac_mem_inst, fracLeft[running])
        BY <3>3 DEF Mem
      <4> QED BY <1>2, <3>1, <4>1
    <3> QED BY <1>5, <3>2, <3>3
  <2> DEFINE time == IF stopTime - current_time < needed THEN stopTime - current_time ELSE needed
  <2>3. time \in Nat
    BY <2>1
  <2>4. /\ current_time' = current_time + time
        /\ user_time' = [user_time EXCEPT ![running] = @ + time]
        /\ fracLeft' = [fracLeft EXCEPT ![running] = IF time < needed THEN needed - time ELSE rest]
    BY <2>2 DEF Charge
  <2> DEFINE t == time
  <2>5. t = time
    OBVIOUS
  <2> QED BY <1>3, <2>1, <2>3, <2>4
<1>6. CASE SwapIn
  <2>1. current_time' = current_time + Swap_latency
        /\ UNCHANGED <<fracLeft, user_time, stopTime, start_time>>
    BY <1>6 DEF SwapIn, local, input
  <2> QED BY <1>2, <2>1
<1>7. CASE schedulingRR
  <2>1. current_time' = current_time + 0 \/ current_time' = current_time + contextSwitchTime
    BY <1>7 DEF schedulingRR
  <2>2. UNCHANGED <<fracLeft, user_time, stopTime, start_time>>
    BY <1>7 DEF schedulingRR, local, input, pcb
  <2> QED BY <1>2, <2>1, <2>2
<1>8. CASE NextArrival
  <2>1. current_time' = start_time[arriving] /\ arriving # NULL
        /\ UNCHANGED <<fracLeft, user_time, stopTime, start_time>>
    BY <1>8 DEF NextArrival, local, input
  <2>2. arriving \in Process
    BY <1>1, <2>1, Firsts DEF ListInv
  <2> QED BY <2>1, <2>2
<1>9. CASE NextDiskInterrupt
  <2>1. current_time' = 0 /\ UNCHANGED <<fracLeft, user_time, stopTime, start_time>>
    BY <1>9 DEF NextDiskInterrupt, local, input, pcb
  <2> QED BY <2>1
<1>10. CASE Continue
  <2>1. stopTime' = current_time + quantum /\ UNCHANGED <<fracLeft, user_time, current_time, start_time>>
    BY <1>10 DEF Continue, clock, input, pcb
  <2> QED BY <1>2, <2>1
<1>11. CASE Arrive \/ StartFirst \/ NothingRuns \/ DiskInterrupt \/ QuantumEnds \/ NoRequest
  <2>1. UNCHANGED <<fracLeft, user_time, current_time, stopTime, start_time>>
    BY <1>11 DEF Arrive, StartFirst, NothingRuns, DiskInterrupt, QuantumEnds, NoRequest, clock, input,
       pcb, local
  <2> QED BY <2>1
<1>12. CASE AllArrived \/ DiskCrash \/ SkipNonMem \/ AfterFault \/ AfterEnd \/ AfterInterrupt
            \/ AfterNothing \/ NotIdle \/ AllDone \/ Stop \/ UNCHANGED vars
  <2>1. UNCHANGED <<fracLeft, user_time, current_time, stopTime, start_time>>
    BY <1>12 DEF AllArrived, DiskCrash, SkipNonMem, AfterFault, AfterEnd, AfterInterrupt, AfterNothing,
       NotIdle, AllDone, Stop, vars, clock, input, pcb, local
  <2> QED BY <2>1
<1> QED BY <1>5, <1>6, <1>7, <1>8, <1>9, <1>10, <1>11, <1>12 DEF Next

\* Every action keeps the accounts.
LEMMA ChargeStep == ChargeInv /\ [Next]_vars => ChargeInv'
<1> SUFFICES ASSUME ChargeInv, [Next]_vars PROVE ChargeInv'
  OBVIOUS
<1>1. ListInv' /\ EndsAndPages' /\ TimesAreNumbers'
  BY ListStep, EndsStep, NumbersStep DEF ChargeInv
<1>2. ASSUME NEW q \in Process PROVE ChargedSoFar(q)'
  <2>1. ASSUME UNCHANGED <<trace, memReq, fracLeft, user_time, processList, blockedProcess, done>>
        PROVE  ChargedSoFar(q)'
    BY <2>1, SameAccount DEF ChargeInv, Unread, Waits
  <2>2. CASE Arrive \/ NextArrival
    <3>1. MoveToReady /\ arriving # NULL
          /\ UNCHANGED <<trace, runningProcess, blockedProcess, fracLeft, user_time, done>>
      BY <2>2 DEF Arrive, NextArrival, Due, input
    <3> QED BY <3>1, ReadyKeeps, ArrivalCharge DEF ChargeInv
  <2>3. CASE NonMem
    BY <2>3, NonMemCharge
  <2>4. CASE Mem
    BY <2>4, MemCharge
  <2>5. CASE SkipNonMem \/ SwapIn
    BY <2>5, DiskCharge
  <2>6. CASE AfterEnd
    BY <2>6, EndCharge
  <2>7. CASE StartFirst \/ NothingRuns \/ DiskInterrupt \/ Continue \/ QuantumEnds \/ NoRequest
    BY <2>1, <2>7 DEF StartFirst, NothingRuns, DiskInterrupt, Continue, QuantumEnds, NoRequest, input,
       pcb, lists
  <2>8. CASE AllArrived \/ DiskCrash \/ AfterFault \/ AfterInterrupt \/ AfterNothing
    BY <2>1, <2>8 DEF AllArrived, DiskCrash, AfterFault, AfterInterrupt, AfterNothing, input, pcb, lists
  <2>9. CASE schedulingRR \/ NotIdle \/ AllDone \/ NextDiskInterrupt \/ Stop \/ UNCHANGED vars
    BY <2>1, <2>9 DEF schedulingRR, NotIdle, AllDone, NextDiskInterrupt, Stop, vars, input, pcb, lists
  <2> QED BY <2>2, <2>3, <2>4, <2>5, <2>6, <2>7, <2>8, <2>9 DEF Next
<1> QED BY <1>1, <1>2 DEF ChargeInv

\* A process that finished was charged every request it executed, once and in full
\* (simulator.c:150, 189, 387).
THEOREM ExecutedIsCharged == Spec => []ChargedForExecuted
<1>1. ChargeInv => ChargedForExecuted
  <2> SUFFICES ASSUME ChargeInv, NEW p \in done
               PROVE  user_time[p] = Charged(trace[p])[Len(trace[p])].time
    BY DEF ChargedForExecuted
  <2>1. p \in Process
    BY DEF ChargeInv, EndsAndPages
  <2> QED BY <2>1 DEF ChargeInv, ChargedSoFar
<1> QED BY <1>1, ChargeInit, ChargeStep, PTL DEF Spec

-----------------------------------------------------------------------------
(* Sums and remainders *)

\* Some member of a set.
Pick(s) == CHOOSE x \in s : TRUE

\* g gives the sum of f over every subset of S, taken apart in the order of Pick.
Summed(f, S, g) ==
    g = [s \in SUBSET S |-> IF s = {} THEN 0 ELSE f[Pick(s)] + g[s \ {Pick(s)}]]

\* The same for the subsets of up to n elements.
SummedTo(f, S, n, g) ==
    /\ g \in [SUBSET S -> Int]
    /\ \A s \in SUBSET S : Cardinality(s) <= n =>
        g[s] = IF s = {} THEN 0 ELSE f[Pick(s)] + g[s \ {Pick(s)}]

\* A set loses an element.
LEMMA OneLess ==
    ASSUME NEW S, IsFiniteSet(S), NEW s \in SUBSET S, NEW x \in s
    PROVE  /\ IsFiniteSet(s) /\ s \ {x} \in SUBSET S
           /\ Cardinality(s) \in Nat \ {0} /\ Cardinality(s \ {x}) = Cardinality(s) - 1
           /\ Cardinality(s \ {x}) \in Nat
<1>1. IsFiniteSet(s)
  BY FS_Subset
<1>2. Cardinality(s) \in Nat /\ Cardinality(s \ {x}) = Cardinality(s) - 1
  BY <1>1, FS_CardinalityType, FS_RemoveElement
<1>3. IsFiniteSet(s \ {x})
  BY <1>1, FS_Subset
<1>4. Cardinality(s \ {x}) \in Nat
  BY <1>3, FS_CardinalityType
<1> QED BY <1>1, <1>2, <1>4

\* The members of a finite set, counted.
LEMMA SubsetsCounted ==
    ASSUME NEW S, IsFiniteSet(S), NEW s \in SUBSET S
    PROVE  /\ IsFiniteSet(s) /\ Cardinality(s) \in Nat
           /\ Cardinality(s) <= Cardinality(S) /\ Cardinality(S) \in Nat
           /\ Cardinality(s) = 0 <=> s = {}
           /\ s # {} => Pick(s) \in s
<1>1. IsFiniteSet(s) /\ Cardinality(s) <= Cardinality(S)
  BY FS_Subset
<1>2. Cardinality(s) \in Nat /\ Cardinality(S) \in Nat
  BY <1>1, FS_CardinalityType
<1>3. Cardinality(s) = 0 <=> s = {}
  BY <1>1, FS_EmptySet
<1>4. s # {} => Pick(s) \in s
  BY DEF Pick
<1> QED BY <1>1, <1>2, <1>3, <1>4

\* Such sums exist.
LEMMA SumExists ==
    ASSUME NEW S, IsFiniteSet(S), NEW f \in [S -> Int]
    PROVE  \E g \in [SUBSET S -> Int] : Summed(f, S, g)
<1> DEFINE P == {n \in Nat : \E g : SummedTo(f, S, n, g)}
<1>1. 0 \in P
  <2> DEFINE g == [s \in SUBSET S |-> 0]
  <2>1. ASSUME NEW s \in SUBSET S, Cardinality(s) <= 0
        PROVE  s = {} /\ g[s] = 0
    <3>1. Cardinality(s) = 0
      BY <2>1, SubsetsCounted
    <3> QED BY <3>1, SubsetsCounted
  <2>2. g \in [SUBSET S -> Int]
    OBVIOUS
  <2> HIDE DEF g
  <2> QED BY <2>1, <2>2 DEF SummedTo
<1>2. ASSUME NEW n \in Nat \ {0}, n - 1 \in P PROVE n \in P
  <2>1. PICK g : SummedTo(f, S, n - 1, g)
    BY <1>2
  <2> DEFINE h == [s \in SUBSET S |-> IF s = {} THEN 0 ELSE f[Pick(s)] + g[s \ {Pick(s)}]]
  <2>2. h \in [SUBSET S -> Int]
    <3>1. ASSUME NEW s \in SUBSET S, s # {}
          PROVE  f[Pick(s)] + g[s \ {Pick(s)}] \in Int
      <4>1. Pick(s) \in s /\ s \ {Pick(s)} \in SUBSET S
        BY <3>1, SubsetsCounted
      <4>2. f[Pick(s)] \in Int /\ g[s \ {Pick(s)}] \in Int
        BY <2>1, <4>1 DEF SummedTo
      <4> QED BY <4>2
    <3>2. ASSUME NEW s \in SUBSET S
          PROVE  (IF s = {} THEN 0 ELSE f[Pick(s)] + g[s \ {Pick(s)}]) \in Int
      <4>1. CASE s = {}
        BY <4>1
      <4>2. CASE s # {}
        BY <3>1, <4>2
      <4> QED BY <4>1, <4>2
    <3> QED BY <3>2
  <2>3. ASSUME NEW s \in SUBSET S, Cardinality(s) <= n - 1
        PROVE  h[s] = g[s]
    BY <2>1, <2>3 DEF SummedTo
  <2>4. ASSUME NEW s \in SUBSET S, Cardinality(s) <= n, s # {}
        PROVE  h[s \ {Pick(s)}] = g[s \ {Pick(s)}]
    <3>1. Pick(s) \in s
      BY <2>4, SubsetsCounted
    <3>2. s \ {Pick(s)} \in SUBSET S /\ Cardinality(s \ {Pick(s)}) <= n - 1
      BY <2>4, <3>1, OneLess
    <3> QED BY <2>3, <3>2
  <2>5. ASSUME NEW s \in SUBSET S, Cardinality(s) <= n
        PROVE  h[s] = IF s = {} THEN 0 ELSE f[Pick(s)] + h[s \ {Pick(s)}]
    BY <2>4, <2>5
  <2> HIDE DEF h
  <2>6. SummedTo(f, S, n, h)
    BY <2>2, <2>5 DEF SummedTo
  <2> QED BY <2>6
<1> HIDE DEF P
<1>3. Cardinality(S) \in P
  <2>1. Cardinality(S) \in Nat
    BY FS_CardinalityType
  <2> QED BY <1>1, <1>2, <2>1, SetInduction
<1>4. PICK g : SummedTo(f, S, Cardinality(S), g)
  BY <1>3 DEF P
<1>5. ASSUME NEW s \in SUBSET S
      PROVE  g[s] = IF s = {} THEN 0 ELSE f[Pick(s)] + g[s \ {Pick(s)}]
  BY <1>4, SubsetsCounted DEF SummedTo
<1>6. g = [s \in SUBSET S |-> g[s]] /\ g \in [SUBSET S -> Int]
  BY <1>4 DEF SummedTo
<1>7. g = [s \in SUBSET S |-> IF s = {} THEN 0 ELSE f[Pick(s)] + g[s \ {Pick(s)}]]
  BY <1>5, <1>6
<1> QED BY <1>6, <1>7 DEF Summed

\* What SumFunction computes is such a sum.
LEMMA SumIs ==
    ASSUME NEW S, IsFiniteSet(S), NEW f \in [S -> Int]
    PROVE  \E g : Summed(f, S, g) /\ SumFunction(f) = g[S]
<1> DEFINE g == CHOOSE h : Summed(f, S, h)
<1>1. Summed(f, S, g)
  BY SumExists
<1>2. DOMAIN f = S
  OBVIOUS
<1>3. SumFunction(f) = (CHOOSE h : Summed(f, S, h))[S]
  BY <1>2 DEF SumFunction, SumFunctionOnSet, FoldFunctionOnSet, MapThenFoldSet, Summed, Pick
<1> QED BY <1>1, <1>3

\* Total time, and what it is made of: the processes are finitely many.
LEMMA FiniteProcesses == IsFiniteSet(Process)
<1> DEFINE n == Len(TraceFile)
<1>1. TraceFile \in Seq(Process) /\ Range(TraceFile) = Process
  BY SimulatorAssumption
<1>2. n \in Nat /\ DOMAIN TraceFile = 1 .. n
  BY <1>1, LenProperties
<1>3. IsFiniteSet(1 .. n)
  BY <1>2, FS_Interval
<1>4. \A p \in Process : \E k \in 1 .. n : TraceFile[k] = p
  BY <1>1, <1>2 DEF Range
<1>5. TraceFile \in [1 .. n -> Process]
  BY <1>1
<1>6. TraceFile \in Surjection(1 .. n, Process)
  BY <1>4, <1>5 DEF Surjection
<1> QED BY <1>3, <1>6, FS_Surjection

\* f2 is f but for t more at p.
Raised(f, p, t, f2) == f2 = [f EXCEPT ![p] = @ + t]

LEMMA SumRaised ==
    ASSUME NEW S, IsFiniteSet(S), NEW f \in [S -> Int], NEW p \in S, NEW t \in Int,
           NEW f2, Raised(f, p, t, f2)
    PROVE  SumFunction(f) \in Int /\ SumFunction(f2) = SumFunction(f) + t
<1>1. f2 \in [S -> Int] /\ \A x \in S : f2[x] = f[x] + (IF x = p THEN t ELSE 0)
  BY DEF Raised
<1>2. PICK g : Summed(f, S, g) /\ SumFunction(f) = g[S]
  BY SumIs
<1>3. PICK h : Summed(f2, S, h) /\ SumFunction(f2) = h[S]
  BY <1>1, SumIs
<1>4. \A s \in SUBSET S : /\ g[s] = IF s = {} THEN 0 ELSE f[Pick(s)] + g[s \ {Pick(s)}]
                          /\ h[s] = IF s = {} THEN 0 ELSE f2[Pick(s)] + h[s \ {Pick(s)}]
  BY <1>2, <1>3 DEF Summed
<1> DEFINE Right(s) == g[s] \in Int /\ h[s] = g[s] + (IF p \in s THEN t ELSE 0)
           P == {n \in Nat : \A s \in SUBSET S : Cardinality(s) = n => Right(s)}
<1>5. 0 \in P
  <2>1. ASSUME NEW s \in SUBSET S, Cardinality(s) = 0 PROVE Right(s)
    <3>1. s = {}
      BY <2>1, SubsetsCounted
    <3> QED BY <1>4, <3>1
  <2> QED BY <2>1
<1>6. ASSUME NEW n \in Nat \ {0}, n - 1 \in P PROVE n \in P
  <2>1. ASSUME NEW s \in SUBSET S, Cardinality(s) = n PROVE Right(s)
    <3> DEFINE x == Pick(s)
               r == s \ {x}
    <3>1. s # {} /\ x \in s
      BY <2>1, SubsetsCounted
    <3>2. r \in SUBSET S /\ Cardinality(r) = n - 1
      BY <2>1, <3>1, OneLess
    <3>3. Right(r)
      BY <1>6, <3>2
    <3>4. g[s] = f[x] + g[r] /\ h[s] = f2[x] + h[r]
      BY <1>4, <3>1
    <3>5. p \in s <=> (p = x \/ p \in r)
      BY <3>1
    <3>6. ~ (p = x /\ p \in r)
      OBVIOUS
    <3>7. f[x] \in Int /\ f2[x] = f[x] + (IF x = p THEN t ELSE 0)
      BY <1>1, <3>1
    <3> HIDE DEF x, r
    <3> QED BY <3>3, <3>4, <3>5, <3>6, <3>7
  <2> QED BY <2>1
<1>7. \A n \in Nat : n \in P
  <2> HIDE DEF P
  <2> QED BY <1>5, <1>6, SetInduction
<1>8. Right(S)
  <2>1. Cardinality(S) \in Nat
    BY FS_CardinalityType
  <2> HIDE DEF Right
  <2> QED BY <1>7, <2>1
<1> QED BY <1>2, <1>3, <1>8

\* Nothing adds up to nothing.
LEMMA SumNothing ==
    ASSUME NEW S, IsFiniteSet(S), NEW f \in [S -> Int], \A x \in S : f[x] = 0
    PROVE  SumFunction(f) = 0
<1>2. PICK g : Summed(f, S, g) /\ SumFunction(f) = g[S]
  BY SumIs
<1>3. \A s \in SUBSET S : g[s] = IF s = {} THEN 0 ELSE f[Pick(s)] + g[s \ {Pick(s)}]
  BY <1>2 DEF Summed
<1> DEFINE P == {n \in Nat : \A s \in SUBSET S : Cardinality(s) = n => g[s] = 0}
<1>4. 0 \in P
  <2>1. ASSUME NEW s \in SUBSET S, Cardinality(s) = 0 PROVE g[s] = 0
    <3>1. s = {}
      BY <2>1, SubsetsCounted
    <3> QED BY <1>3, <3>1
  <2> QED BY <2>1
<1>5. ASSUME NEW n \in Nat \ {0}, n - 1 \in P PROVE n \in P
  <2>1. ASSUME NEW s \in SUBSET S, Cardinality(s) = n PROVE g[s] = 0
    <3> DEFINE x == Pick(s)
               r == s \ {x}
    <3>1. s # {} /\ x \in s
      BY <2>1, SubsetsCounted
    <3>2. r \in SUBSET S /\ Cardinality(r) = n - 1
      BY <2>1, <3>1, OneLess
    <3>3. g[r] = 0
      BY <1>5, <3>2
    <3>4. g[s] = f[x] + g[r]
      BY <1>3, <3>1
    <3>5. f[x] = 0
      BY <3>1
    <3> HIDE DEF x, r
    <3> QED BY <3>3, <3>4, <3>5
  <2> QED BY <2>1
<1>6. \A n \in Nat : n \in P
  <2> HIDE DEF P
  <2> QED BY <1>4, <1>5, SetInduction
<1>7. g[S] = 0
  <2>1. Cardinality(S) \in Nat
    BY FS_CardinalityType
  <2> QED BY <1>6, <2>1
<1> QED BY <1>2, <1>7

\* Division with remainder.
LEMMA DivIs ==
    ASSUME NEW m \in Nat \ {0}, NEW x \in Int
    PROVE  x = m * (x \div m) + (x % m) /\ x % m \in 0 .. m - 1 /\ x \div m \in Int
OBVIOUS

\* A multiple of m that is nearer to 0 than m is 0.
LEMMA NoMultiple ==
    ASSUME NEW m \in Nat \ {0}, NEW d \in Int, m * d < m, 0 - m < m * d
    PROVE  d = 0
<1>1. CASE d >= 1
  <2>1. m * (d - 1) >= 0
    BY <1>1
  <2>2. m * (d - 1) = m * d - m
    OBVIOUS
  <2>3. m * d \in Int
    OBVIOUS
  <2> QED BY <2>1, <2>2, <2>3
<1>2. CASE d <= 0 - 1
  <2>1. m * (0 - 1 - d) >= 0
    BY <1>2
  <2>2. m * (0 - 1 - d) = 0 - m - m * d
    OBVIOUS
  <2>3. m * d \in Int
    OBVIOUS
  <2> QED BY <2>1, <2>2, <2>3
<1> QED BY <1>1, <1>2

\* There is one remainder only.
LEMMA Remainder ==
    ASSUME NEW m \in Nat \ {0}, NEW q \in Int, NEW r \in 0 .. m - 1
    PROVE  (m * q + r) % m = r
<1> DEFINE x == m * q + r
           a == x \div m
           b == x % m
<1>1. x \in Int
  OBVIOUS
<1>2. x = m * a + b /\ b \in 0 .. m - 1 /\ a \in Int
  BY <1>1, DivIs
<1>3. m * q + r = m * a + b
  BY <1>2
<1> HIDE DEF x, a, b
<1>4. m * (a - q) = m * a - m * q
  BY <1>2
<1>5. m * a \in Int /\ m * q \in Int
  BY <1>2
<1>6. m * (a - q) = r - b
  BY <1>2, <1>3, <1>4, <1>5
<1>7. a - q = 0
  BY <1>2, <1>6, NoMultiple
<1> QED BY <1>2, <1>3, <1>7 DEF b, x

\* What agrees modulo m still does when something is added.
LEMMA ModAdd ==
    ASSUME NEW m \in Nat \ {0}, NEW x \in Int, NEW y \in Int, NEW z \in Int, x % m = y % m
    PROVE  (x + z) % m = (y + z) % m
<1> DEFINE a == x \div m
           b == y \div m
           e == (y + z) \div m
           r == (y + z) % m
<1>1. x = m * a + (x % m) /\ y = m * b + (x % m) /\ a \in Int /\ b \in Int /\ x % m \in Int
  BY DivIs
<1>2. y + z = m * e + r /\ r \in 0 .. m - 1 /\ e \in Int
  <2> DEFINE u == y + z
  <2>1. u \in Int
    OBVIOUS
  <2> HIDE DEF u
  <2>2. u = m * (u \div m) + (u % m) /\ u % m \in 0 .. m - 1 /\ u \div m \in Int
    BY <2>1, DivIs
  <2> QED BY <2>2 DEF u
<1> DEFINE s == x % m
<1> HIDE DEF a, b, e, r, s
<1>3. x = m * a + s /\ y = m * b + s /\ s \in Int
  BY <1>1 DEF s
<1>4. m * (a - b + e) = m * a - m * b + m * e
  BY <1>1, <1>2
<1>5. m * a \in Int /\ m * b \in Int /\ m * e \in Int
  BY <1>1, <1>2
<1>6. x + z = m * (a - b + e) + r
  <2> DEFINE ma == m * a
             mb == m * b
             me == m * e
             mc == m * (a - b + e)
  <2>1. ma \in Int /\ mb \in Int /\ me \in Int /\ mc = ma - mb + me
    BY <1>4, <1>5
  <2>2. x = ma + s /\ y = mb + s /\ y + z = me + r /\ s \in Int /\ r \in Int
    BY <1>2, <1>3
  <2> HIDE DEF ma, mb, me, mc
  <2>3. x + z = mc + r
    BY <2>1, <2>2
  <2> QED BY <2>3 DEF mc
<1>7. a - b + e \in Int
  BY <1>1, <1>2
<1>8. (m * (a - b + e) + r) % m = r
  BY <1>2, <1>7, Remainder
<1> QED BY <1>6, <1>8 DEF r

\* Taking the remainder twice changes nothing.
LEMMA ModMod ==
    ASSUME NEW m \in Nat \ {0}, NEW x \in Int
    PROVE  x % m \in Nat /\ (x % m) % m = x % m
<1>1. x % m \in 0 .. m - 1
  BY DivIs
<1> DEFINE r == x % m
<1> HIDE DEF r
<1>2. (m * 0 + r) % m = r /\ m * 0 + r = r
  BY <1>1, Remainder DEF r
<1> QED BY <1>1, <1>2 DEF r

\* Numbers with the same remainder.
SameModulo(m, x, y) == x % m = y % m

\* A counter of m values goes t further: so does the sum it is in.
LEMMA CounterMoves ==
    ASSUME NEW m \in Nat \ {0}, NEW x \in Int, NEW c \in Int, NEW y \in Int, NEW t \in Int,
           SameModulo(m, x + c, y)
    PROVE  SameModulo(m, ((x + t) % m) + c, y + t)
<1> DEFINE r == (x + t) % m
           v == x + t
           u == x + c
<1>1. v \in Int /\ u \in Int /\ v + c = u + t
  OBVIOUS
<1>2. r \in Nat /\ r % m = v % m
  <2> HIDE DEF v
  <2>1. v % m \in Nat /\ (v % m) % m = v % m
    BY ONLY <1>1, ModMod, m \in Nat \ {0}
  <2> QED BY <2>1 DEF v
<1>3. u % m = y % m
  BY DEF SameModulo
<1> HIDE DEF r, v, u
<1>4. (r + c) % m = (v + c) % m
  <2>1. r \in Int
    BY ONLY <1>2
  <2> QED BY <1>1, <1>2, <2>1, ModAdd, ZenonT(60)
<1>5. (u + t) % m = (y + t) % m
  BY <1>1, <1>3, ModAdd, ZenonT(60)
<1>6. (r + c) % m = (y + t) % m
  BY <1>1, <1>4, <1>5
<1> QED BY <1>6 DEF r, SameModulo

-----------------------------------------------------------------------------
(* The times add up *)

Modulus == 2 ^ w

\* The clock, and the sum of the times of the processes.
Clocks ==
    /\ current_time \in Nat /\ start_time \in [Process -> Nat]
    /\ nextQuanta \in Int /\ userTime \in Nat /\ OSTime \in Nat /\ OS_time \in [Process -> Nat]
    /\ userTime = SumFunction(user_time) % Modulus

\* When all processes start at 0 they are all read before the first one runs, so that the
\* simulator never waits for one, and the times are that of the clock but for n waits for
\* the disk.
Balanced(n) ==
    /\ SumFunction(OS_time) = n * Swap_interrupt_handling_time
    /\ (userTime + OSTime + Swap_latency * n) % Modulus = current_time % Modulus

Balance ==
    Range(start_time) = {0} =>
        /\ pc # "init" => arriving = NULL
        /\ \E n \in Nat : Balanced(n)

TimesInv == ChargeInv /\ Clocks /\ Balance

\* What the steps do to the times: a process runs, its page is swapped in, another
\* process gets the processor, the clock is put forward, or back.
Runs ==
    \E p \in Process, t \in Nat :
        /\ Raised(user_time, p, t, user_time') /\ userTime' = (userTime + t) % Modulus
        /\ current_time' = current_time + t
        /\ UNCHANGED <<OSTime, OS_time>>
SwapsIn ==
    \E p \in Process :
        /\ Raised(OS_time, p, Swap_interrupt_handling_time, OS_time')
        /\ current_time' = current_time + Swap_latency
        /\ UNCHANGED <<user_time, userTime, OSTime>>
SystemRuns(t) ==
    /\ OSTime' = (OSTime + t) % Modulus
    /\ current_time' = current_time + t
    /\ UNCHANGED <<user_time, userTime, OS_time>>
GoesOn ==
    /\ arriving \in Process /\ pc = "idle" /\ current_time' = start_time[arriving]
    /\ \E t \in Int : OSTime' = (OSTime + t) % Modulus
    /\ UNCHANGED <<user_time, userTime, OS_time>>
NoTime == UNCHANGED <<user_time, userTime, OSTime, OS_time, current_time>>

\* The quanta and the times that pass when the simulator waits for a process are numbers.
LEMMA SkippedTimes ==
    ASSUME Clocks, arriving \in Process
    PROVE  LET start  == start_time[arriving]
               behind == IF nextQuanta < start THEN start - nextQuanta ELSE 0
               rounds == (behind + quantum - 1) \div quantum
               now    == IF rounds = 0 THEN current_time ELSE nextQuanta + quantum * (rounds - 1)
           IN  2 * (start - now) \in Int /\ nextQuanta + quantum * rounds \in Int
<1> DEFINE start  == start_time[arriving]
           behind == IF nextQuanta < start THEN start - nextQuanta ELSE 0
           rounds == (behind + quantum - 1) \div quantum
           now    == IF rounds = 0 THEN current_time ELSE nextQuanta + quantum * (rounds - 1)
<1>1. start \in Int /\ nextQuanta \in Int /\ current_time \in Int /\ quantum \in Nat \ {0}
  BY SimulatorAssumption DEF Clocks
<1>2. rounds \in Int
  <2>1. behind + quantum - 1 \in Int
    BY <1>1
  <2> DEFINE x == behind + quantum - 1
  <2>2. x \in Int
    BY <2>1
  <2> HIDE DEF x
  <2>3. x \div quantum \in Int
    BY <1>1, <2>2, DivIs
  <2> QED BY <2>3 DEF x
<1> HIDE DEF rounds
<1>3. quantum * (rounds - 1) \in Int /\ quantum * rounds \in Int
  BY <1>1, <1>2
<1>4. now \in Int
  BY <1>1, <1>3
<1> QED BY <1>1, <1>3, <1>4 DEF rounds

\* Every step moves the times in one of these ways.
LEMMA TimesMove ==
    ASSUME ChargeInv, Clocks, [Next]_vars
    PROVE  /\ Runs \/ SwapsIn \/ (\E t \in Nat : SystemRuns(t)) \/ SystemRuns(0 - current_time)
              \/ GoesOn \/ NoTime
           /\ start_time' = start_time
<1>1. ListInv /\ TimesAreNumbers
  BY DEF ChargeInv
<1>0. start_time' = start_time
  BY DEF Next, Arrive, StartFirst, NothingRuns, DiskInterrupt, Continue, QuantumEnds, NoRequest,
     NonMem, Mem, AllArrived, DiskCrash, SkipNonMem, SwapIn, AfterFault, AfterEnd, AfterInterrupt,
     AfterNothing, schedulingRR, NotIdle, AllDone, NextArrival, NextDiskInterrupt, Stop, vars, input
<1>2. CASE NonMem \/ Mem
  <2>1. /\ pc = "read" /\ current_time < stopTime /\ UNCHANGED <<OSTime, OS_time>>
        /\ fracLeft \in [Process -> Nat] /\ current_time \in Int /\ stopTime \in Int
    BY <1>1, <1>2 DEF NonMem, Mem, Reads, TimesAreNumbers
  <2>2. running \in Process
    BY <1>1, <2>1, Firsts DEF ListInv, OneRuns
  <2>3. PICK needed \in Nat : \E rest : Charge(needed, rest)
    <3>1. fracLeft[running] \in Nat /\ non_mem_inst_length \in Nat /\ Frac_mem_inst \in Nat
      BY <2>1, <2>2, SimulatorAssumption
    <3> DEFINE n == IF fracLeft[running] > 0 THEN fracLeft[running] ELSE non_mem_inst_length
    <3>2. n \in Nat
      BY <3>1
    <3>3. Charge(n, 0) \/ Charge(Frac_mem_inst, fracLeft[running])
      BY <1>2 DEF NonMem, Mem
    <3> HIDE DEF n
    <3> QED BY <3>1, <3>2, <3>3
  <2> DEFINE t == IF stopTime - current_time < needed THEN stopTime - current_time ELSE needed
  <2>4. t \in Nat
    BY <2>1
  <2>5. /\ current_time' = current_time + t
        /\ user_time' = [user_time EXCEPT ![running] = @ + t]
        /\ userTime' = (userTime + t) % Modulus
    BY <2>3 DEF Charge, Modulus
  <2> HIDE DEF t
  <2> QED BY <1>0, <2>1, <2>2, <2>4, <2>5 DEF Runs, Raised
<1>3. CASE SwapIn
  <2>1. FirstOfFaulted \in Address /\ FirstOfFaulted # NULL
    BY <1>3, SimulatorAssumption DEF SwapIn
  <2>2. faulted \in Process
    BY <1>1, <2>1, Firsts DEF ListInv, FirstOfFaulted
  <2>3. /\ OS_time' = [OS_time EXCEPT ![faulted] = @ + Swap_interrupt_handling_time]
        /\ current_time' = current_time + Swap_latency
        /\ UNCHANGED <<user_time, userTime, OSTime>>
    BY <1>3 DEF SwapIn, times
  <2> QED BY <1>0, <2>2, <2>3 DEF SwapsIn, Raised
<1>4. CASE schedulingRR
  <2> DEFINE t == IF gll_first(runningProcess') = NULL THEN 0 ELSE contextSwitchTime
  <2>1. t \in Nat
    BY SimulatorAssumption
  <2>2. /\ OSTime' = (OSTime + t) % Modulus /\ current_time' = current_time + t
        /\ UNCHANGED <<user_time, userTime, OS_time>>
    BY <1>4 DEF schedulingRR, pcb, Modulus
  <2> HIDE DEF t
  <2> QED BY <1>0, <2>1, <2>2 DEF SystemRuns
<1>5. CASE NextArrival
  <2>1. arriving \in Process /\ pc = "idle" /\ current_time' = start_time[arriving]
        /\ UNCHANGED <<user_time, userTime, OS_time>>
    BY <1>1, <1>5, Firsts DEF NextArrival, ListInv
  <2>2. PICK t \in Int : OSTime' = (OSTime + t) % Modulus
    <3> DEFINE start  == start_time[arriving]
               behind == IF nextQuanta < start THEN start - nextQuanta ELSE 0
               rounds == (behind + quantum - 1) \div quantum
               now    == IF rounds = 0 THEN current_time ELSE nextQuanta + quantum * (rounds - 1)
    <3>1. OSTime' = (OSTime + 2 * (start - now)) % Modulus
      BY <1>5 DEF NextArrival, Modulus
    <3>2. 2 * (start - now) \in Int
      BY <2>1, SkippedTimes
    <3> HIDE DEF start, now
    <3> QED BY <3>1, <3>2
  <2> QED BY <1>0, <2>1, <2>2 DEF GoesOn
<1>6. CASE NextDiskInterrupt
  <2>1. current_time \in Int
    BY DEF Clocks
  <2>2. OSTime \in Int /\ OSTime - current_time = OSTime + (0 - current_time)
        /\ current_time + (0 - current_time) = 0
    BY <2>1 DEF Clocks
  <2>3. /\ OSTime' = (OSTime - current_time) % Modulus /\ current_time' = 0
        /\ UNCHANGED <<user_time, userTime, OS_time>>
    BY <1>6 DEF NextDiskInterrupt, pcb, Modulus
  <2> QED BY <1>0, <2>2, <2>3 DEF SystemRuns
<1>7. CASE Arrive \/ StartFirst \/ NothingRuns \/ DiskInterrupt \/ Continue \/ QuantumEnds \/ NoRequest
           \/ AllArrived \/ DiskCrash \/ SkipNonMem
  BY <1>0, <1>7 DEF Arrive, StartFirst, NothingRuns, DiskInterrupt, Continue, QuantumEnds, NoRequest,
     AllArrived, DiskCrash, SkipNonMem, NoTime, times, pcb, clock
<1>8. CASE AfterFault \/ AfterEnd \/ AfterInterrupt \/ AfterNothing \/ NotIdle \/ AllDone \/ Stop
           \/ UNCHANGED vars
  BY <1>0, <1>8 DEF AfterFault, AfterEnd, AfterInterrupt, AfterNothing, NotIdle, AllDone, Stop, vars,
     NoTime, times, pcb, clock
<1> QED BY <1>2, <1>3, <1>4, <1>5, <1>6, <1>7, <1>8 DEF Next

\* A product divided.
LEMMA Divided ==
    ASSUME NEW m \in Nat \ {0}, NEW q \in Int
    PROVE  (q * m) \div m = q
<1> DEFINE x == q * m
           a == x \div m
           b == x % m
<1>1. x \in Int
  OBVIOUS
<1>2. x = m * a + b /\ b \in 0 .. m - 1 /\ a \in Int
  BY <1>1, DivIs
<1>3. q * m = m * a + b
  BY <1>2
<1> HIDE DEF x, a, b
<1>4. m * (a - q) = m * a - q * m /\ m * a \in Int /\ q * m \in Int
  BY <1>2
<1>5. m * (a - q) = 0 - b
  BY <1>2, <1>3, <1>4
<1>6. a - q = 0
  BY <1>2, <1>5, NoMultiple
<1> QED BY <1>2, <1>6 DEF a, x

\* The times stay numbers, and the user time that of the processes.
LEMMA ClocksStep ==
    ASSUME Modulus \in Nat \ {0}, ChargeInv, Clocks, [Next]_vars
    PROVE  Clocks'
<1>1. TimesAreNumbers /\ ListInv
  BY DEF ChargeInv
<1>2. user_time \in [Process -> Int] /\ IsFiniteSet(Process)
  BY <1>1, FiniteProcesses DEF TimesAreNumbers
<1>3. \A x \in Int : x % Modulus \in Nat /\ (x % Modulus) % Modulus = x % Modulus
  BY ModMod
<1>4. current_time' \in Nat /\ userTime' \in Nat /\ OSTime' \in Nat /\ OS_time' \in [Process -> Nat]
      /\ userTime' = SumFunction(user_time') % Modulus
  <2>1. CASE Runs
    <3>1. PICK p \in Process, t \in Nat :
            /\ Raised(user_time, p, t, user_time') /\ userTime' = (userTime + t) % Modulus
            /\ current_time' = current_time + t
            /\ UNCHANGED <<OSTime, OS_time>>
      BY <2>1 DEF Runs
    <3> DEFINE s == SumFunction(user_time)
    <3>2. s \in Int /\ SumFunction(user_time') = s + t
      BY <1>2, <3>1, SumRaised
    <3>3. userTime = s % Modulus /\ userTime \in Int
      BY DEF Clocks
    <3> HIDE DEF s
    <3>4. userTime % Modulus = s % Modulus
      BY <1>3, <3>2, <3>3
    <3>5. (userTime + t) % Modulus = (s + t) % Modulus
      <4>1. t \in Int
        OBVIOUS
      <4> QED BY <3>2, <3>3, <3>4, <4>1, ModAdd, ZenonT(60)
    <3>6. userTime' \in Nat
      <4>1. userTime + t \in Int
        BY <3>3
      <4> QED BY <1>3, <3>1, <4>1, Zenon
    <3> QED BY <3>1, <3>2, <3>5, <3>6 DEF Clocks
  <2>2. CASE SwapsIn
    BY <2>2, SimulatorAssumption DEF SwapsIn, Raised, Clocks
  <2>3. ASSUME NEW t \in Int, SystemRuns(t), current_time + t \in Nat PROVE <1>4
    <3>1. OSTime' \in Nat
      BY <1>3, <2>3 DEF SystemRuns, Clocks
    <3> QED BY <2>3, <3>1 DEF SystemRuns, Clocks
  <2>4. CASE GoesOn
    <3>1. OSTime' \in Nat
      <4>1. PICK t \in Int : OSTime' = (OSTime + t) % Modulus
        BY <2>4 DEF GoesOn
      <4> QED BY <1>3, <4>1 DEF Clocks
    <3> QED BY <2>4, <3>1 DEF GoesOn, Clocks
  <2>5. CASE NoTime
    BY <2>5 DEF NoTime, Clocks
  <2>6. \A t \in Nat : current_time + t \in Nat
    BY DEF Clocks
  <2>7. 0 - current_time \in Int /\ current_time + (0 - current_time) \in Nat
    BY DEF Clocks
  <2> QED BY TimesMove, <2>1, <2>2, <2>3, <2>4, <2>5, <2>6, <2>7
<1>5. start_time' \in [Process -> Nat]
  BY TimesMove DEF Clocks
<1>6. nextQuanta' \in Int
  <2> USE DEF Clocks
  <2>1. current_time' \in Int /\ quantum \in Int
    BY <1>4, SimulatorAssumption
  <2>2. CASE NextArrival
    <3>1. arriving \in Process
      BY <1>1, <2>2, Firsts DEF NextArrival, ListInv
    <3> QED BY <2>2, <3>1, SkippedTimes DEF NextArrival
  <2>3. CASE NothingRuns \/ DiskInterrupt \/ QuantumEnds \/ NoRequest
    BY <2>1, <2>3 DEF NothingRuns, DiskInterrupt, QuantumEnds, NoRequest, Return
  <2>4. CASE NonMem \/ Mem
    <3>1. nextQuanta' = nextQuanta \/ nextQuanta' = current_time' + quantum
      BY <2>4 DEF NonMem, Mem, Return
    <3> QED BY <2>1, <3>1
  <2>5. CASE AfterInterrupt
    BY <2>1, <2>5 DEF AfterInterrupt
  <2>6. CASE Arrive \/ StartFirst \/ Continue \/ AllArrived \/ DiskCrash \/ SkipNonMem \/ SwapIn
             \/ AfterFault
    BY <2>6 DEF Arrive, StartFirst, Continue, AllArrived, DiskCrash, SkipNonMem, SwapIn, AfterFault,
       clock
  <2>7. CASE AfterEnd \/ AfterNothing \/ schedulingRR \/ NotIdle \/ AllDone \/ NextDiskInterrupt
             \/ Stop \/ UNCHANGED vars
    BY <2>7 DEF AfterEnd, AfterNothing, schedulingRR, NotIdle, AllDone, NextDiskInterrupt, Stop, vars,
       clock
  <2> QED BY <2>2, <2>3, <2>4, <2>5, <2>6, <2>7 DEF Next
<1> QED BY <1>4, <1>5, <1>6 DEF Clocks

\* Processes that start at 0 are read before the first one runs.
LEMMA ArrivingStep ==
    ASSUME ChargeInv, Clocks, [Next]_vars, \A p \in Process : start_time[p] = 0,
           pc # "init" => arriving = NULL, pc' # "init"
    PROVE  arriving' = NULL
<1>1. CASE StartFirst
  <2>1. ~ Due /\ processList' = processList
    BY <1>1 DEF StartFirst
  <2>2. arriving \in Process \cup {NULL}
    BY Firsts DEF ChargeInv, ListInv
  <2>3. arriving \in Process => start_time[arriving] <= current_time
    BY DEF Clocks
  <2>4. arriving = NULL
    BY <2>1, <2>2, <2>3 DEF Due
  <2> QED BY <2>1, <2>4 DEF arriving
<1>2. ASSUME ~ StartFirst PROVE pc # "init" \/ pc' = "init"
  <2>1. ASSUME Arrive PROVE pc' = pc
    BY <2>1 DEF Arrive
  <2>2. ASSUME UNCHANGED vars PROVE pc' = pc
    BY <2>2 DEF vars
  <2> QED BY <1>2, <2>1, <2>2 DEF Next, NothingRuns, DiskInterrupt, Continue, QuantumEnds, NoRequest,
        NonMem, Mem, Reads, AllArrived, DiskCrash, SkipNonMem, SwapIn, DiskCalled, AfterFault, AfterEnd,
        AfterInterrupt, AfterNothing, schedulingRR, NotIdle, AllDone, NextArrival, NextDiskInterrupt, Stop
<1>3. CASE pc # "init"
  <2>1. ~ Arrive /\ ~ NextArrival
    BY <1>3 DEF Arrive, Due, NextArrival
  <2>2. CASE StartFirst \/ NothingRuns \/ DiskInterrupt \/ Continue \/ QuantumEnds \/ NoRequest \/ NonMem
             \/ Mem
    BY <1>3, <2>2 DEF StartFirst, NothingRuns, DiskInterrupt, Continue, QuantumEnds, NoRequest, NonMem,
       Mem, lists, arriving
  <2>3. CASE AllArrived \/ DiskCrash \/ SkipNonMem \/ SwapIn \/ AfterFault \/ AfterEnd \/ AfterInterrupt
             \/ AfterNothing
    BY <1>3, <2>3 DEF AllArrived, DiskCrash, SkipNonMem, SwapIn, AfterFault, AfterEnd, AfterInterrupt,
       AfterNothing, lists, arriving
  <2>4. CASE schedulingRR \/ NotIdle \/ AllDone \/ NextDiskInterrupt \/ Stop \/ UNCHANGED vars
    BY <1>3, <2>4 DEF schedulingRR, NotIdle, AllDone, NextDiskInterrupt, Stop, vars, lists, arriving
  <2> QED BY <2>1, <2>2, <2>3, <2>4 DEF Next
<1> QED BY <1>1, <1>2, <1>3

\* The number of waits is the same, or one more.
LEMMA BalanceStep ==
    ASSUME Modulus \in Nat \ {0}, ChargeInv, Clocks, [Next]_vars, Balance
    PROVE  Balance'
<1> SUFFICES ASSUME Range(start_time') = {0}
             PROVE  /\ pc' # "init" => arriving' = NULL
                    /\ \E n \in Nat : Balanced(n)'
  BY DEF Balance
<1>1. Range(start_time) = {0}
  BY TimesMove
<1>2. \A p \in Process : start_time[p] = 0
  BY <1>1 DEF Clocks, Range
<1>3. pc # "init" => arriving = NULL
  BY <1>1 DEF Balance
<1>4. pc' # "init" => arriving' = NULL
  BY <1>2, <1>3, ArrivingStep
<1>5. PICK n \in Nat : Balanced(n)
  BY <1>1 DEF Balance
<1> DEFINE c == Swap_latency * n
<1>6. /\ c \in Int /\ Swap_latency \in Int /\ Swap_interrupt_handling_time \in Int
      /\ userTime \in Int /\ OSTime \in Int /\ current_time \in Int
  BY SimulatorAssumption DEF Clocks
<1>7. (userTime + OSTime + c) % Modulus = current_time % Modulus
  BY <1>5 DEF Balanced
<1>8. \E k \in Nat : Balanced(k)'
  <2>1. CASE Runs
    <3>1. PICK t \in Nat : /\ userTime' = (userTime + t) % Modulus /\ current_time' = current_time + t
                           /\ UNCHANGED <<OSTime, OS_time>>
      BY <2>1 DEF Runs
    <3> HIDE DEF c
    <3> DEFINE d == OSTime + c
    <3>2. d \in Int /\ userTime + d = userTime + OSTime + c /\ t \in Int
      BY <1>6
    <3>3. (((userTime + t) % Modulus) + d) % Modulus = (current_time + t) % Modulus
      <4> HIDE DEF d
      <4>1. SameModulo(Modulus, userTime + d, current_time)
        BY <1>7, <3>2 DEF SameModulo
      <4>2. SameModulo(Modulus, ((userTime + t) % Modulus) + d, current_time + t)
        BY <1>6, <3>2, <4>1, CounterMoves, t \in Int
      <4> QED BY <4>2 DEF SameModulo
    <3> DEFINE r == (userTime + t) % Modulus
    <3>4. r \in Int
      <4>1. userTime + t \in Int
        BY <1>6
      <4> QED BY <4>1, ModMod
    <3>5. (r + d) % Modulus = (current_time + t) % Modulus
      BY <3>3
    <3> HIDE DEF r
    <3>6. r + d = r + OSTime + c
      BY <1>6, <3>4
    <3>7. (userTime' + OSTime' + c) % Modulus = current_time' % Modulus
      BY <3>1, <3>5, <3>6 DEF r
    <3> QED BY <1>5, <3>1, <3>7 DEF Balanced, c
  <2>2. CASE SwapsIn
    <3>1. PICK p \in Process : /\ Raised(OS_time, p, Swap_interrupt_handling_time, OS_time')
                               /\ current_time' = current_time + Swap_latency
                               /\ UNCHANGED <<user_time, userTime, OSTime>>
      BY <2>2 DEF SwapsIn
    <3>2. SumFunction(OS_time') = SumFunction(OS_time) + Swap_interrupt_handling_time
      <4>1. OS_time \in [Process -> Int]
        BY DEF Clocks
      <4> QED BY <1>6, <3>1, <4>1, FiniteProcesses, SumRaised
    <3>3. SumFunction(OS_time') = (n + 1) * Swap_interrupt_handling_time
      BY <1>5, <1>6, <3>2 DEF Balanced
    <3>4. c + Swap_latency = Swap_latency * (n + 1)
      BY <1>6
    <3> HIDE DEF c
    <3> DEFINE x == userTime + OSTime + c
    <3>5. x \in Int /\ x + Swap_latency = userTime + OSTime + (c + Swap_latency)
      BY <1>6
    <3>6. (x + Swap_latency) % Modulus = (current_time + Swap_latency) % Modulus
      <4> HIDE DEF x
      <4>1. x % Modulus = current_time % Modulus
        BY <1>7 DEF x
      <4> QED BY <1>6, <3>5, <4>1, ModAdd, ZenonT(60)
    <3>7. (userTime' + OSTime' + Swap_latency * (n + 1)) % Modulus = current_time' % Modulus
      BY <3>1, <3>4, <3>5, <3>6
    <3>8. n + 1 \in Nat
      OBVIOUS
    <3> QED BY <3>3, <3>7, <3>8 DEF Balanced
  <2>3. ASSUME NEW t \in Int, SystemRuns(t) PROVE <1>8
    <3> HIDE DEF c
    <3> DEFINE d == userTime + c
    <3>1. d \in Int /\ OSTime + d = userTime + OSTime + c
      BY <1>6
    <3>3. (((OSTime + t) % Modulus) + d) % Modulus = (current_time + t) % Modulus
      <4> HIDE DEF d
      <4>1. SameModulo(Modulus, OSTime + d, current_time)
        BY <1>7, <3>1 DEF SameModulo
      <4>2. SameModulo(Modulus, ((OSTime + t) % Modulus) + d, current_time + t)
        BY <1>6, <3>1, <4>1, CounterMoves, t \in Int
      <4> QED BY <4>2 DEF SameModulo
    <3> DEFINE r == (OSTime + t) % Modulus
    <3>2. r \in Int
      <4>1. OSTime + t \in Int
        BY <1>6
      <4> QED BY <4>1, ModMod
    <3>4. (r + d) % Modulus = (current_time + t) % Modulus
      BY <3>3
    <3>5. OSTime' = r /\ current_time' = current_time + t /\ UNCHANGED <<userTime, OS_time>>
      BY <2>3 DEF SystemRuns
    <3> HIDE DEF r
    <3>6. r + d = userTime + r + c
      BY <1>6, <3>2
    <3>7. (userTime' + OSTime' + c) % Modulus = current_time' % Modulus
      BY <3>4, <3>5, <3>6
    <3> QED BY <1>5, <3>5, <3>7 DEF Balanced, c
  <2>4. CASE GoesOn
    <3>1. arriving \in Process /\ arriving = NULL
      BY <1>3, <2>4 DEF GoesOn
    <3> QED BY <3>1, SimulatorAssumption
  <2>5. CASE NoTime
    BY <1>5, <2>5 DEF NoTime, Balanced
  <2>6. 0 - current_time \in Int /\ Nat \subseteq Int
    BY <1>6
  <2> QED BY TimesMove, <2>1, <2>2, <2>3, <2>4, <2>5, <2>6
<1> QED BY <1>4, <1>8

\* At the start nothing has been counted.
LEMMA TimesInit == ASSUME Modulus \in Nat \ {0}, Init PROVE TimesInv
<1>1. user_time \in [Process -> Int] /\ OS_time \in [Process -> Int]
      /\ (\A p \in Process : user_time[p] = 0) /\ (\A p \in Process : OS_time[p] = 0)
  BY DEF Init
<1>2. SumFunction(user_time) = 0 /\ SumFunction(OS_time) = 0
  BY <1>1, FiniteProcesses, SumNothing
<1>3. 0 % Modulus = 0
  BY ONLY Modulus \in Nat \ {0}
<1>4. Clocks
  <2>1. start_time \in [Process -> Nat]
    <3>1. start_time \in [Process -> StartTimes] /\ StartTimes \subseteq Nat
      BY SimulatorAssumption DEF Init
    <3> QED BY <3>1
  <2>2. current_time = 0 /\ nextQuanta = quantum /\ userTime = 0 /\ OSTime = 0
        /\ OS_time \in [Process -> Nat]
    BY DEF Init
  <2>3. quantum \in Int
    BY SimulatorAssumption
  <2> QED BY <1>2, <1>3, <2>1, <2>2, <2>3 DEF Clocks
<1>5. Balanced(0)
  <2>1. current_time = 0 /\ userTime = 0 /\ OSTime = 0
    BY DEF Init
  <2>2. Swap_latency * 0 = 0 /\ 0 * Swap_interrupt_handling_time = 0
    BY SimulatorAssumption
  <2> QED BY <1>2, <2>1, <2>2 DEF Balanced
<1>6. Balance
  <2>1. pc = "init"
    BY DEF Init
  <2> QED BY <1>5, <2>1 DEF Balance
<1> QED BY <1>4, <1>6, ChargeInit DEF TimesInv

\* The invariant says what the property does, the number of waits is what it divides out.
LEMMA TimesImply == ASSUME TimesInv PROVE TimesAddUp
<1>1. \A f : FoldFunction(+, 0, f) = SumFunction(f)
  BY DEF FoldFunction, SumFunction, SumFunctionOnSet
<1>2. userTime = SumFunction(user_time) % 2 ^ w
  BY DEF TimesInv, Clocks, Modulus
<1>3. ASSUME Range(start_time) = {0}
      PROVE  (userTime + OSTime + Swap_latency * (SumFunction(OS_time) \div Swap_interrupt_handling_time))
                % 2 ^ w = current_time % 2 ^ w
  <2>1. PICK n \in Nat : Balanced(n)
    BY <1>3 DEF TimesInv, Balance
  <2> DEFINE h == Swap_interrupt_handling_time
  <2>2. h \in Nat \ {0}
    BY SimulatorAssumption
  <2>3. SumFunction(OS_time) \div h = n
    <3>1. (n * h) \div h = n
      <4> HIDE DEF h
      <4> QED BY <2>2, Divided
    <3> QED BY <2>1, <3>1 DEF Balanced
  <2> QED BY <2>1, <2>3 DEF Balanced, Modulus
<1> QED BY <1>1, <1>2, <1>3 DEF TimesAddUp

\* The times that are printed agree with those of the processes and, when no process is
\* waited for, with the clock (simulator.c:633, 659).  The provers know nothing of powers:
\* that 2 ^ w is a positive number, as it is for every w of SimulatorAssumption, is said.
THEOREM TimesAgree == ASSUME 2 ^ w \in Nat \ {0} PROVE Spec => []TimesAddUp
<1>1. Modulus \in Nat \ {0}
  BY DEF Modulus
<1>2. Init => TimesInv
  BY <1>1, TimesInit
<1>3. TimesInv /\ [Next]_vars => TimesInv'
  <2> SUFFICES ASSUME TimesInv, [Next]_vars PROVE TimesInv'
    OBVIOUS
  <2>1. ChargeInv /\ Clocks /\ Balance
    BY DEF TimesInv
  <2>2. ChargeInv' /\ Clocks' /\ Balance'
    BY <1>1, <2>1, ChargeStep, ClocksStep, BalanceStep
  <2> QED BY <2>2 DEF TimesInv
<1>4. TimesInv => TimesAddUp
  BY TimesImply
<1> QED BY <1>2, <1>3, <1>4, PTL DEF Spec

=============================================================================
