---------------------------- MODULE RangeSetProofs ----------------------------
(***************************************************************************)
(* Lemmas about the operators of RangeSet.tla for any heap and alignment,  *)
(* for the proofs about the modules that work on a range set.              *)
(***************************************************************************)
EXTENDS RangeSet, FiniteSetTheorems, TLAPS

USE HeapAssumption DEF NULL, HeapLo

Address == HeapLo .. HeapLimit - 1
RangeRecord == [hi : Nat, index : Nat, prev : Nat, next : Nat]

\* The records of a range set, by their first address.
RecordsTyped(rs) ==
    /\ rs = [list |-> rs.list, tree |-> rs.tree]
    /\ DOMAIN rs.tree \subseteq Address
    /\ rs.tree \in [DOMAIN rs.tree -> RangeRecord]

\* A nonempty set of natural numbers has a least element, < being well founded.
LEMMA LeastNatural ==
    ASSUME NEW S \in SUBSET Nat, S # {}
    PROVE  \E m \in S : \A k \in S : m <= k
<1> DEFINE Less == OpToRel(<, Nat)
<1>1. IsWellFoundedOn(Less, Nat)
  BY NatLessThanWellFounded, Zenon
<1>2. \A k, m \in Nat : k < m => <<k, m>> \in Less
  BY DEF OpToRel
<1> HIDE DEF Less
<1>3. PICK m \in S : \A k \in S : ~ (<<k, m>> \in Less)
  BY <1>1, WFMin
<1>4. \A k \in S : ~ (k < m)
  BY <1>2, <1>3
<1> QED BY <1>4

\* A set with 0 in it, and each number whose predecessor is in it, has all numbers:
\* the least one that it lacks would have a predecessor that it does not lack.
LEMMA SetInduction ==
    ASSUME NEW S, 0 \in S, \A n \in Nat \ {0} : n - 1 \in S => n \in S
    PROVE  \A n \in Nat : n \in S
<1> DEFINE D == {n \in Nat : n \notin S}
<1>1. CASE D # {}
  <2>1. PICK m \in D : \A k \in D : m <= k
    BY <1>1, LeastNatural
  <2>2. m \in Nat \ {0} /\ m \notin S
    BY <2>1
  <2>3. m - 1 \in Nat /\ ~ (m <= m - 1)
    BY <2>2
  <2>4. m - 1 \in S
    BY <2>1, <2>3
  <2> QED BY <2>2, <2>4
<1> QED BY <1>1

\* A nonempty set of natural numbers that is bounded has a largest element.
LEMMA MaxExists ==
    ASSUME NEW S \in SUBSET Nat, NEW b \in Nat, \A x \in S : x <= b, S # {}
    PROVE  Max(S) \in S /\ \A x \in S : x <= Max(S)
<1> DEFINE Above == {k \in Nat : b - k \in S}
<1>1. Above \subseteq Nat /\ Above # {}
  <2>1. PICK x \in S : TRUE
    OBVIOUS
  <2>2. b - x \in Nat /\ b - (b - x) = x
    OBVIOUS
  <2> QED BY <2>1, <2>2
<1>2. PICK k \in Above : \A j \in Above : k <= j
  BY <1>1, LeastNatural
<1>3. b - k \in S /\ \A x \in S : x <= b - k
  <2>1. ASSUME NEW x \in S PROVE x <= b - k
    <3>1. b - x \in Nat /\ b - (b - x) = x
      OBVIOUS
    <3>2. b - x \in Above
      BY <3>1
    <3>3. k <= b - x
      BY <3>2, <1>2
    <3>4. k \in Nat
      BY <1>1
    <3> HIDE DEF Above
    <3> QED BY <3>1, <3>3, <3>4
  <2> QED BY <2>1
<1> QED BY <1>3 DEF Max

\* What tree_find_nearest returns is a record at or below lo, and no record lies
\* between the two.
LEMMA NearestIsBelow ==
    ASSUME NEW rs, RecordsTyped(rs), NEW lo \in Nat
    PROVE  LET prev == tree_find_nearest(rs, lo)
           IN  /\ prev = NULL => \A k \in DOMAIN rs.tree : lo < k
               /\ prev # NULL =>
                    /\ prev \in DOMAIN rs.tree /\ prev <= lo
                    /\ \A k \in DOMAIN rs.tree : k <= lo => k <= prev
<1> DEFINE below == {k \in DOMAIN rs.tree : k <= lo}
<1>1. DOMAIN rs.tree \subseteq Nat \ {0}
  BY DEF RecordsTyped, Address
<1>2. tree_find_nearest(rs, lo) = IF below = {} THEN NULL ELSE Max(below)
  BY DEF tree_find_nearest
<1>3. below # {} => Max(below) \in below /\ \A x \in below : x <= Max(below)
  <2>1. below \in SUBSET Nat /\ \A x \in below : x <= lo
    BY <1>1
  <2> HIDE DEF below
  <2> QED BY <2>1, MaxExists
<1>4. CASE below = {}
  BY <1>1, <1>2, <1>4
<1>5. CASE below # {}
  BY <1>1, <1>2, <1>3, <1>5
<1> QED BY <1>4, <1>5

\* The fields of the records after add_range: only the neighbours of the new
\* record are told of it.
LEMMA AddRangeFields ==
    ASSUME NEW rs, RecordsTyped(rs), NEW prev \in DOMAIN rs.tree \cup {NULL},
           NEW lo \in Address, lo \notin DOMAIN rs.tree, NEW size \in Nat \ {0}, NEW index \in Nat,
           NextOf(rs, prev) \in DOMAIN rs.tree \cup {NULL}
    PROVE  LET t    == add_range(rs, prev, lo, size, index).tree
               next == NextOf(rs, prev)
           IN  /\ RecordsTyped(add_range(rs, prev, lo, size, index))
               /\ add_range(rs, prev, lo, size, index).list
                     = IF prev = NULL THEN lo ELSE rs.list
               /\ DOMAIN t = DOMAIN rs.tree \cup {lo}
               /\ t[lo].hi = lo + size - 1 /\ t[lo].index = index /\ t[lo].prev = prev /\ t[lo].next = next
               /\ \A k \in DOMAIN rs.tree :
                    /\ t[k].hi = rs.tree[k].hi /\ t[k].index = rs.tree[k].index
                    /\ t[k].next = IF k = prev THEN lo ELSE rs.tree[k].next
                    /\ t[k].prev = IF k = next THEN lo ELSE rs.tree[k].prev
<1> DEFINE D == DOMAIN rs.tree
           next == NextOf(rs, prev)
           n == SetNext(rs.tree, prev, lo)
           u == SetPrev(n, next, lo)
           p == [hi |-> lo + size - 1, index |-> index, prev |-> prev, next |-> next]
           t == [k \in DOMAIN u \cup {lo} |-> IF k = lo THEN p ELSE u[k]]
<1>1. /\ D \subseteq Address /\ rs.tree \in [D -> RangeRecord] /\ 0 \notin D
  BY DEF RecordsTyped, Address
<1>2. lo \in Nat /\ prev \in Nat /\ next \in Nat
  BY <1>1 DEF Address
<1>3. /\ n \in [D -> RangeRecord]
      /\ \A k \in D : /\ n[k].hi = rs.tree[k].hi /\ n[k].index = rs.tree[k].index
                      /\ n[k].prev = rs.tree[k].prev
                      /\ n[k].next = IF k = prev THEN lo ELSE rs.tree[k].next
  BY <1>1, <1>2 DEF SetNext, RangeRecord
<1> HIDE DEF n
<1>4. /\ u \in [D -> RangeRecord]
      /\ \A k \in D : /\ u[k].hi = n[k].hi /\ u[k].index = n[k].index
                      /\ u[k].next = n[k].next
                      /\ u[k].prev = IF k = next THEN lo ELSE n[k].prev
  BY <1>1, <1>2, <1>3 DEF SetPrev, RangeRecord
<1>5. add_range(rs, prev, lo, size, index)
        = [list |-> IF prev = NULL THEN lo ELSE rs.list, tree |-> t]
  BY DEF add_range, n
<1> HIDE DEF u
<1>6. p \in RangeRecord
  BY <1>2 DEF RangeRecord
<1>7. t \in [D \cup {lo} -> RangeRecord]
  BY <1>4, <1>6
<1>8. RecordsTyped(add_range(rs, prev, lo, size, index))
  <2>1. DOMAIN t = D \cup {lo}
    BY <1>4
  <2> HIDE DEF t
  <2> QED BY <1>1, <1>5, <1>7, <2>1 DEF RecordsTyped
<1>9. t[lo] = p /\ \A k \in D : t[k] = u[k]
  BY <1>4
<1> QED BY <1>3, <1>4, <1>5, <1>7, <1>8, <1>9

\* The fields of the records after remove_range: the neighbours skip the record.
LEMMA RemoveRangeFields ==
    ASSUME NEW rs, RecordsTyped(rs), NEW lo \in DOMAIN rs.tree,
           rs.tree[lo].prev \in DOMAIN rs.tree \cup {NULL},
           rs.tree[lo].next \in DOMAIN rs.tree \cup {NULL}
    PROVE  LET t == remove_range(rs, lo).tree
               p == rs.tree[lo]
           IN  /\ RecordsTyped(remove_range(rs, lo))
               /\ remove_range(rs, lo).list
                     = IF p.prev = NULL THEN p.next ELSE rs.list
               /\ DOMAIN t = DOMAIN rs.tree \ {lo}
               /\ \A k \in DOMAIN rs.tree \ {lo} :
                    /\ t[k].hi = rs.tree[k].hi /\ t[k].index = rs.tree[k].index
                    /\ t[k].next = IF k = p.prev THEN p.next ELSE rs.tree[k].next
                    /\ t[k].prev = IF k = p.next THEN p.prev ELSE rs.tree[k].prev
<1> DEFINE D == DOMAIN rs.tree
           p == rs.tree[lo]
           n == SetNext(rs.tree, p.prev, p.next)
           u == SetPrev(n, p.next, p.prev)
           t == [k \in DOMAIN u \ {lo} |-> u[k]]
<1>1. /\ D \subseteq Address /\ rs.tree \in [D -> RangeRecord] /\ 0 \notin D
  BY DEF RecordsTyped, Address
<1>2. /\ p.prev \in D \cup {NULL} /\ p.next \in D \cup {NULL}
      /\ p.prev \in Nat /\ p.next \in Nat /\ lo # NULL
  BY <1>1 DEF RangeRecord
<1> HIDE DEF p
<1>3. /\ n \in [D -> RangeRecord]
      /\ \A k \in D : /\ n[k].hi = rs.tree[k].hi /\ n[k].index = rs.tree[k].index
                      /\ n[k].prev = rs.tree[k].prev
                      /\ n[k].next = IF k = p.prev THEN p.next ELSE rs.tree[k].next
  BY <1>1, <1>2 DEF SetNext, RangeRecord
<1> HIDE DEF n
<1>4. /\ u \in [D -> RangeRecord]
      /\ \A k \in D : /\ u[k].hi = n[k].hi /\ u[k].index = n[k].index
                      /\ u[k].next = n[k].next
                      /\ u[k].prev = IF k = p.next THEN p.prev ELSE n[k].prev
  BY <1>1, <1>2, <1>3 DEF SetPrev, RangeRecord
<1>5. remove_range(rs, lo)
        = [list |-> IF p.prev = NULL THEN p.next ELSE rs.list, tree |-> t]
  BY <1>2 DEF remove_range, n, p
<1> HIDE DEF u
<1>6. t \in [D \ {lo} -> RangeRecord] /\ DOMAIN t = D \ {lo}
      /\ \A k \in D \ {lo} : t[k] = u[k]
  BY <1>4
<1> HIDE DEF t
<1>7. RecordsTyped(remove_range(rs, lo))
  BY <1>1, <1>5, <1>6 DEF RecordsTyped
<1> QED BY <1>3, <1>4, <1>5, <1>6, <1>7 DEF p
=============================================================================
