--------------------------- MODULE MallocLabProofs ---------------------------
(***************************************************************************)
(* Proofs about MallocLab.tla: for any trace, any sizes, any alignment and *)
(* any heap the range set of mdriver.c follows the blocks that mm.c hands  *)
(* out, their contents stay, and the totals are right; and if the heap is  *)
(* large enough for the trace, the allocator is found valid.               *)
(***************************************************************************)
EXTENDS MallocLab, RangeSetProofs, SequenceTheorems

USE HeapAssumption DEF NULL, HeapLo

-----------------------------------------------------------------------------
(* The range list.  A bump allocator hands out growing addresses, so unlike in   *)
(* RangeTree the list never comes apart: it is the records in order.             *)

\* next names the record at the next address, prev the one before.
Ordered(rs) ==
    LET D == DOMAIN rs.tree
    IN  /\ rs.list \in D \cup {NULL} /\ (rs.list = NULL <=> D = {})
        /\ \A k \in D : rs.list <= k
        /\ \A p \in D :
            /\ rs.tree[p].next = NULL => \A k \in D : k <= p
            /\ rs.tree[p].next # NULL =>
                 /\ rs.tree[p].next \in D /\ p < rs.tree[p].next
                 /\ \A k \in D : k <= p \/ rs.tree[p].next <= k
            /\ rs.tree[p].prev = NULL => \A k \in D : p <= k
            /\ rs.tree[p].prev # NULL =>
                 /\ rs.tree[p].prev \in D /\ rs.tree[p].prev < p
                 /\ \A k \in D : k <= rs.tree[p].prev \/ p <= k

\* new has the records of rs and one for the payload at lo.
Added(rs, new, lo, size, index) ==
    /\ RecordsTyped(new) /\ Ordered(new)
    /\ DOMAIN new.tree = DOMAIN rs.tree \cup {lo}
    /\ new.tree[lo].hi = lo + size - 1 /\ new.tree[lo].index = index
    /\ \A k \in DOMAIN rs.tree : /\ new.tree[k].hi = rs.tree[k].hi
                                 /\ new.tree[k].index = rs.tree[k].index

\* A payload above all recorded ones is accepted, and becomes the last of the list.
LEMMA FreshRecord ==
    ASSUME NEW rs, RecordsTyped(rs), Ordered(rs),
           NEW lo \in Address, lo % Alignment = 0, NEW size \in Nat \ {0},
           NEW index \in Nat, NEW brk \in Nat, lo + size <= brk,
           \A k \in DOMAIN rs.tree : k < lo /\ rs.tree[k].hi < lo
    PROVE  LET prev == tree_find_nearest(rs, lo)
           IN  /\ Accepts(rs, prev, lo, size, brk)
               /\ Added(rs, add_range(rs, prev, lo, size, index), lo, size, index)
<1> DEFINE D    == DOMAIN rs.tree
           prev == tree_find_nearest(rs, lo)
           new  == add_range(rs, prev, lo, size, index)
<1>1. lo \in Nat /\ lo # NULL /\ HeapLo <= lo /\ D \subseteq Nat \ {0} /\ lo \notin D
  BY DEF Address, RecordsTyped
<1>2. /\ prev = NULL => D = {}
      /\ prev # NULL => prev \in D /\ \A k \in D : k <= prev
  <2>1. /\ prev = NULL => \A k \in D : lo < k
        /\ prev # NULL => prev \in D /\ \A k \in D : k <= lo => k <= prev
    BY <1>1, NearestIsBelow
  <2> HIDE DEF prev
  <2> QED BY <1>1, <2>1
<1> HIDE DEF prev
<1>3. \A k \in D : rs.tree[k].next \in Nat /\ rs.tree[k].prev \in Nat /\ rs.tree[k].hi \in Nat
  BY DEF RecordsTyped, RangeRecord
<1>4. NextOf(rs, prev) = NULL
  BY <1>1, <1>2, <1>3 DEF NextOf, Ordered
<1>5. Accepts(rs, prev, lo, size, brk)
  BY <1>1, <1>2, <1>3, <1>4 DEF Accepts
<1>6. /\ RecordsTyped(new)
      /\ new.list = IF prev = NULL THEN lo ELSE rs.list
      /\ DOMAIN new.tree = D \cup {lo}
      /\ new.tree[lo].hi = lo + size - 1 /\ new.tree[lo].index = index
      /\ new.tree[lo].prev = prev /\ new.tree[lo].next = NULL
      /\ \A k \in D :
          /\ new.tree[k].hi = rs.tree[k].hi /\ new.tree[k].index = rs.tree[k].index
          /\ new.tree[k].next = IF k = prev THEN lo ELSE rs.tree[k].next
          /\ new.tree[k].prev = rs.tree[k].prev
  <2>1. prev \in D \cup {NULL} /\ NextOf(rs, prev) \in D \cup {NULL}
    BY <1>2, <1>4
  <2> QED BY <1>1, <1>4, <2>1, AddRangeFields
<1> HIDE DEF new
<1>7. Ordered(new)
  <2>1. /\ new.list \in D \cup {lo} /\ new.list # NULL
        /\ \A k \in D \cup {lo} : new.list <= k
    BY <1>1, <1>2, <1>6 DEF Ordered
  <2>2. ASSUME NEW p \in D
        PROVE  /\ new.tree[p].next \in D \cup {lo} /\ p < new.tree[p].next
               /\ \A k \in D \cup {lo} : k <= p \/ new.tree[p].next <= k
    <3>1. CASE p = prev
      BY <1>1, <1>2, <1>6, <3>1
    <3>2. CASE p # prev
      <4>1. prev \in D /\ p < prev
        BY <1>1, <1>2, <3>2
      <4>2. rs.tree[p].next # NULL
        BY <1>1, <4>1 DEF Ordered
      <4>3. /\ rs.tree[p].next \in D /\ p < rs.tree[p].next
            /\ \A k \in D : k <= p \/ rs.tree[p].next <= k
        BY <4>2 DEF Ordered
      <4> QED BY <1>1, <1>6, <3>2, <4>3
    <3> QED BY <3>1, <3>2
  <2>3. ASSUME NEW p \in D
        PROVE  /\ new.tree[p].prev = NULL => \A k \in D \cup {lo} : p <= k
               /\ new.tree[p].prev # NULL =>
                    /\ new.tree[p].prev \in D /\ new.tree[p].prev < p
                    /\ \A k \in D \cup {lo} : k <= new.tree[p].prev \/ p <= k
    BY <1>1, <1>6 DEF Ordered
  <2>4. new.tree[lo].prev = NULL => \A k \in D \cup {lo} : lo <= k
    BY <1>1, <1>2, <1>6
  <2>5. new.tree[lo].prev # NULL =>
          /\ new.tree[lo].prev \in D /\ new.tree[lo].prev < lo
          /\ \A k \in D \cup {lo} : k <= new.tree[lo].prev \/ lo <= k
    BY <1>1, <1>2, <1>6
  <2>6. \A k \in D \cup {lo} : k <= lo
    BY <1>1
  <2>7. new.tree[lo].next = NULL
    BY <1>6
  <2>8. \A p \in D : new.tree[p].next # NULL
    BY <1>1, <2>2
  <2> DEFINE E == DOMAIN new.tree
  <2>9. E = D \cup {lo}
    BY <1>6
  <2> HIDE DEF D, E
  <2>10. ASSUME NEW p \in E
         PROVE  /\ new.tree[p].next = NULL => \A k \in E : k <= p
                /\ new.tree[p].next # NULL =>
                     /\ new.tree[p].next \in E /\ p < new.tree[p].next
                     /\ \A k \in E : k <= p \/ new.tree[p].next <= k
    BY <2>2, <2>6, <2>7, <2>8, <2>9
  <2>11. ASSUME NEW p \in E
         PROVE  /\ new.tree[p].prev = NULL => \A k \in E : p <= k
                /\ new.tree[p].prev # NULL =>
                     /\ new.tree[p].prev \in E /\ new.tree[p].prev < p
                     /\ \A k \in E : k <= new.tree[p].prev \/ p <= k
    BY <2>3, <2>4, <2>5, <2>9
  <2>12. new.list \in E /\ new.list # NULL /\ \A k \in E : new.list <= k
    BY <2>1, <2>9
  <2> QED BY <2>10, <2>11, <2>12 DEF Ordered, E
<1>8. Added(rs, new, lo, size, index)
  BY <1>6, <1>7 DEF Added
<1> QED BY <1>5, <1>8 DEF prev, new

\* A record is taken out, and its neighbours become neighbours.
LEMMA RecordRemoved ==
    ASSUME NEW rs, RecordsTyped(rs), Ordered(rs), NEW lo \in DOMAIN rs.tree
    PROVE  LET new == remove_range(rs, lo)
           IN  /\ RecordsTyped(new) /\ Ordered(new)
               /\ DOMAIN new.tree = DOMAIN rs.tree \ {lo}
               /\ \A k \in DOMAIN rs.tree \ {lo} :
                    /\ new.tree[k].hi = rs.tree[k].hi
                    /\ new.tree[k].index = rs.tree[k].index
<1> DEFINE D    == DOMAIN rs.tree
           new  == remove_range(rs, lo)
           next == rs.tree[lo].next
           prev == rs.tree[lo].prev
<1>1. D \subseteq Nat \ {0}
  BY DEF Address, RecordsTyped
<1>2. /\ prev = NULL => \A k \in D : lo <= k
      /\ prev # NULL => prev \in D /\ prev < lo /\ \A k \in D : k <= prev \/ lo <= k
      /\ next = NULL => \A k \in D : k <= lo
      /\ next # NULL => next \in D /\ lo < next /\ \A k \in D : k <= lo \/ next <= k
  BY DEF Ordered
<1>3. /\ RecordsTyped(new)
      /\ new.list = IF prev = NULL THEN next ELSE rs.list
      /\ DOMAIN new.tree = D \ {lo}
      /\ \A k \in D \ {lo} :
          /\ new.tree[k].hi = rs.tree[k].hi /\ new.tree[k].index = rs.tree[k].index
          /\ new.tree[k].next = IF k = prev THEN next ELSE rs.tree[k].next
          /\ new.tree[k].prev = IF k = next THEN prev ELSE rs.tree[k].prev
  <2>1. prev \in D \cup {NULL} /\ next \in D \cup {NULL}
    BY <1>2
  <2> QED BY <2>1, RemoveRangeFields
<1> HIDE DEF new, prev, next
<1>4. /\ rs.list \in D /\ \A k \in D : rs.list <= k
  BY DEF Ordered
<1>5. new.list \in (D \ {lo}) \cup {NULL} /\ (new.list = NULL <=> D \ {lo} = {})
  <2>1. CASE prev = NULL
    <3>1. new.list = next
      BY <1>3, <2>1
    <3>2. next = NULL => D \ {lo} = {}
      BY <1>1, <1>2, <2>1
    <3>3. next # NULL => next \in D \ {lo}
      BY <1>1, <1>2
    <3> QED BY <1>1, <3>1, <3>2, <3>3
  <2>2. CASE prev # NULL
    <3>1. new.list = rs.list /\ rs.list # lo
      BY <1>1, <1>2, <1>3, <1>4, <2>2
    <3> QED BY <1>1, <1>4, <3>1
  <2> QED BY <2>1, <2>2
<1>6. \A k \in D \ {lo} : new.list <= k
  <2>1. CASE prev = NULL
    BY <1>1, <1>2, <1>3, <2>1
  <2>2. CASE prev # NULL
    BY <1>3, <1>4, <2>2
  <2> QED BY <2>1, <2>2
<1>7. ASSUME NEW p \in D \ {lo}
      PROVE  /\ new.tree[p].next = NULL => \A k \in D \ {lo} : k <= p
             /\ new.tree[p].next # NULL =>
                  /\ new.tree[p].next \in D \ {lo} /\ p < new.tree[p].next
                  /\ \A k \in D \ {lo} : k <= p \/ new.tree[p].next <= k
  <2>1. CASE p = prev
    <3>1. new.tree[p].next = next
      BY <1>3, <2>1
    <3>2. \A k \in D \ {lo} : k <= p \/ lo < k
      BY <1>1, <1>2, <2>1
    <3> QED BY <1>1, <1>2, <2>1, <3>1, <3>2
  <2>2. CASE p # prev
    <3>1. new.tree[p].next = rs.tree[p].next
      BY <1>3, <2>2
    <3>2. rs.tree[p].next # lo
      <4> SUFFICES ASSUME rs.tree[p].next = lo PROVE FALSE
        OBVIOUS
      <4>1. p < lo /\ \A k \in D : k <= p \/ lo <= k
        BY <1>1 DEF Ordered
      <4>2. prev # NULL
        BY <1>1, <1>2, <4>1
      <4> QED BY <1>1, <1>2, <2>2, <4>1, <4>2
    <3> QED BY <3>1, <3>2 DEF Ordered
  <2> QED BY <2>1, <2>2
<1>8. ASSUME NEW p \in D \ {lo}
      PROVE  /\ new.tree[p].prev = NULL => \A k \in D \ {lo} : p <= k
             /\ new.tree[p].prev # NULL =>
                  /\ new.tree[p].prev \in D \ {lo} /\ new.tree[p].prev < p
                  /\ \A k \in D \ {lo} : k <= new.tree[p].prev \/ p <= k
  <2>1. CASE p = next
    <3>1. new.tree[p].prev = prev
      BY <1>3, <2>1
    <3>2. \A k \in D \ {lo} : p <= k \/ k < lo
      BY <1>1, <1>2, <2>1
    <3> QED BY <1>1, <1>2, <2>1, <3>1, <3>2
  <2>2. CASE p # next
    <3>1. new.tree[p].prev = rs.tree[p].prev
      BY <1>3, <2>2
    <3>2. rs.tree[p].prev # lo
      <4> SUFFICES ASSUME rs.tree[p].prev = lo PROVE FALSE
        OBVIOUS
      <4>1. lo < p /\ \A k \in D : k <= lo \/ p <= k
        BY <1>1 DEF Ordered
      <4>2. next # NULL
        BY <1>1, <1>2, <4>1
      <4> QED BY <1>1, <1>2, <2>2, <4>1, <4>2
    <3> QED BY <3>1, <3>2 DEF Ordered
  <2> QED BY <2>1, <2>2
<1>9. Ordered(new)
  BY <1>3, <1>5, <1>6, <1>7, <1>8 DEF Ordered
<1> QED BY <1>3, <1>9 DEF new

-----------------------------------------------------------------------------
(* The range set and the blocks of the trace. *)

\* The range set has a record of each block of L that is not empty, and no other;
\* no payload reaches brk.
Tracks(rs, L, bl, sz, brk) ==
    /\ RecordsTyped(rs) /\ Ordered(rs)
    /\ \A x \in L :
        /\ sz[x] = 0 => bl[x] = NULL
        /\ sz[x] # 0 => /\ bl[x] \in DOMAIN rs.tree /\ rs.tree[bl[x]].index = x
                        /\ rs.tree[bl[x]].hi = bl[x] + sz[x] - 1
    /\ \A lo \in DOMAIN rs.tree :
        /\ rs.tree[lo].index \in L /\ bl[rs.tree[lo].index] = lo
        /\ sz[rs.tree[lo].index] # 0 /\ rs.tree[lo].hi < brk

\* A block that is not empty lies in the heap, below brk.
LEMMA TrackedBelow ==
    ASSUME NEW rs, NEW L \in SUBSET Ids, NEW bl \in [Ids -> Int], NEW sz \in [Ids -> Nat],
           NEW brk \in Nat, Tracks(rs, L, bl, sz, brk), NEW x \in L, sz[x] # 0
    PROVE  bl[x] \in Address /\ bl[x] + sz[x] <= brk
<1>1. bl[x] \in DOMAIN rs.tree /\ rs.tree[bl[x]].hi = bl[x] + sz[x] - 1
  BY DEF Tracks
<1>2. rs.tree[bl[x]].hi < brk
  BY <1>1 DEF Tracks
<1>3. bl[x] \in Address /\ bl[x] \in Nat
  BY <1>1 DEF Tracks, RecordsTyped, Address
<1>4. sz[x] \in Nat
  OBVIOUS
<1> QED BY <1>1, <1>2, <1>3, <1>4

\* A new block above all others: it is accepted and recorded.
LEMMA TracksFresh ==
    ASSUME NEW rs, NEW L \in SUBSET Ids, NEW bl \in [Ids -> Int], NEW sz \in [Ids -> Nat],
           NEW brk \in Nat, Tracks(rs, L, bl, sz, brk), NEW x \in Ids \ L,
           NEW lo \in Nat, lo % Alignment = 0, HeapLo <= lo, brk <= lo,
           NEW size \in Nat \ {0}, NEW top \in Nat, lo + size <= top, top <= HeapLimit
    PROVE  LET prev == tree_find_nearest(rs, lo)
           IN  /\ Accepts(rs, prev, lo, size, top)
               /\ Tracks(add_range(rs, prev, lo, size, x), L \cup {x},
                         [bl EXCEPT ![x] = lo], [sz EXCEPT ![x] = size], top)
<1> DEFINE D   == DOMAIN rs.tree
           new == add_range(rs, tree_find_nearest(rs, lo), lo, size, x)
           bl2 == [bl EXCEPT ![x] = lo]
           sz2 == [sz EXCEPT ![x] = size]
<1>1. lo \in Address /\ x \in Nat /\ D \subseteq Nat \ {0}
  BY MallocLabAssumption DEF Address, Tracks, RecordsTyped
<1>2. \A k \in D : rs.tree[k].hi \in Nat /\ rs.tree[k].index \in L
  BY DEF Tracks, RecordsTyped, RangeRecord
<1>3. ASSUME NEW k \in D PROVE k < lo /\ rs.tree[k].hi < lo
  <2> DEFINE y == rs.tree[k].index
  <2>1. y \in L /\ bl[y] = k /\ sz[y] # 0 /\ rs.tree[k].hi < brk
    BY DEF Tracks
  <2>2. rs.tree[k].hi = k + sz[y] - 1
    BY <2>1 DEF Tracks
  <2>3. sz[y] \in Nat /\ k \in Nat /\ rs.tree[k].hi \in Nat
    BY <1>1, <1>2, <2>1
  <2> HIDE DEF y
  <2> QED BY <2>1, <2>2, <2>3
<1>4. /\ Accepts(rs, tree_find_nearest(rs, lo), lo, size, top)
      /\ RecordsTyped(new) /\ Ordered(new)
      /\ DOMAIN new.tree = D \cup {lo}
      /\ new.tree[lo].hi = lo + size - 1 /\ new.tree[lo].index = x
      /\ \A k \in D : /\ new.tree[k].hi = rs.tree[k].hi
                      /\ new.tree[k].index = rs.tree[k].index
  <2>1. RecordsTyped(rs) /\ Ordered(rs)
    BY DEF Tracks
  <2>2. \A k \in DOMAIN rs.tree : k < lo /\ rs.tree[k].hi < lo
    BY <1>3
  <2>3. Accepts(rs, tree_find_nearest(rs, lo), lo, size, top) /\ Added(rs, new, lo, size, x)
    BY <1>1, <2>1, <2>2, FreshRecord
  <2> HIDE DEF new
  <2> QED BY <2>3 DEF Added
<1>5. /\ bl2[x] = lo /\ sz2[x] = size
      /\ \A y \in L : bl2[y] = bl[y] /\ sz2[y] = sz[y]
  OBVIOUS
<1> HIDE DEF bl2, sz2, new
<1>6. ASSUME NEW y \in L \cup {x}
      PROVE  /\ sz2[y] = 0 => bl2[y] = NULL
             /\ sz2[y] # 0 => /\ bl2[y] \in DOMAIN new.tree /\ new.tree[bl2[y]].index = y
                              /\ new.tree[bl2[y]].hi = bl2[y] + sz2[y] - 1
  <2>1. CASE y = x
    BY <1>4, <1>5, <2>1
  <2>2. CASE y \in L
    BY <1>4, <1>5, <2>2 DEF Tracks
  <2> QED BY <2>1, <2>2
<1>7. ASSUME NEW k \in D \cup {lo}
      PROVE  /\ new.tree[k].index \in L \cup {x} /\ bl2[new.tree[k].index] = k
             /\ sz2[new.tree[k].index] # 0 /\ new.tree[k].hi < top
  <2>1. CASE k = lo
    BY <1>4, <1>5, <2>1
  <2>2. CASE k \in D
    <3>1. /\ rs.tree[k].index \in L /\ bl[rs.tree[k].index] = k
          /\ sz[rs.tree[k].index] # 0 /\ rs.tree[k].hi < brk
      BY <2>2 DEF Tracks
    <3>2. rs.tree[k].hi < top
      BY <1>2, <2>2, <3>1
    <3> QED BY <1>4, <1>5, <2>2, <3>1, <3>2
  <2> QED BY <2>1, <2>2
<1>8. Tracks(new, L \cup {x}, bl2, sz2, top)
  BY <1>4, <1>6, <1>7 DEF Tracks
<1> QED BY <1>4, <1>8 DEF new, bl2, sz2

\* A block leaves, with its record if it had one.
LEMMA TracksRemoved ==
    ASSUME NEW rs, NEW L \in SUBSET Ids, NEW bl \in [Ids -> Int], NEW sz \in [Ids -> Nat],
           NEW brk \in Nat, Tracks(rs, L, bl, sz, brk), NEW x \in L
    PROVE  Tracks(remove_range(rs, tree_remove(rs, bl[x])), L \ {x}, bl, sz, brk)
<1> DEFINE D   == DOMAIN rs.tree
           new == remove_range(rs, tree_remove(rs, bl[x]))
<1>1. NULL \notin D
  BY DEF Tracks, RecordsTyped, Address
<1>2. CASE sz[x] = 0
  <2>1. new = rs
    BY <1>1, <1>2 DEF Tracks, tree_remove, remove_range
  <2>2. \A k \in D : rs.tree[k].index # x
    BY <1>2 DEF Tracks
  <2> QED BY <2>1, <2>2 DEF Tracks
<1>3. CASE sz[x] # 0
  <2> DEFINE lo == bl[x]
  <2>1. lo \in D /\ rs.tree[lo].index = x
    BY <1>3 DEF Tracks
  <2>2. new = remove_range(rs, lo)
    BY <2>1 DEF tree_remove
  <2>3. /\ RecordsTyped(new) /\ Ordered(new)
        /\ DOMAIN new.tree = D \ {lo}
        /\ \A k \in D \ {lo} : /\ new.tree[k].hi = rs.tree[k].hi
                               /\ new.tree[k].index = rs.tree[k].index
    BY <2>1, <2>2, RecordRemoved DEF Tracks
  <2>4. \A y \in L \ {x} : sz[y] # 0 => bl[y] # lo
    BY <2>1 DEF Tracks
  <2>5. \A k \in D \ {lo} : rs.tree[k].index # x
    BY DEF Tracks
  <2> HIDE DEF new, lo
  <2>6. Tracks(new, L \ {x}, bl, sz, brk)
    BY <2>3, <2>4, <2>5 DEF Tracks
  <2> QED BY <2>6 DEF new
<1> QED BY <1>2, <1>3

\* A block without bytes has no record.
LEMMA TracksEmpty ==
    ASSUME NEW rs, NEW L \in SUBSET Ids, NEW bl \in [Ids -> Int], NEW sz \in [Ids -> Nat],
           NEW brk \in Nat, Tracks(rs, L, bl, sz, brk), NEW x \in Ids \ L
    PROVE  Tracks(rs, L \cup {x}, [bl EXCEPT ![x] = NULL], [sz EXCEPT ![x] = 0], brk)
<1> DEFINE bl2 == [bl EXCEPT ![x] = NULL]
           sz2 == [sz EXCEPT ![x] = 0]
<1>1. /\ bl2[x] = NULL /\ sz2[x] = 0
      /\ \A y \in L : bl2[y] = bl[y] /\ sz2[y] = sz[y]
  OBVIOUS
<1> HIDE DEF bl2, sz2
<1>2. Tracks(rs, L \cup {x}, bl2, sz2, brk)
  BY <1>1 DEF Tracks
<1> QED BY <1>2 DEF bl2, sz2

\* No payload reaches a higher end either.
LEMMA TracksHigher ==
    ASSUME NEW rs, NEW L, NEW bl, NEW sz, NEW brk \in Nat, Tracks(rs, L, bl, sz, brk),
           NEW top \in Nat, brk <= top
    PROVE  Tracks(rs, L, bl, sz, top)
<1>1. \A k \in DOMAIN rs.tree : rs.tree[k].hi \in Nat
  BY DEF Tracks, RecordsTyped, RangeRecord
<1>2. \A k \in DOMAIN rs.tree : rs.tree[k].hi < top
  BY <1>1 DEF Tracks
<1> QED BY <1>2 DEF Tracks

-----------------------------------------------------------------------------
(* The contents of blocks. *)

\* Both ends of every block of L hold what was written there.
Intact(h, L, bl, sz, base) ==
    \A x \in L : check_index(h, bl[x], sz[x], base[x], FALSE)

\* The two ends of a block do not overlap, and a smaller block has smaller ends.
LEMMA Ends ==
    ASSUME NEW s \in Nat
    PROVE  /\ FrontLen(s) \in Nat /\ BackLen(s) \in Nat /\ FrontLen(s) + BackLen(s) <= s
           /\ s = 0 => FrontLen(s) = 0 /\ BackLen(s) = 0
           /\ \A k \in Nat : k <= s => FrontLen(k) <= FrontLen(s)
BY MallocLabAssumption DEF FrontLen, BackLen

\* What is filled into a block is found there.
LEMMA FilledIn ==
    ASSUME NEW h, NEW lo \in Nat, NEW s \in Nat, NEW base,
           lo .. lo + s - 1 \subseteq DOMAIN h
    PROVE  check_index(randomize_block(h, lo, s, base), lo, s, base, FALSE)
<1> DEFINE new == randomize_block(h, lo, s, base)
           f == FrontLen(s)
           b == BackLen(s)
<1>1. f \in Nat /\ b \in Nat /\ f + b <= s
  BY Ends
<1> HIDE DEF f, b
<1>2. new = [a \in DOMAIN h |->
               IF a \in lo .. lo + f - 1 THEN Append(base, a - lo)
               ELSE IF a \in lo + s - b .. lo + s - 1 THEN Append(base, a - (lo + s - b))
               ELSE h[a]]
  <2>1. (lo .. lo + f - 1) \cap (lo + s - b .. lo + s - 1) = {}
    BY <1>1
  <2> QED BY <2>1 DEF randomize_block, f, b
<1> HIDE DEF new
<1>3. ASSUME NEW k \in 0 .. f - 1 PROVE new[lo + k] = Append(base, k)
  <2> DEFINE a == lo + k
  <2>1. a \in lo .. lo + f - 1 /\ a \in lo .. lo + s - 1 /\ a - lo = k
    BY <1>1
  <2> HIDE DEF a
  <2>2. new[a] = Append(base, a - lo)
    BY <1>2, <2>1
  <2> QED BY <2>1, <2>2 DEF a
<1>4. ASSUME NEW k \in 0 .. b - 1 PROVE new[lo + s - b + k] = Append(base, k)
  <2> DEFINE a == lo + s - b + k
             c == lo + s - b
  <2>1. /\ a \in lo + s - b .. lo + s - 1 /\ a \in lo .. lo + s - 1 /\ a - c = k
        /\ a \notin lo .. lo + f - 1
    BY <1>1
  <2> HIDE DEF a
  <2>2. new[a] = Append(base, a - c)
    BY <1>2, <2>1
  <2> QED BY <2>1, <2>2 DEF a
<1> QED BY <1>3, <1>4 DEF check_index, new, f, b

\* Nothing else changes.
LEMMA FilledOnly ==
    ASSUME NEW h, NEW lo \in Nat, NEW s \in Nat, NEW base
    PROVE  /\ DOMAIN randomize_block(h, lo, s, base) = DOMAIN h
           /\ \A a \in DOMAIN h : a \notin lo .. lo + s - 1 =>
                randomize_block(h, lo, s, base)[a] = h[a]
<1> DEFINE new == randomize_block(h, lo, s, base)
           f == FrontLen(s)
           b == BackLen(s)
<1>1. f \in Nat /\ b \in Nat /\ f + b <= s
  BY Ends
<1> HIDE DEF f, b
<1>2. new = [a \in DOMAIN h |->
               IF a \in lo .. lo + f - 1 THEN Append(base, a - lo)
               ELSE IF a \in lo + s - b .. lo + s - 1 THEN Append(base, a - (lo + s - b))
               ELSE h[a]]
  <2>1. (lo .. lo + f - 1) \cap (lo + s - b .. lo + s - 1) = {}
    BY <1>1
  <2> QED BY <2>1 DEF randomize_block, f, b
<1>3. \A a : a \notin lo .. lo + s - 1 =>
               a \notin lo .. lo + f - 1 /\ a \notin lo + s - b .. lo + s - 1
  BY <1>1
<1> HIDE DEF new
<1>4. DOMAIN new = DOMAIN h
  BY <1>2
<1>5. \A a \in DOMAIN h : a \notin lo .. lo + s - 1 => new[a] = h[a]
  BY <1>2, <1>3
<1> QED BY <1>4, <1>5 DEF new

\* A block is intact as long as its bytes stay.
LEMMA SameBytes ==
    ASSUME NEW h, NEW new, NEW lo \in Nat, NEW s \in Nat, NEW base,
           \A a \in lo .. lo + s - 1 : new[a] = h[a],
           check_index(h, lo, s, base, FALSE)
    PROVE  check_index(new, lo, s, base, FALSE)
<1> DEFINE f == FrontLen(s)
           b == BackLen(s)
<1>1. f \in Nat /\ b \in Nat /\ f + b <= s
  BY Ends
<1> HIDE DEF f, b
<1>2. \A k \in 0 .. f - 1 : h[lo + k] = Append(base, k)
  BY DEF check_index, f
<1>3. \A k \in 0 .. b - 1 : h[lo + s - b + k] = Append(base, k)
  BY DEF check_index, b
<1>4. \A k \in 0 .. f - 1 : lo + k \in lo .. lo + s - 1
  BY <1>1
<1>5. \A k \in 0 .. b - 1 : lo + s - b + k \in lo .. lo + s - 1
  BY <1>1
<1>6. \A k \in 0 .. f - 1 : new[lo + k] = Append(base, k)
  BY <1>2, <1>4
<1>7. \A k \in 0 .. b - 1 : new[lo + s - b + k] = Append(base, k)
  BY <1>3, <1>5
<1> QED BY <1>6, <1>7 DEF check_index, f, b

\* A block without bytes is intact.
LEMMA NoBytes == \A h, lo, base, realloced : check_index(h, lo, 0, base, realloced)
<1>1. FrontLen(0) = 0 /\ BackLen(0) = 0
  BY Ends
<1> QED BY <1>1 DEF check_index

\* A realloc copies what a block holds, as far as both blocks reach: the copy goes up
\* by at least the old size, so that it does not read its own bytes before that.
LEMMA CopiedFront ==
    ASSUME NEW h, NEW old \in Nat, NEW s \in Nat, NEW base,
           check_index(h, old, s, base, FALSE),
           NEW new \in Nat, s <= new - old, NEW n \in Nat,
           new .. new + n - 1 \subseteq DOMAIN h
    PROVE  LET kept == IF n < s THEN n ELSE s
           IN  check_index(mem_memcpy(h, new, old, n), new, kept, base, TRUE)
<1> DEFINE copy == mem_memcpy(h, new, old, n)
           kept == IF n < s THEN n ELSE s
           f == FrontLen(kept)
           d == new - old
<1>1. f \in Nat /\ f <= kept /\ f <= FrontLen(s) /\ FrontLen(s) \in Nat /\ kept \in Nat
  BY Ends
<1>2. f <= n /\ f <= s /\ d \in Nat
  BY <1>1
<1> HIDE DEF f, d
<1>3. ASSUME NEW k \in 0 .. f - 1 PROVE copy[new + k] = Append(base, k)
  <2> DEFINE a == new + k
  <2>1. k \in Nat /\ k < d
    BY <1>1, <1>2 DEF d
  <2>2. a \in new .. new + n - 1 /\ a - new = k /\ a \in DOMAIN h
    BY <1>1, <1>2
  <2>3. k % d = k
    BY <1>2, <2>1
  <2>4. k \in 0 .. FrontLen(s) - 1
    BY <1>1
  <2>5. h[old + k] = Append(base, k)
    BY <2>4 DEF check_index
  <2> HIDE DEF a
  <2>6. copy[a] = h[old + ((a - new) % d)]
    BY <2>2 DEF mem_memcpy, d
  <2> QED BY <2>2, <2>3, <2>5, <2>6 DEF a
<1> QED BY <1>3 DEF check_index, f

\* Nothing outside the new block changes.
LEMMA CopiedOnly ==
    ASSUME NEW h, NEW old, NEW new, NEW n
    PROVE  /\ DOMAIN mem_memcpy(h, new, old, n) = DOMAIN h
           /\ \A a \in DOMAIN h : a \notin new .. new + n - 1 =>
                mem_memcpy(h, new, old, n)[a] = h[a]
BY DEF mem_memcpy

-----------------------------------------------------------------------------
(* The allocator. *)

\* Division with remainder.
LEMMA DivMod ==
    ASSUME NEW a \in Int, a > 0, NEW b \in Int
    PROVE  /\ b = a * (b \div a) + (b % a)
           /\ b \div a \in Int /\ b % a \in Int /\ 0 <= b % a /\ b % a < a
<1>1. b = a * (b \div a) + (b % a)
  BY Z3
<1> QED BY <1>1

\* A multiple leaves no rest, and what leaves none is a multiple.
LEMMA Multiples ==
    ASSUME NEW a \in Int, a > 0, NEW b \in Int
    PROVE  b % a = 0 <=> \E q \in Int : b = a * q
<1>1. /\ b = a * (b \div a) + (b % a)
      /\ b \div a \in Int /\ b % a \in Int /\ 0 <= b % a /\ b % a < a
  BY DivMod
<1>2. ASSUME b % a = 0 PROVE \E q \in Int : b = a * q
  BY <1>1, <1>2
<1>3. ASSUME NEW q \in Int, b = a * q PROVE b % a = 0
  <2> DEFINE d == b \div a
             r == b % a
  <2>1. a * q = a * d + r /\ d \in Int /\ r \in Int /\ 0 <= r /\ r < a
    BY <1>1, <1>3
  <2> HIDE DEF d, r
  <2>2. a * (q - d) = r
    BY <2>1
  <2>3. CASE q - d >= 1
    <3>1. a * (q - d) >= a
      BY <2>1, <2>3
    <3> QED BY <2>1, <2>2, <3>1
  <2>4. CASE q - d <= -1
    <3>1. a * (q - d) <= -a
      BY <2>1, <2>4
    <3> QED BY <2>1, <2>2, <3>1
  <2>5. CASE q - d = 0
    BY <2>2, <2>5 DEF r
  <2> QED BY <2>1, <2>3, <2>4, <2>5
<1> QED BY <1>2, <1>3

\* align rounds up to a multiple of Alignment.
LEMMA Aligned ==
    ASSUME NEW x \in Nat
    PROVE  /\ align(x) \in Nat /\ x <= align(x)
           /\ \A b \in Nat : b % Alignment = 0 => (b + align(x)) % Alignment = 0
<1> DEFINE y == x + Alignment - 1
           d == y \div Alignment
<1>1. Alignment \in Int /\ Alignment > 0 /\ y \in Int
  OBVIOUS
<1>2. /\ y = Alignment * d + (y % Alignment) /\ d \in Int
      /\ y % Alignment \in Int /\ y % Alignment < Alignment
  BY <1>1, DivMod
<1>3. align(x) = Alignment * d
  BY DEF align
<1> HIDE DEF d
<1>4. Alignment * d \in Int /\ x <= Alignment * d
  <2>1. y = x + Alignment - 1
    OBVIOUS
  <2> QED BY <1>1, <1>2, <2>1
<1>5. ASSUME NEW b \in Nat, b % Alignment = 0
      PROVE  (b + align(x)) % Alignment = 0
  <2>1. PICK q \in Int : b = Alignment * q
    BY <1>1, <1>5, Multiples
  <2>2. b + align(x) = Alignment * (q + d)
    BY <1>1, <1>2, <1>3, <2>1
  <2>3. b + align(x) \in Int /\ q + d \in Int
    BY <1>2, <1>3, <1>4
  <2> QED BY <1>1, <2>2, <2>3, Multiples
<1> QED BY <1>3, <1>4, <1>5

\* What malloc does: nothing for no bytes, and if the heap is used up only its result
\* tells.
LEMMA Malloc ==
    ASSUME NEW brk \in HeapLo .. HeapLimit, brk % Alignment = 0, NEW size \in Nat
    PROVE  LET m == malloc(brk, size)
           IN  /\ m.brk \in brk .. HeapLimit /\ m.brk % Alignment = 0
               /\ m.brk \in brk .. brk + align(size)
               /\ m.ptr = NULL <=> size = 0
               /\ size = 0 => m.brk = brk
               /\ size # 0 => \/ m.ptr = brk /\ m.brk = brk + align(size) /\ brk + size <= m.brk
                              \/ m.ptr = FAIL /\ m.brk = brk /\ brk + align(size) > HeapLimit
<1>1. /\ align(size) \in Nat /\ size <= align(size) /\ brk \in Nat
      /\ (brk + align(size)) % Alignment = 0
  <2>1. brk \in Nat
    OBVIOUS
  <2> QED BY <2>1, Aligned
<1>2. CASE size = 0
  BY <1>1, <1>2 DEF malloc
<1>3. CASE size # 0 /\ brk + align(size) > HeapLimit
  <2>1. malloc(brk, size) = [ptr |-> FAIL, brk |-> brk]
    BY <1>3 DEF malloc, mem_sbrk
  <2> QED BY <1>1, <1>3, <2>1 DEF FAIL
<1>4. CASE size # 0 /\ ~ (brk + align(size) > HeapLimit)
  <2>1. malloc(brk, size) = [ptr |-> brk, brk |-> brk + align(size)]
    BY <1>4 DEF malloc, mem_sbrk
  <2> QED BY <1>1, <1>4, <2>1
<1> QED BY <1>2, <1>3, <1>4

-----------------------------------------------------------------------------
(* The trace. *)

Op == [type : {"a", "r", "f"}, index : Ids \cup {NullId}, size : Nat]

\* What the requests before j with one of these types are about.
SeenBefore(j, types) ==
    {ops[k].index : k \in {l \in 1 .. j - 1 : ops[l].type \in types}}

\* A block is allocated before it is used, used before it is freed, and not used
\* after that.
TraceOrdered ==
    /\ ops \in Seq(Op) /\ Len(ops) <= MaxOps
    /\ \A j \in 1 .. Len(ops) :
        /\ ops[j].type = "a" => /\ ops[j].index \in Ids \ SeenBefore(j, {"a"})
                                /\ ops[j].size \in Sizes
        /\ ops[j].type = "r" =>
             /\ ops[j].index \in SeenBefore(j, {"a"}) \ SeenBefore(j, {"f"})
             /\ ops[j].size \in Sizes \cup {0}
        /\ ops[j].type = "f" =>
             \/ ops[j].index = NullId
             \/ ops[j].index \in SeenBefore(j, {"a"}) \ SeenBefore(j, {"f"})

\* The requests of a trace.
LEMMA Requests ==
    ASSUME TraceOrdered
    PROVE  /\ Len(ops) \in Nat /\ DOMAIN ops = 1 .. Len(ops)
           /\ \A j \in 1 .. Len(ops) : ops[j] \in Op
           /\ \A j \in 1 .. Len(ops) + 1 :
                /\ SeenBefore(j, {"a"}) \subseteq Ids
                /\ SeenBefore(j, {"f"}) \subseteq SeenBefore(j, {"a"}) \cup {NullId}
           /\ NullId \notin Ids
<1>1. Len(ops) \in Nat /\ DOMAIN ops = 1 .. Len(ops) /\ \A j \in 1 .. Len(ops) : ops[j] \in Op
  BY LenProperties, ElementOfSeq DEF TraceOrdered
<1>2. NullId \notin Ids
  BY MallocLabAssumption DEF NullId
<1>3. ASSUME NEW j \in 1 .. Len(ops) + 1
      PROVE  /\ SeenBefore(j, {"a"}) \subseteq Ids
             /\ SeenBefore(j, {"f"}) \subseteq SeenBefore(j, {"a"}) \cup {NullId}
  <2>1. \A k \in 1 .. j - 1 : k \in 1 .. Len(ops) /\ 1 .. k - 1 \subseteq 1 .. j - 1
    BY <1>1
  <2>2. \A k \in 1 .. j - 1 : SeenBefore(k, {"a"}) \subseteq SeenBefore(j, {"a"})
    BY <2>1 DEF SeenBefore
  <2>3. SeenBefore(j, {"a"}) \subseteq Ids
    BY <2>1 DEF SeenBefore, TraceOrdered
  <2>4. ASSUME NEW k \in 1 .. j - 1, ops[k].type = "f"
        PROVE  ops[k].index \in SeenBefore(j, {"a"}) \cup {NullId}
    BY <2>1, <2>2, <2>4 DEF TraceOrdered
  <2>5. SeenBefore(j, {"f"}) \subseteq SeenBefore(j, {"a"}) \cup {NullId}
    BY <2>4 DEF SeenBefore
  <2> QED BY <2>3, <2>5
<1> QED BY <1>1, <1>2, <1>3

\* One request more.
LEMMA SeenNext ==
    ASSUME NEW j \in Nat \ {0}, NEW types
    PROVE  SeenBefore(j + 1, types)
             = SeenBefore(j, types) \cup IF ops[j].type \in types THEN {ops[j].index} ELSE {}
<1>1. 1 .. (j + 1) - 1 = (1 .. j - 1) \cup {j}
  OBVIOUS
<1> QED BY <1>1 DEF SeenBefore

\* Reading another request changes nothing about those before.
LEMMA ReadKeeps ==
    ASSUME TraceOrdered, NEW op \in Op, Len(ops) < MaxOps, ops' = Append(ops, op),
           /\ op.type = "a" => op.index \in Ids \ Seen({"a"}) /\ op.size \in Sizes
           /\ op.type = "r" => op.index \in Seen({"a"}) \ Seen({"f"}) /\ op.size \in Sizes \cup {0}
           /\ op.type = "f" => op.index = NullId \/ op.index \in Seen({"a"}) \ Seen({"f"})
    PROVE  TraceOrdered'
<1> DEFINE n == Len(ops)
<1>1. n \in Nat /\ DOMAIN ops = 1 .. n /\ ops \in Seq(Op)
  BY Requests DEF TraceOrdered
<1>2. /\ ops' \in Seq(Op) /\ Len(ops') = n + 1
      /\ \A j \in 1 .. n : ops'[j] = ops[j]
      /\ ops'[n + 1] = op
  BY <1>1, AppendProperties
<1>3. ASSUME NEW j \in 1 .. n + 1, NEW types
      PROVE  SeenBefore(j, types)' = SeenBefore(j, types)
  <2>1. 1 .. j - 1 \subseteq 1 .. n
    BY <1>1
  <2>2. {l \in 1 .. j - 1 : ops'[l].type \in types} = {l \in 1 .. j - 1 : ops[l].type \in types}
    BY <1>2, <2>1
  <2> QED BY <1>2, <2>1, <2>2 DEF SeenBefore
<1>4. \A types : Seen(types) = SeenBefore(n + 1, types)
  <2>1. 1 .. (n + 1) - 1 = DOMAIN ops
    BY <1>1
  <2> QED BY <2>1 DEF Seen, SeenBefore
<1>5. MaxOps \in Nat
  BY MallocLabAssumption
<1>6. ASSUME NEW j \in 1 .. n + 1
      PROVE  /\ ops'[j].type = "a" => /\ ops'[j].index \in Ids \ SeenBefore(j, {"a"})
                                      /\ ops'[j].size \in Sizes
             /\ ops'[j].type = "r" =>
                  /\ ops'[j].index \in SeenBefore(j, {"a"}) \ SeenBefore(j, {"f"})
                  /\ ops'[j].size \in Sizes \cup {0}
             /\ ops'[j].type = "f" =>
                  \/ ops'[j].index = NullId
                  \/ ops'[j].index \in SeenBefore(j, {"a"}) \ SeenBefore(j, {"f"})
  <2>1. CASE j = n + 1
    BY <1>2, <1>4, <2>1
  <2>2. CASE j # n + 1
    <3>1. j \in 1 .. n
      BY <1>1, <2>2
    <3>2. ops'[j] = ops[j]
      BY <1>2, <3>1
    <3> QED BY <3>1, <3>2 DEF TraceOrdered
  <2> QED BY <2>1, <2>2
<1> QED BY <1>1, <1>2, <1>3, <1>5, <1>6 DEF TraceOrdered

\* The largest element.
LEMMA MaxIs ==
    ASSUME NEW S \in SUBSET Int, NEW m \in S, \A x \in S : x <= m
    PROVE  Max(S) = m
<1>1. \A y \in S : m >= y
  OBVIOUS
<1>2. Max(S) \in S /\ \A y \in S : Max(S) >= y
  BY <1>1 DEF Max
<1>3. /\ m \in Int /\ Max(S) \in Int
      /\ Max(S) >= m /\ m >= Max(S)
  BY <1>1, <1>2
<1> QED BY <1>3

\* What a request does to the blocks that are allocated.
LEMMA LiveNext ==
    ASSUME TraceOrdered, i \in 1 .. Len(ops), ops' = ops, i' = i + 1
    PROVE  LET op == ops[i]
           IN  /\ op.type = "a" => op.index \in Ids \ Live /\ Live' = Live \cup {op.index}
               /\ op.type = "r" => op.index \in Live /\ Live' = Live
               /\ op.type = "f" => Live' = Live \ {op.index}
                                   /\ (op.index # NullId => op.index \in Live)
               /\ op.type \in {"a", "r", "f"}
               /\ \A y : LastSize(y)' = IF y = op.index THEN op.size ELSE LastSize(y)
<1> DEFINE op == ops[i]
<1>1. /\ Len(ops) \in Nat /\ op \in Op
      /\ SeenBefore(i, {"a"}) \subseteq Ids /\ NullId \notin Ids
      /\ SeenBefore(i, {"f"}) \subseteq SeenBefore(i, {"a"}) \cup {NullId}
  BY Requests
<1>2. /\ Live = SeenBefore(i, {"a"}) \ SeenBefore(i, {"f"})
      /\ Live' = SeenBefore(i + 1, {"a"}) \ SeenBefore(i + 1, {"f"})
  BY DEF Live, Before, SeenBefore
<1>3. \A types : SeenBefore(i + 1, types)
                   = SeenBefore(i, types) \cup IF op.type \in types THEN {op.index} ELSE {}
  BY <1>1, SeenNext
<1>4. op.type \in {"a", "r", "f"}
  BY <1>1 DEF Op
<1>5. ASSUME NEW y PROVE LastSize(y)' = IF y = op.index THEN op.size ELSE LastSize(y)
  <2> DEFINE S == {j \in 1 .. i - 1 : ops[j].index = y}
             T == {j \in 1 .. i : ops[j].index = y}
  <2>1. LastSize(y) = ops[Max(S)].size /\ LastSize(y)' = ops[Max(T)].size
    <3>1. (i + 1) - 1 = i
      BY <1>1
    <3> QED BY <3>1 DEF LastSize
  <2>2. 1 .. i = (1 .. i - 1) \cup {i} /\ i \in Nat
    BY <1>1
  <2>3. CASE y = op.index
    <3>1. i \in T /\ T \in SUBSET Int /\ \A x \in T : x <= i
      BY <2>2, <2>3
    <3> HIDE DEF T
    <3>2. Max(T) = i
      BY <3>1, MaxIs
    <3> QED BY <2>1, <2>3, <3>2
  <2>4. CASE y # op.index
    <3>1. S = T
      BY <2>2, <2>4
    <3> QED BY <2>1, <2>4, <3>1
  <2> QED BY <2>3, <2>4
<1>6. /\ op.type = "a" => op.index \in Ids \ SeenBefore(i, {"a"})
      /\ op.type = "r" => op.index \in SeenBefore(i, {"a"}) \ SeenBefore(i, {"f"})
      /\ op.type = "f" => \/ op.index = NullId
                          \/ op.index \in SeenBefore(i, {"a"}) \ SeenBefore(i, {"f"})
  BY <1>1 DEF TraceOrdered
<1> HIDE DEF op
<1>7. op.type = "a" => op.index \in Ids \ Live /\ Live' = Live \cup {op.index}
  BY <1>1, <1>2, <1>3, <1>6
<1>8. op.type = "r" => op.index \in Live /\ Live' = Live
  BY <1>1, <1>2, <1>3, <1>6
<1>9. op.type = "f" => Live' = Live \ {op.index} /\ (op.index # NullId => op.index \in Live)
  BY <1>1, <1>2, <1>3, <1>6
<1> QED BY <1>4, <1>5, <1>7, <1>8, <1>9 DEF op

\* At the start of a pass no block is allocated, and at its end none is left if the
\* trace frees all.
LEMMA LiveEnds ==
    ASSUME TraceOrdered
    PROVE  /\ i = 1 => Live = {}
           /\ i = Len(ops) + 1 /\ Seen({"a"}) \subseteq Seen({"f"}) => Live = {}
           /\ i \in 1 .. Len(ops) + 1 => Live \subseteq Ids
<1>1. Len(ops) \in Nat /\ DOMAIN ops = 1 .. Len(ops)
  BY Requests
<1>2. Live = SeenBefore(i, {"a"}) \ SeenBefore(i, {"f"})
  BY DEF Live, Before, SeenBefore
<1>3. i = 1 => Live = {}
  BY <1>2 DEF SeenBefore
<1>4. i = Len(ops) + 1 => \A types : SeenBefore(i, types) = Seen(types)
  <2> SUFFICES ASSUME i = Len(ops) + 1, NEW types PROVE SeenBefore(i, types) = Seen(types)
    OBVIOUS
  <2>1. 1 .. i - 1 = DOMAIN ops
    BY <1>1
  <2> QED BY <2>1 DEF Seen, SeenBefore
<1>5. i \in 1 .. Len(ops) + 1 => Live \subseteq Ids
  BY <1>2, Requests
<1> QED BY <1>2, <1>3, <1>4, <1>5

-----------------------------------------------------------------------------
(* Sums. *)

Pick(s) == CHOOSE x \in s : TRUE

\* g gives the sum of f over every subset of S, taken apart in the order of Pick.
Summed(f, S, g) ==
    g = [s \in SUBSET S |-> IF s = {} THEN 0 ELSE f[Pick(s)] + g[s \ {Pick(s)}]]

\* The same for the subsets of up to n elements.
SummedTo(f, S, n, g) ==
    /\ g \in [SUBSET S -> Int]
    /\ \A s \in SUBSET S : Cardinality(s) <= n =>
        g[s] = IF s = {} THEN 0 ELSE f[Pick(s)] + g[s \ {Pick(s)}]

\* A set loses an element.
LEMMA OneLess ==
    ASSUME NEW S, IsFiniteSet(S), NEW s \in SUBSET S, NEW x \in s
    PROVE  /\ IsFiniteSet(s) /\ s \ {x} \in SUBSET S
           /\ Cardinality(s) \in Nat \ {0} /\ Cardinality(s \ {x}) = Cardinality(s) - 1
           /\ Cardinality(s \ {x}) \in Nat
<1>1. IsFiniteSet(s)
  BY FS_Subset
<1>2. Cardinality(s) \in Nat /\ Cardinality(s \ {x}) = Cardinality(s) - 1
  BY <1>1, FS_CardinalityType, FS_RemoveElement
<1>3. IsFiniteSet(s \ {x})
  BY <1>1, FS_Subset
<1>4. Cardinality(s \ {x}) \in Nat
  BY <1>3, FS_CardinalityType
<1> QED BY <1>1, <1>2, <1>4

\* The members of a finite set, counted.
LEMMA SubsetsCounted ==
    ASSUME NEW S, IsFiniteSet(S), NEW s \in SUBSET S
    PROVE  /\ IsFiniteSet(s) /\ Cardinality(s) \in Nat
           /\ Cardinality(s) <= Cardinality(S) /\ Cardinality(S) \in Nat
           /\ Cardinality(s) = 0 <=> s = {}
           /\ s # {} => Pick(s) \in s
<1>1. IsFiniteSet(s) /\ Cardinality(s) <= Cardinality(S)
  BY FS_Subset
<1>2. Cardinality(s) \in Nat /\ Cardinality(S) \in Nat
  BY <1>1, FS_CardinalityType
<1>3. Cardinality(s) = 0 <=> s = {}
  BY <1>1, FS_EmptySet
<1>4. s # {} => Pick(s) \in s
  BY DEF Pick
<1> QED BY <1>1, <1>2, <1>3, <1>4

\* Such sums exist.
LEMMA SumExists ==
    ASSUME NEW S, IsFiniteSet(S), NEW f \in [S -> Int]
    PROVE  \E g \in [SUBSET S -> Int] : Summed(f, S, g)
<1> DEFINE P == {n \in Nat : \E g : SummedTo(f, S, n, g)}
<1>1. 0 \in P
  <2> DEFINE g == [s \in SUBSET S |-> 0]
  <2>1. ASSUME NEW s \in SUBSET S, Cardinality(s) <= 0
        PROVE  s = {} /\ g[s] = 0
    <3>1. Cardinality(s) = 0
      BY <2>1, SubsetsCounted
    <3> QED BY <3>1, SubsetsCounted
  <2>2. g \in [SUBSET S -> Int]
    OBVIOUS
  <2> HIDE DEF g
  <2> QED BY <2>1, <2>2 DEF SummedTo
<1>2. ASSUME NEW n \in Nat \ {0}, n - 1 \in P PROVE n \in P
  <2>1. PICK g : SummedTo(f, S, n - 1, g)
    BY <1>2
  <2> DEFINE h == [s \in SUBSET S |-> IF s = {} THEN 0 ELSE f[Pick(s)] + g[s \ {Pick(s)}]]
  <2>2. h \in [SUBSET S -> Int]
    <3>1. ASSUME NEW s \in SUBSET S, s # {}
          PROVE  f[Pick(s)] + g[s \ {Pick(s)}] \in Int
      <4>1. Pick(s) \in s /\ s \ {Pick(s)} \in SUBSET S
        BY <3>1, SubsetsCounted
      <4>2. f[Pick(s)] \in Int /\ g[s \ {Pick(s)}] \in Int
        BY <2>1, <4>1 DEF SummedTo
      <4> QED BY <4>2
    <3>2. ASSUME NEW s \in SUBSET S
          PROVE  (IF s = {} THEN 0 ELSE f[Pick(s)] + g[s \ {Pick(s)}]) \in Int
      BY <3>1
    <3> QED BY <3>2
  <2>3. ASSUME NEW s \in SUBSET S, Cardinality(s) <= n - 1
        PROVE  h[s] = g[s]
    BY <2>1, <2>3 DEF SummedTo
  <2>4. ASSUME NEW s \in SUBSET S, Cardinality(s) <= n, s # {}
        PROVE  h[s \ {Pick(s)}] = g[s \ {Pick(s)}]
    <3>1. Pick(s) \in s
      BY <2>4, SubsetsCounted
    <3>2. s \ {Pick(s)} \in SUBSET S /\ Cardinality(s \ {Pick(s)}) <= n - 1
      BY <2>4, <3>1, OneLess
    <3> QED BY <2>3, <3>2
  <2>5. ASSUME NEW s \in SUBSET S, Cardinality(s) <= n
        PROVE  h[s] = IF s = {} THEN 0 ELSE f[Pick(s)] + h[s \ {Pick(s)}]
    BY <2>4, <2>5
  <2> HIDE DEF h
  <2>6. SummedTo(f, S, n, h)
    BY <2>2, <2>5 DEF SummedTo
  <2> QED BY <2>6
<1> HIDE DEF P
<1>3. Cardinality(S) \in P
  <2>1. Cardinality(S) \in Nat
    BY FS_CardinalityType
  <2> QED BY <1>1, <1>2, <2>1, SetInduction
<1>4. PICK g : SummedTo(f, S, Cardinality(S), g)
  BY <1>3 DEF P
<1>5. ASSUME NEW s \in SUBSET S
      PROVE  g[s] = IF s = {} THEN 0 ELSE f[Pick(s)] + g[s \ {Pick(s)}]
  BY <1>4, SubsetsCounted DEF SummedTo
<1>6. g = [s \in SUBSET S |-> g[s]] /\ g \in [SUBSET S -> Int]
  BY <1>4 DEF SummedTo
<1>7. g = [s \in SUBSET S |-> IF s = {} THEN 0 ELSE f[Pick(s)] + g[s \ {Pick(s)}]]
  BY <1>5, <1>6
<1> QED BY <1>6, <1>7 DEF Summed

\* They are integers, and it does not matter which element is taken out.
LEMMA SumOrder ==
    ASSUME NEW S, IsFiniteSet(S), NEW f \in [S -> Int], NEW g, Summed(f, S, g)
    PROVE  /\ g[{}] = 0
           /\ \A T \in SUBSET S : g[T] \in Int
           /\ \A T \in SUBSET S : \A x \in T : g[T] = f[x] + g[T \ {x}]
<1>1. /\ g[{}] = 0
      /\ \A s \in SUBSET S : s # {} => g[s] = f[Pick(s)] + g[s \ {Pick(s)}]
  BY DEF Summed
<1> DEFINE Right(T) == g[T] \in Int /\ \A x \in T : g[T] = f[x] + g[T \ {x}]
           P == {n \in Nat : \A T \in SUBSET S : Cardinality(T) <= n => Right(T)}
<1>2. 0 \in P
  <2>1. ASSUME NEW T \in SUBSET S, Cardinality(T) <= 0 PROVE Right(T)
    <3>1. Cardinality(T) = 0
      BY <2>1, SubsetsCounted
    <3>2. T = {}
      BY <3>1, SubsetsCounted
    <3> QED BY <1>1, <3>2
  <2> QED BY <2>1
<1>3. ASSUME NEW n \in Nat \ {0}, n - 1 \in P PROVE n \in P
  <2> SUFFICES ASSUME NEW T \in SUBSET S, Cardinality(T) <= n PROVE Right(T)
    OBVIOUS
  <2>1. CASE T = {}
    BY <1>1, <2>1
  <2>2. SUFFICES ASSUME T # {} PROVE Right(T)
    BY <2>1
  <2> DEFINE y == Pick(T)
  <2>3. y \in T /\ g[T] = f[y] + g[T \ {y}]
    BY <1>1, <2>2, SubsetsCounted
  <2>4. \A x \in T : Right(T \ {x})
    <3> TAKE x \in T
    <3>1. T \ {x} \in SUBSET S /\ Cardinality(T \ {x}) <= n - 1
      BY OneLess
    <3> QED BY <1>3, <3>1
  <2>5. \A x \in T : f[x] \in Int
    OBVIOUS
  <2>6. g[T] \in Int
    <3>1. Right(T \ {y})
      BY <2>3, <2>4
    <3>2. g[T \ {y}] \in Int
      BY <3>1
    <3>3. f[y] \in Int
      BY <2>3, <2>5
    <3> HIDE DEF y, Right
    <3> QED BY <2>3, <3>2, <3>3
  <2>7. ASSUME NEW x \in T, x # y PROVE g[T] = f[x] + g[T \ {x}]
    <3> DEFINE U == (T \ {y}) \ {x}
               V == (T \ {x}) \ {y}
    <3>1. U = V
      OBVIOUS
    <3>2. g[T \ {y}] = f[x] + g[U]
      BY <2>3, <2>4, <2>7
    <3>3. g[T \ {x}] = f[y] + g[V]
      BY <2>3, <2>4, <2>7
    <3>4. g[U] \in Int
      <4> DEFINE W == T \ {y}
      <4>1. W \in SUBSET S /\ x \in W /\ U = W \ {x}
        BY <2>7
      <4>2. Cardinality(W) <= n - 1
        BY <2>3, OneLess
      <4> HIDE DEF W, U
      <4>3. /\ U \in SUBSET S /\ Cardinality(W) \in Nat
            /\ Cardinality(U) \in Nat /\ Cardinality(U) = Cardinality(W) - 1
        BY <4>1, OneLess
      <4>4. Cardinality(U) <= n - 1
        BY <4>2, <4>3
      <4>5. Right(U)
        BY <1>3, <4>3, <4>4
      <4> QED BY <4>5
    <3> HIDE DEF U, V
    <3> QED BY <2>3, <2>5, <3>1, <3>2, <3>3, <3>4
  <2> QED BY <2>3, <2>6, <2>7
<1>4. \A n \in Nat : n \in P
  <2> HIDE DEF P
  <2> QED BY <1>2, <1>3, SetInduction
<1>5. ASSUME NEW T \in SUBSET S PROVE Right(T)
  <2>1. Cardinality(T) \in Nat
    BY SubsetsCounted
  <2>2. Cardinality(T) \in P
    BY <1>4, <2>1
  <2>3. Cardinality(T) <= Cardinality(T)
    BY <2>1
  <2> HIDE DEF Right
  <2> QED BY <2>2, <2>3
<1> QED BY <1>1, <1>5

\* What SumFunction computes is such a sum.
LEMMA SumIs ==
    ASSUME NEW S, IsFiniteSet(S), NEW f \in [S -> Int]
    PROVE  \E g : Summed(f, S, g) /\ SumFunction(f) = g[S]
<1> DEFINE g == CHOOSE h : Summed(f, S, h)
<1>1. Summed(f, S, g)
  BY SumExists
<1>2. DOMAIN f = S
  OBVIOUS
<1>3. SumFunction(f) = (CHOOSE h : Summed(f, S, h))[S]
  BY <1>2 DEF SumFunction, SumFunctionOnSet, FoldFunctionOnSet, MapThenFoldSet, Summed, Pick
<1> QED BY <1>1, <1>3

\* One element more.
LEMMA SumAdd ==
    ASSUME NEW S, IsFiniteSet(S), NEW x, x \notin S,
           NEW f \in [S -> Int], NEW f2 \in [S \cup {x} -> Int],
           \A y \in S : f2[y] = f[y]
    PROVE  SumFunction(f) \in Int /\ SumFunction(f2) = f2[x] + SumFunction(f)
<1> DEFINE X == S \cup {x}
<1>1. IsFiniteSet(X)
  BY FS_AddElement
<1>2. PICK g : Summed(f, S, g) /\ SumFunction(f) = g[S]
  BY SumIs
<1>3. PICK g2 : Summed(f2, X, g2) /\ SumFunction(f2) = g2[X]
  BY <1>1, SumIs
<1>4. /\ g[{}] = 0 /\ \A T \in SUBSET S : g[T] \in Int
      /\ \A T \in SUBSET S : \A y \in T : g[T] = f[y] + g[T \ {y}]
  BY <1>2, SumOrder
<1>5. /\ g2[{}] = 0
      /\ \A T \in SUBSET X : \A y \in T : g2[T] = f2[y] + g2[T \ {y}]
  BY <1>1, <1>3, SumOrder
<1> DEFINE P == {n \in Nat : \A T \in SUBSET S : Cardinality(T) = n => g2[T] = g[T]}
<1>6. 0 \in P
  <2>1. ASSUME NEW T \in SUBSET S, Cardinality(T) = 0 PROVE T = {}
    BY <2>1, SubsetsCounted
  <2> QED BY <1>4, <1>5, <2>1
<1>7. ASSUME NEW n \in Nat \ {0}, n - 1 \in P PROVE n \in P
  <2>1. ASSUME NEW T \in SUBSET S, Cardinality(T) = n PROVE g2[T] = g[T]
    <3>1. T # {}
      BY <2>1, SubsetsCounted
    <3>2. PICK y \in T : TRUE
      BY <3>1
    <3>3. T \ {y} \in SUBSET S /\ Cardinality(T \ {y}) = n - 1
      BY <2>1, OneLess
    <3>4. g2[T \ {y}] = g[T \ {y}]
      BY <1>7, <3>3
    <3>5. T \in SUBSET X /\ f2[y] = f[y]
      OBVIOUS
    <3>6. g2[T] = f2[y] + g2[T \ {y}]
      BY <1>5, <3>5
    <3>7. g[T] = f[y] + g[T \ {y}]
      BY <1>4
    <3> QED BY <3>4, <3>5, <3>6, <3>7
  <2> QED BY <2>1
<1>8. \A n \in Nat : n \in P
  <2> HIDE DEF P
  <2> QED BY <1>6, <1>7, SetInduction
<1>9. g2[S] = g[S] /\ g[S] \in Int
  <2>1. Cardinality(S) \in Nat
    BY FS_CardinalityType
  <2> QED BY <1>4, <1>8, <2>1
<1>10. g2[X] = f2[x] + g2[S]
  <2>1. X \in SUBSET X /\ x \in X /\ X \ {x} = S
    OBVIOUS
  <2> HIDE DEF X
  <2> QED BY <1>5, <2>1
<1> QED BY <1>2, <1>3, <1>9, <1>10

\* Nothing sums up to nothing.
LEMMA SumEmpty ==
    ASSUME NEW f \in [{} -> Int]
    PROVE  SumFunction(f) = 0
<1>1. IsFiniteSet({})
  BY FS_EmptySet
<1>2. PICK g : Summed(f, {}, g) /\ SumFunction(f) = g[{}]
  BY <1>1, SumIs
<1> QED BY <1>1, <1>2, SumOrder

-----------------------------------------------------------------------------
(* The blocks of a check. *)

\* Writes at and above brk touch no block.
LEMMA Elsewhere ==
    ASSUME NEW rs, NEW L \in SUBSET Ids, NEW bl \in [Ids -> Int], NEW sz \in [Ids -> Nat],
           NEW base, NEW brk \in HeapLo .. HeapLimit, Tracks(rs, L, bl, sz, brk),
           NEW h, DOMAIN h = Addresses, Intact(h, L, bl, sz, base),
           NEW new, \A a \in Addresses : a < brk => new[a] = h[a]
    PROVE  Intact(new, L, bl, sz, base)
<1> SUFFICES ASSUME NEW y \in L PROVE check_index(new, bl[y], sz[y], base[y], FALSE)
  BY DEF Intact
<1>1. CASE sz[y] = 0
  BY <1>1, NoBytes
<1>2. CASE sz[y] # 0
  <2>1. brk \in Nat /\ sz[y] \in Nat
    OBVIOUS
  <2>2. bl[y] \in Address /\ bl[y] + sz[y] <= brk
    BY <1>2, <2>1, TrackedBelow
  <2>3. \A a \in bl[y] .. bl[y] + sz[y] - 1 : a \in Addresses /\ a < brk
    BY <2>1, <2>2 DEF Address, Addresses
  <2>4. bl[y] \in Nat
    BY <2>2 DEF Address
  <2>5. check_index(h, bl[y], sz[y], base[y], FALSE)
    BY DEF Intact
  <2>6. \A a \in bl[y] .. bl[y] + sz[y] - 1 : new[a] = h[a]
    BY <2>3
  <2> QED BY <2>1, <2>4, <2>5, <2>6, SameBytes
<1> QED BY <1>1, <1>2

\* The block x at lo is accepted, recorded and filled.
BlockPlaced(rs, L, bl, sz, base, h, x, lo, size, top, name) ==
    LET prev == tree_find_nearest(rs, lo)
    IN  /\ Accepts(rs, prev, lo, size, top)
        /\ Tracks(add_range(rs, prev, lo, size, x), L \cup {x},
                  [bl EXCEPT ![x] = lo], [sz EXCEPT ![x] = size], top)
        /\ Intact(randomize_block(h, lo, size, name), L \cup {x},
                  [bl EXCEPT ![x] = lo], [sz EXCEPT ![x] = size], [base EXCEPT ![x] = name])
        /\ DOMAIN randomize_block(h, lo, size, name) = Addresses

\* So is a new block above all others.
LEMMA BlockAdded ==
    ASSUME NEW rs, NEW L \in SUBSET Ids, NEW bl \in [Ids -> Int], NEW sz \in [Ids -> Nat],
           NEW base, DOMAIN base = Ids, NEW brk \in HeapLo .. HeapLimit,
           Tracks(rs, L, bl, sz, brk),
           NEW h, DOMAIN h = Addresses, Intact(h, L, bl, sz, base),
           NEW x \in Ids \ L, NEW lo \in Nat, lo % Alignment = 0, brk <= lo,
           NEW size \in Nat \ {0}, NEW top \in HeapLo .. HeapLimit, lo + size <= top, NEW name
    PROVE  BlockPlaced(rs, L, bl, sz, base, h, x, lo, size, top, name)
<1> DEFINE prev  == tree_find_nearest(rs, lo)
           bl2   == [bl EXCEPT ![x] = lo]
           sz2   == [sz EXCEPT ![x] = size]
           base2 == [base EXCEPT ![x] = name]
           new   == randomize_block(h, lo, size, name)
<1>1. brk \in Nat /\ top \in Nat /\ HeapLo <= lo /\ top <= HeapLimit /\ size \in Nat
  OBVIOUS
<1>2. /\ Accepts(rs, prev, lo, size, top)
      /\ Tracks(add_range(rs, prev, lo, size, x), L \cup {x}, bl2, sz2, top)
  BY <1>1, TracksFresh
<1>3. DOMAIN new = Addresses /\ \A a \in Addresses : a < brk => new[a] = h[a]
  <2>1. \A a \in Addresses : a < brk => a \notin lo .. lo + size - 1
    BY <1>1 DEF Addresses
  <2> QED BY <1>1, <2>1, FilledOnly
<1>4. check_index(new, lo, size, name, FALSE)
  <2>1. lo .. lo + size - 1 \subseteq DOMAIN h
    BY <1>1 DEF Addresses
  <2> QED BY <1>1, <2>1, FilledIn
<1> HIDE DEF new
<1>5. Intact(new, L, bl, sz, base)
  BY <1>3, Elsewhere
<1>6. /\ bl2[x] = lo /\ sz2[x] = size /\ base2[x] = name
      /\ \A y \in L : bl2[y] = bl[y] /\ sz2[y] = sz[y] /\ base2[y] = base[y]
  OBVIOUS
<1> HIDE DEF bl2, sz2, base2
<1>7. Intact(new, L \cup {x}, bl2, sz2, base2)
  BY <1>4, <1>5, <1>6 DEF Intact
<1> QED BY <1>2, <1>3, <1>7 DEF new, bl2, sz2, base2, BlockPlaced

\* A block that is freed leaves the others as they are.
LEMMA BlockRemoved ==
    ASSUME NEW rs, NEW L \in SUBSET Ids, NEW bl \in [Ids -> Int], NEW sz \in [Ids -> Nat],
           NEW base, NEW brk \in HeapLo .. HeapLimit, Tracks(rs, L, bl, sz, brk),
           NEW h, Intact(h, L, bl, sz, base), NEW x \in L
    PROVE  /\ Tracks(remove_range(rs, tree_remove(rs, bl[x])), L \ {x}, bl, sz, brk)
           /\ Intact(h, L \ {x}, bl, sz, base)
<1>1. brk \in Nat
  OBVIOUS
<1>2. Tracks(remove_range(rs, tree_remove(rs, bl[x])), L \ {x}, bl, sz, brk)
  BY <1>1, TracksRemoved
<1>3. Intact(h, L \ {x}, bl, sz, base)
  BY DEF Intact
<1> QED BY <1>2, <1>3

\* The block x has become empty: it has no record and nothing to fill.
BlockEmpty(rs, L, bl, sz, base, brk, h, x, name) ==
    /\ Tracks(rs, L \cup {x}, [bl EXCEPT ![x] = NULL], [sz EXCEPT ![x] = 0], brk)
    /\ Intact(randomize_block(h, NULL, 0, name), L \cup {x},
              [bl EXCEPT ![x] = NULL], [sz EXCEPT ![x] = 0], [base EXCEPT ![x] = name])
    /\ DOMAIN randomize_block(h, NULL, 0, name) = Addresses

LEMMA BlockEmptied ==
    ASSUME NEW rs, NEW L \in SUBSET Ids, NEW bl \in [Ids -> Int], NEW sz \in [Ids -> Nat],
           NEW base, DOMAIN base = Ids, NEW brk \in HeapLo .. HeapLimit,
           Tracks(rs, L, bl, sz, brk),
           NEW h, DOMAIN h = Addresses, Intact(h, L, bl, sz, base), NEW x \in Ids \ L, NEW name
    PROVE  BlockEmpty(rs, L, bl, sz, base, brk, h, x, name)
<1> DEFINE bl2   == [bl EXCEPT ![x] = NULL]
           sz2   == [sz EXCEPT ![x] = 0]
           base2 == [base EXCEPT ![x] = name]
           new   == randomize_block(h, NULL, 0, name)
<1>1. brk \in Nat /\ NULL \in Nat /\ 0 \in Nat
  OBVIOUS
<1>2. Tracks(rs, L \cup {x}, bl2, sz2, brk)
  BY <1>1, TracksEmpty
<1>3. DOMAIN new = Addresses /\ \A a \in Addresses : a < brk => new[a] = h[a]
  <2>1. \A a \in Addresses : a \notin NULL .. NULL + 0 - 1
    BY DEF Addresses
  <2> QED BY <1>1, <2>1, FilledOnly
<1> HIDE DEF new
<1>4. Intact(new, L, bl, sz, base)
  BY <1>3, Elsewhere
<1>5. /\ bl2[x] = NULL /\ sz2[x] = 0 /\ base2[x] = name
      /\ \A y \in L : bl2[y] = bl[y] /\ sz2[y] = sz[y] /\ base2[y] = base[y]
  OBVIOUS
<1> HIDE DEF bl2, sz2, base2
<1>6. check_index(new, bl2[x], sz2[x], base2[x], FALSE)
  BY <1>5, NoBytes
<1>7. Intact(new, L \cup {x}, bl2, sz2, base2)
  BY <1>4, <1>5, <1>6 DEF Intact
<1> QED BY <1>2, <1>3, <1>7 DEF new, bl2, sz2, base2, BlockEmpty

\* A copy to the end of the heap and beyond touches no block.
LEMMA CopyKeeps ==
    ASSUME NEW rs, NEW L \in SUBSET Ids, NEW bl \in [Ids -> Int], NEW sz \in [Ids -> Nat],
           NEW base, NEW brk \in HeapLo .. HeapLimit, Tracks(rs, L, bl, sz, brk),
           NEW h, DOMAIN h = Addresses, Intact(h, L, bl, sz, base),
           NEW lo \in Nat, brk <= lo, NEW old, NEW n \in Nat
    PROVE  /\ Intact(mem_memcpy(h, lo, old, n), L, bl, sz, base)
           /\ DOMAIN mem_memcpy(h, lo, old, n) = Addresses
<1> DEFINE new == mem_memcpy(h, lo, old, n)
<1>1. DOMAIN new = Addresses /\ \A a \in Addresses : a \notin lo .. lo + n - 1 => new[a] = h[a]
  BY CopiedOnly
<1> HIDE DEF new
<1>2. \A a \in Addresses : a < brk => new[a] = h[a]
  BY <1>1 DEF Addresses
<1>3. Intact(new, L, bl, sz, base)
  BY <1>2, Elsewhere
<1> QED BY <1>1, <1>3 DEF new

\* What realloc does.  A block that has no bytes gets them twice, the first time to no
\* use.
Reallocated(brk, h, old, size) ==
    LET r    == realloc(brk, h, old, size)
        room == IF old = NULL THEN align(size) + align(size) ELSE align(size)
    IN  /\ r.brk \in brk .. HeapLimit /\ r.brk % Alignment = 0
        /\ r.ptr \in Int /\ r.ok \in BOOLEAN /\ DOMAIN r.heap = Addresses
        /\ r.brk <= brk + room
        /\ size = 0 => /\ r.ptr = NULL /\ r.brk = brk /\ r.heap = h /\ r.ok
        /\ size # 0 /\ old = NULL => r.heap = h /\ r.ok
        /\ size # 0 /\ old # NULL =>
             /\ r.ok <=> r.ptr # FAIL /\ old # FAIL
             /\ r.ok => r.heap = mem_memcpy(h, r.ptr, old, size)
        /\ size # 0 /\ r.ptr = FAIL => brk + room > HeapLimit
        /\ size # 0 /\ r.ptr # FAIL =>
             /\ r.ptr \in Nat /\ brk <= r.ptr /\ r.ptr % Alignment = 0
             /\ r.ptr # NULL /\ r.ptr + size <= r.brk

LEMMA Realloc ==
    ASSUME NEW brk \in HeapLo .. HeapLimit, brk % Alignment = 0, NEW size \in Nat,
           NEW h, DOMAIN h = Addresses, NEW old \in Int
    PROVE  Reallocated(brk, h, old, size)
<1> DEFINE m     == malloc(brk, size)
           again == malloc(m.brk, size)
           r     == realloc(brk, h, old, size)
           need  == align(size)
<1>1. need \in Nat /\ size <= need
  BY Aligned
<1>2. /\ m.brk \in brk .. HeapLimit /\ m.brk % Alignment = 0 /\ m.brk <= brk + need
      /\ m.ptr = NULL <=> size = 0
      /\ size = 0 => m.brk = brk
      /\ size # 0 => \/ m.ptr = brk /\ m.brk = brk + need /\ brk + size <= m.brk
                     \/ m.ptr = FAIL /\ m.brk = brk /\ brk + need > HeapLimit
  <2>1. m.brk \in brk .. brk + need
    BY Malloc
  <2>2. m.brk \in brk .. HeapLimit
    BY Malloc
  <2>3. m.brk <= brk + need
    BY <1>1, <2>1
  <2> QED BY <2>2, <2>3, Malloc
<1>3. m.brk \in HeapLo .. HeapLimit /\ m.brk \in Nat
  BY <1>2
<1>4. /\ again.brk \in m.brk .. HeapLimit /\ again.brk % Alignment = 0
      /\ size # 0 => \/ /\ again.ptr = m.brk /\ again.brk = m.brk + need
                        /\ m.brk + size <= again.brk
                     \/ /\ again.ptr = FAIL /\ again.brk = m.brk
                        /\ m.brk + need > HeapLimit
  <2> HIDE DEF m
  <2> QED BY <1>2, <1>3, Malloc
<1>5. /\ size = 0 => r = [ptr |-> NULL, brk |-> m.brk, heap |-> h, ok |-> TRUE]
      /\ size # 0 /\ old = NULL =>
           r = [ptr |-> again.ptr, brk |-> again.brk, heap |-> h, ok |-> TRUE]
      /\ size # 0 /\ old # NULL =>
           r = [ptr |-> m.ptr, brk |-> m.brk, ok |-> FAIL \notin {m.ptr, old},
                heap |-> IF FAIL \in {m.ptr, old} THEN h
                         ELSE mem_memcpy(h, m.ptr, old, size)]
  <2> HIDE DEF m, again
  <2>1. CASE size = 0
    BY <2>1 DEF realloc, m, again
  <2>2. CASE size # 0 /\ old = NULL
    BY <2>2 DEF realloc, m, again
  <2>3. CASE size # 0 /\ old # NULL
    BY <2>3 DEF realloc, m, again
  <2> QED BY <2>1, <2>2, <2>3
<1> HIDE DEF m, again, r, need
<1>6. CASE size = 0
  <2>1. r.ptr = NULL /\ r.brk = m.brk /\ r.heap = h /\ r.ok = TRUE
    BY <1>5, <1>6
  <2>2. m.brk = brk /\ brk <= brk + need /\ brk <= brk + (need + need)
    BY <1>1, <1>2, <1>6
  <2>3. /\ r.brk \in brk .. HeapLimit /\ r.brk % Alignment = 0
        /\ r.ptr \in Int /\ r.ok \in BOOLEAN /\ DOMAIN r.heap = Addresses
        /\ r.brk <= brk + IF old = NULL THEN need + need ELSE need
    <3>1. r.brk \in brk .. HeapLimit /\ r.brk % Alignment = 0
      BY <2>1, <2>2
    <3>2. r.ptr \in Int /\ r.ok \in BOOLEAN /\ DOMAIN r.heap = Addresses
      <4>1. NULL \in Int
        OBVIOUS
      <4>2. r.ptr \in Int
        BY <2>1, <4>1, Zenon
      <4>3. r.ok \in BOOLEAN
        BY <2>1, Zenon
      <4>4. DOMAIN r.heap = Addresses
        BY <2>1, Zenon
      <4> QED BY <4>2, <4>3, <4>4
    <3>3. r.brk <= brk + IF old = NULL THEN need + need ELSE need
      BY <2>1, <2>2
    <3> QED BY <3>1, <3>2, <3>3
  <2> QED BY <1>6, <2>1, <2>2, <2>3 DEF r, need, Reallocated
<1>7. CASE size # 0 /\ old = NULL
  <2>1. /\ r.ptr = again.ptr /\ r.brk = again.brk /\ r.heap = h /\ r.ok = TRUE
    BY <1>5, <1>7
  <2>2. r.brk \in brk .. HeapLimit /\ r.brk % Alignment = 0 /\ r.brk <= brk + (need + need)
    BY <1>1, <1>2, <1>3, <1>4, <1>7, <2>1
  <2>3. r.ptr = FAIL => brk + (need + need) > HeapLimit
    BY <1>1, <1>2, <1>3, <1>4, <1>7, <2>1 DEF FAIL
  <2>4. r.ptr \in Int
    BY <1>3, <1>4, <1>7, <2>1 DEF FAIL
  <2>5. r.ptr # FAIL => /\ r.ptr \in Nat /\ brk <= r.ptr /\ r.ptr % Alignment = 0
                        /\ r.ptr # NULL /\ r.ptr + size <= r.brk
    BY <1>1, <1>2, <1>3, <1>4, <1>7, <2>1
  <2> QED BY <1>7, <2>1, <2>2, <2>3, <2>4, <2>5 DEF r, need, Reallocated
<1>8. CASE size # 0 /\ old # NULL
  <2>1. /\ r.ptr = m.ptr /\ r.brk = m.brk /\ r.ok = (FAIL \notin {m.ptr, old})
        /\ r.heap = IF FAIL \in {m.ptr, old} THEN h ELSE mem_memcpy(h, m.ptr, old, size)
    BY <1>5, <1>8
  <2>2. DOMAIN r.heap = Addresses
    BY <2>1, CopiedOnly
  <2>3. r.ok \in BOOLEAN /\ (r.ok <=> r.ptr # FAIL /\ old # FAIL)
    BY <2>1
  <2>4. r.ok => r.heap = mem_memcpy(h, r.ptr, old, size)
    BY <2>1
  <2>5. r.ptr = FAIL => brk + need > HeapLimit
    BY <1>1, <1>2, <1>8, <2>1 DEF FAIL
  <2>6. r.ptr \in Int
    BY <1>2, <1>8, <2>1 DEF FAIL
  <2>7. r.ptr # FAIL => /\ r.ptr \in Nat /\ brk <= r.ptr /\ r.ptr % Alignment = 0
                        /\ r.ptr # NULL /\ r.ptr + size <= r.brk
    BY <1>1, <1>2, <1>8, <2>1
  <2> QED BY <1>2, <1>8, <2>1, <2>2, <2>3, <2>4, <2>5, <2>6, <2>7 DEF r, need, Reallocated
<1> QED BY <1>6, <1>7, <1>8

\* If it gets a new place, the block x is there with what it held as far as that
\* reaches; its old record goes and a new one comes.
BlockTaken(rs, L, bl, sz, base, brk, h, x, size, name) ==
    LET r       == realloc(brk, h, bl[x], size)
        removed == remove_range(rs, tree_remove(rs, bl[x]))
        prev    == tree_find_nearest(removed, r.ptr)
        kept    == IF size < sz[x] THEN size ELSE sz[x]
        new     == IF size > 0 THEN add_range(removed, prev, r.ptr, size, x) ELSE removed
        filled  == randomize_block(r.heap, r.ptr, size, name)
    IN  r.ok /\ r.ptr # FAIL =>
          /\ size > 0 => Accepts(removed, prev, r.ptr, size, r.brk)
          /\ check_index(r.heap, r.ptr, kept, base[x], TRUE)
          /\ Tracks(new, L, [bl EXCEPT ![x] = r.ptr], [sz EXCEPT ![x] = size], r.brk)
          /\ Intact(filled, L, [bl EXCEPT ![x] = r.ptr], [sz EXCEPT ![x] = size],
                    [base EXCEPT ![x] = name])
          /\ DOMAIN filled = Addresses

\* So it is for any block.
LEMMA BlockMoved ==
    ASSUME NEW rs, NEW L \in SUBSET Ids, NEW bl \in [Ids -> Int], NEW sz \in [Ids -> Nat],
           NEW base, DOMAIN base = Ids, NEW brk \in HeapLo .. HeapLimit, brk % Alignment = 0,
           Tracks(rs, L, bl, sz, brk),
           NEW h, DOMAIN h = Addresses, Intact(h, L, bl, sz, base),
           NEW x \in L, NEW size \in Nat, NEW name
    PROVE  BlockTaken(rs, L, bl, sz, base, brk, h, x, size, name)
<1> DEFINE old     == bl[x]
           r       == realloc(brk, h, old, size)
           removed == remove_range(rs, tree_remove(rs, old))
           prev    == tree_find_nearest(removed, r.ptr)
           kept    == IF size < sz[x] THEN size ELSE sz[x]
           Rest    == L \ {x}
           new     == IF size > 0 THEN add_range(removed, prev, r.ptr, size, x) ELSE removed
           filled  == randomize_block(r.heap, r.ptr, size, name)
           Goal ==
             /\ size > 0 => Accepts(removed, prev, r.ptr, size, r.brk)
             /\ check_index(r.heap, r.ptr, kept, base[x], TRUE)
             /\ Tracks(new, L, [bl EXCEPT ![x] = r.ptr], [sz EXCEPT ![x] = size], r.brk)
             /\ Intact(filled, L, [bl EXCEPT ![x] = r.ptr], [sz EXCEPT ![x] = size],
                       [base EXCEPT ![x] = name])
             /\ DOMAIN filled = Addresses
<1>1. /\ x \in Ids /\ old \in Int /\ sz[x] \in Nat /\ Rest \in SUBSET Ids /\ x \in Ids \ Rest
      /\ Rest \cup {x} = L /\ brk \in Nat
  OBVIOUS
<1>2. Reallocated(brk, h, old, size)
  BY <1>1, Realloc
<1>3. Tracks(removed, Rest, bl, sz, brk) /\ Intact(h, Rest, bl, sz, base)
  BY BlockRemoved
<1>4. r.brk \in brk .. HeapLimit
  BY <1>2 DEF Reallocated
<1>5. sz[x] = 0 => old = NULL
  BY DEF Tracks
<1>6. CASE size = 0
  <2>1. r.ptr = NULL /\ r.brk = brk /\ r.heap = h
    BY <1>1, <1>6, <1>2 DEF Reallocated
  <2>2. kept = 0
    BY <1>1, <1>6
  <2> HIDE DEF removed, r, Rest, kept, old
  <2>3. check_index(r.heap, r.ptr, kept, base[x], TRUE)
    BY <2>2, NoBytes
  <2>4. BlockEmpty(removed, Rest, bl, sz, base, brk, h, x, name)
    BY <1>1, <1>3, BlockEmptied
  <2>5. /\ Tracks(removed, Rest \cup {x}, [bl EXCEPT ![x] = NULL], [sz EXCEPT ![x] = 0], brk)
        /\ Intact(randomize_block(h, NULL, 0, name), Rest \cup {x},
                  [bl EXCEPT ![x] = NULL], [sz EXCEPT ![x] = 0], [base EXCEPT ![x] = name])
        /\ DOMAIN randomize_block(h, NULL, 0, name) = Addresses
    BY <2>4 DEF BlockEmpty
  <2>6. Goal
    <3>1. new = removed /\ ~ (size > 0)
      BY <1>6
    <3>2. filled = randomize_block(h, NULL, 0, name)
      BY <1>6, <2>1
    <3> HIDE DEF new, filled
    <3>3. Tracks(new, L, [bl EXCEPT ![x] = r.ptr], [sz EXCEPT ![x] = size], r.brk)
      BY <1>1, <1>6, <2>1, <2>5, <3>1
    <3>4. Intact(filled, L, [bl EXCEPT ![x] = r.ptr], [sz EXCEPT ![x] = size],
                 [base EXCEPT ![x] = name])
      BY <1>1, <1>6, <2>1, <2>5, <3>2
    <3>5. DOMAIN filled = Addresses
      BY <2>5, <3>2
    <3> QED BY <2>3, <3>1, <3>3, <3>4, <3>5
  <2> QED BY <2>6 DEF removed, r, kept, old, BlockTaken
<1>7. CASE size # 0 /\ r.ok /\ r.ptr # FAIL
  <2>1. /\ r.ptr \in Nat /\ brk <= r.ptr /\ r.ptr % Alignment = 0 /\ r.ptr + size <= r.brk
    BY <1>1, <1>7, <1>2 DEF Reallocated
  <2>2. r.brk \in HeapLo .. HeapLimit /\ size \in Nat \ {0}
    BY <1>4, <1>7
  <2>3. DOMAIN r.heap = Addresses /\ Intact(r.heap, Rest, bl, sz, base)
    <3>1. CASE old = NULL
      <4>1. r.heap = h
        BY <1>1, <1>7, <3>1, <1>2 DEF Reallocated
      <4> QED BY <1>3, <4>1
    <3>2. CASE old # NULL
      <4>1. r.heap = mem_memcpy(h, r.ptr, old, size)
        BY <1>1, <1>7, <3>2, <1>2 DEF Reallocated
      <4> HIDE DEF removed, r, Rest, old
      <4> DEFINE lo == r.ptr
      <4>2. lo \in Nat /\ brk <= lo
        BY <2>1
      <4> HIDE DEF lo
      <4>3. /\ Intact(mem_memcpy(h, lo, old, size), Rest, bl, sz, base)
            /\ DOMAIN mem_memcpy(h, lo, old, size) = Addresses
        BY <1>1, <1>3, <4>2, CopyKeeps
      <4> QED BY <4>1, <4>3 DEF lo
    <3> QED BY <3>1, <3>2
  <2>4. check_index(r.heap, r.ptr, kept, base[x], TRUE)
    <3>1. CASE sz[x] = 0
      <4>1. kept = 0
        BY <1>1, <3>1
      <4> QED BY <4>1, NoBytes
    <3>2. CASE sz[x] # 0
      <4>1. old \in Address /\ old + sz[x] <= brk
        BY <1>1, <3>2, TrackedBelow
      <4>2. old \in Nat /\ old # NULL
        BY <4>1 DEF Address
      <4>3. r.heap = mem_memcpy(h, r.ptr, old, size)
        BY <1>1, <1>7, <4>2, <1>2 DEF Reallocated
      <4>4. check_index(h, old, sz[x], base[x], FALSE)
        BY DEF Intact
      <4> HIDE DEF r, old
      <4>5. sz[x] <= r.ptr - old
        BY <1>1, <2>1, <4>1, <4>2
      <4>6. r.ptr .. r.ptr + size - 1 \subseteq DOMAIN h
        BY <1>1, <2>1, <2>2 DEF Addresses
      <4> DEFINE lo == r.ptr
      <4>7. lo \in Nat /\ sz[x] <= lo - old /\ lo .. lo + size - 1 \subseteq DOMAIN h
        BY <2>1, <4>5, <4>6
      <4> HIDE DEF lo, kept
      <4>8. check_index(mem_memcpy(h, lo, old, size), lo, kept, base[x], TRUE)
        BY <1>1, <4>2, <4>4, <4>7, CopiedFront DEF kept
      <4> QED BY <4>3, <4>8 DEF lo
    <3> QED BY <3>1, <3>2
  <2> HIDE DEF removed, r, Rest, kept, old
  <2> DEFINE lo  == r.ptr
             top == r.brk
             mem == r.heap
  <2>5. /\ lo \in Nat /\ lo % Alignment = 0 /\ brk <= lo /\ top \in HeapLo .. HeapLimit
        /\ lo + size <= top /\ DOMAIN mem = Addresses /\ Intact(mem, Rest, bl, sz, base)
    BY <2>1, <2>2, <2>3
  <2> HIDE DEF lo, top, mem
  <2>6. BlockPlaced(removed, Rest, bl, sz, base, mem, x, lo, size, top, name)
    BY <1>1, <1>3, <2>2, <2>5, BlockAdded
  <2>7. /\ Accepts(removed, tree_find_nearest(removed, lo), lo, size, top)
        /\ Tracks(add_range(removed, tree_find_nearest(removed, lo), lo, size, x),
                  Rest \cup {x}, [bl EXCEPT ![x] = lo], [sz EXCEPT ![x] = size], top)
        /\ Intact(randomize_block(mem, lo, size, name), Rest \cup {x}, [bl EXCEPT ![x] = lo],
                  [sz EXCEPT ![x] = size], [base EXCEPT ![x] = name])
        /\ DOMAIN randomize_block(mem, lo, size, name) = Addresses
    BY <2>6 DEF BlockPlaced
  <2>8. size > 0
    BY <1>7
  <2>9. Goal
    <3>1. new = add_range(removed, tree_find_nearest(removed, lo), lo, size, x)
      BY <2>8 DEF lo
    <3>2. filled = randomize_block(mem, lo, size, name)
      BY DEF lo, mem
    <3> HIDE DEF new, filled
    <3>3. Tracks(new, L, [bl EXCEPT ![x] = r.ptr], [sz EXCEPT ![x] = size], r.brk)
      BY <1>1, <2>7, <3>1 DEF lo, top
    <3>4. Intact(filled, L, [bl EXCEPT ![x] = r.ptr], [sz EXCEPT ![x] = size],
                 [base EXCEPT ![x] = name])
      BY <1>1, <2>7, <3>2 DEF lo
    <3>5. DOMAIN filled = Addresses
      BY <2>7, <3>2
    <3>6. Accepts(removed, prev, r.ptr, size, r.brk)
      BY <2>7 DEF lo, top
    <3> QED BY <2>4, <3>3, <3>4, <3>5, <3>6
  <2> QED BY <2>9 DEF removed, r, kept, old, BlockTaken
<1> QED BY <1>6, <1>7 DEF BlockTaken

-----------------------------------------------------------------------------
(* The inductive invariant.                                                      *)

Typed ==
    /\ TraceOrdered
    /\ phase \in Passes \cup {"read", "done", "invalid"}
    /\ phase = "read" => i = 1
    /\ phase \in Passes => i \in 1 .. Len(ops) + 1 /\ Seen({"a"}) \subseteq Seen({"f"})
    /\ DOMAIN heap = Addresses
    /\ mem_brk \in HeapLo .. HeapLimit /\ mem_brk % Alignment = 0
    /\ blocks \in [Ids -> Int] /\ block_sizes \in [Ids -> Nat] /\ DOMAIN block_rand_base = Ids

\* The blocks that the range set should know of: only the checks tell it any, and each
\* leaves it empty.
Tracked == IF Checking THEN Live ELSE {}

SizesKnown == Checking \/ phase = "util" => \A x \in Live : block_sizes[x] = LastSize(x)

IInv ==
    /\ Typed
    /\ phase # "invalid" => Tracks(ranges, Tracked, blocks, block_sizes, mem_brk)
    /\ Checking => Intact(heap, Live, blocks, block_sizes, block_rand_base)
    /\ SizesKnown
    /\ TotalIsLive

\* What is true of the trace stays true.
LEMMA SameTrace ==
    ASSUME TraceOrdered, ops' = ops
    PROVE  TraceOrdered' /\ \A types : Seen(types)' = Seen(types)
<1>1. \A j, types : SeenBefore(j, types)' = SeenBefore(j, types)
  BY DEF SeenBefore
<1>2. \A types : Seen(types)' = Seen(types)
  BY DEF Seen
<1>3. TraceOrdered'
  BY <1>1 DEF TraceOrdered
<1> QED BY <1>2, <1>3

\* Nothing is promised after a failure.
LEMMA FailsKeeps ==
    ASSUME IInv, NEW what, Fails(what), DOMAIN heap' = Addresses,
           mem_brk' \in HeapLo .. HeapLimit, mem_brk' % Alignment = 0
    PROVE  IInv'
<1>1. /\ ops' = ops /\ i' = i /\ phase' = "invalid" /\ trace' = trace
  BY DEF Fails
<1>2. TraceOrdered'
  BY <1>1, SameTrace DEF IInv, Typed
<1>3. /\ blocks' \in [Ids -> Int] /\ block_sizes' \in [Ids -> Nat]
      /\ DOMAIN block_rand_base' = Ids
  BY <1>1 DEF IInv, Typed, trace
<1>4. Typed'
  <2>1. "invalid" \notin Passes
    BY DEF Passes
  <2> QED BY <1>1, <1>2, <1>3, <2>1 DEF Typed, Addresses
<1>5. ~ Checking' /\ phase' # "util"
  BY <1>1 DEF Checking
<1> QED BY <1>1, <1>4, <1>5 DEF IInv, SizesKnown, TotalIsLive

\* A request of a pass that does not fail.
LEMMA DoneKeeps ==
    ASSUME Typed, phase \in Passes, i <= Len(ops), Done,
           DOMAIN heap' = Addresses, mem_brk' \in HeapLo .. HeapLimit, mem_brk' % Alignment = 0,
           blocks' \in [Ids -> Int], block_sizes' \in [Ids -> Nat], DOMAIN block_rand_base' = Ids
    PROVE  Typed'
<1>1. i \in 1 .. Len(ops) + 1 /\ Len(ops) \in Nat
  BY Requests DEF Typed
<1>2. /\ ops' = ops /\ phase' = phase /\ i' = i + 1
  BY DEF Done
<1>3. TraceOrdered' /\ \A types : Seen(types)' = Seen(types)
  BY <1>2, SameTrace DEF Typed
<1>4. i' \in 1 .. Len(ops') + 1
  BY <1>1, <1>2
<1>5. "read" \notin Passes
  BY DEF Passes
<1>6. Seen({"a"})' \subseteq Seen({"f"})'
  BY <1>3 DEF Typed
<1> QED BY <1>2, <1>3, <1>4, <1>5, <1>6 DEF Typed, Addresses

\* What a request finds.
LEMMA AtRequest ==
    ASSUME IInv, phase \in Passes, i <= Len(ops)
    PROVE  /\ TraceOrdered /\ i \in 1 .. Len(ops) /\ ops[i] \in Op /\ Live \in SUBSET Ids
           /\ DOMAIN heap = Addresses
           /\ mem_brk \in HeapLo .. HeapLimit /\ mem_brk % Alignment = 0
           /\ blocks \in [Ids -> Int] /\ block_sizes \in [Ids -> Nat]
           /\ DOMAIN block_rand_base = Ids
           /\ Checking => Tracks(ranges, Live, blocks, block_sizes, mem_brk)
           /\ Checking => Intact(heap, Live, blocks, block_sizes, block_rand_base)
           /\ ~ Checking => Tracks(ranges, {}, blocks, block_sizes, mem_brk)
           /\ Checking \/ phase = "util" => \A x \in Live : block_sizes[x] = LastSize(x)
<1>1. TraceOrdered /\ i \in 1 .. Len(ops) + 1 /\ phase # "invalid"
  BY DEF IInv, Typed, Passes
<1>2. Len(ops) \in Nat /\ \A j \in 1 .. Len(ops) : ops[j] \in Op
  BY <1>1, Requests
<1>3. i \in 1 .. Len(ops) /\ ops[i] \in Op
  BY <1>1, <1>2
<1>4. Live \in SUBSET Ids
  BY <1>1, LiveEnds
<1>5. Tracks(ranges, Tracked, blocks, block_sizes, mem_brk)
  BY <1>1 DEF IInv
<1>6. /\ Checking => Tracks(ranges, Live, blocks, block_sizes, mem_brk)
      /\ ~ Checking => Tracks(ranges, {}, blocks, block_sizes, mem_brk)
  BY <1>5 DEF Tracked
<1> QED BY <1>1, <1>3, <1>4, <1>6 DEF IInv, Typed, SizesKnown

\* The blocks after a request of a check that does not fail.
LEMMA CheckedKeeps ==
    ASSUME IInv, Checking, i <= Len(ops), Done,
           mem_brk' \in HeapLo .. HeapLimit, mem_brk' % Alignment = 0, DOMAIN heap' = Addresses,
           blocks' \in [Ids -> Int], block_sizes' \in [Ids -> Nat], DOMAIN block_rand_base' = Ids,
           Tracks(ranges', Live', blocks', block_sizes', mem_brk'),
           Intact(heap', Live', blocks', block_sizes', block_rand_base'),
           \A y \in Live' : block_sizes'[y] = LastSize(y)'
    PROVE  IInv'
<1>1. phase \in Passes /\ phase # "util" /\ Typed
  BY DEF Passes, Checking, IInv
<1>2. Typed'
  BY <1>1, DoneKeeps
<1>3. Checking' /\ phase' # "util"
  BY <1>1 DEF Checking, Done
<1> QED BY <1>2, <1>3 DEF IInv, SizesKnown, TotalIsLive, Tracked

\* An alloc of a check.
LEMMA ValidAllocKeeps ==
    ASSUME IInv, Checking, i <= Len(ops), ops[i].type = "a",
           ValidAlloc(ops[i].index, ops[i].size)
    PROVE  IInv'
<1> DEFINE x    == ops[i].index
           size == ops[i].size
           m    == malloc(mem_brk, size)
           prev == tree_find_nearest(ranges, m.ptr)
           name == <<phase, i>>
<1>1. phase \in Passes /\ phase # "util"
  BY DEF Passes, Checking
<1>2. /\ TraceOrdered /\ i \in 1 .. Len(ops) /\ ops[i] \in Op /\ Live \in SUBSET Ids
      /\ DOMAIN heap = Addresses
      /\ mem_brk \in HeapLo .. HeapLimit /\ mem_brk % Alignment = 0
      /\ blocks \in [Ids -> Int] /\ block_sizes \in [Ids -> Nat]
      /\ DOMAIN block_rand_base = Ids
      /\ Tracks(ranges, Live, blocks, block_sizes, mem_brk)
      /\ Intact(heap, Live, blocks, block_sizes, block_rand_base)
      /\ \A y \in Live : block_sizes[y] = LastSize(y)
  BY <1>1, AtRequest
<1>3. size \in Nat \ {0}
  <2>1. size \in Sizes
    BY <1>2 DEF TraceOrdered
  <2> QED BY <2>1, MallocLabAssumption
<1>4. /\ m.brk \in mem_brk .. HeapLimit /\ m.brk % Alignment = 0 /\ m.ptr # NULL
      /\ m.ptr \in {mem_brk, FAIL}
      /\ m.ptr = mem_brk => mem_brk + size <= m.brk
  <2>1. /\ m.brk \in mem_brk .. HeapLimit /\ m.brk % Alignment = 0
        /\ m.ptr = NULL <=> size = 0
        /\ size # 0 => \/ m.ptr = mem_brk /\ m.brk = mem_brk + align(size)
                          /\ mem_brk + size <= m.brk
                       \/ m.ptr = FAIL /\ m.brk = mem_brk
                          /\ mem_brk + align(size) > HeapLimit
    <3>1. mem_brk \in HeapLo .. HeapLimit /\ mem_brk % Alignment = 0 /\ size \in Nat
      BY <1>2, <1>3
    <3> HIDE DEF size
    <3> QED BY ONLY <3>1, Malloc DEF m
  <2>2. mem_brk # FAIL
    BY <1>2 DEF FAIL
  <2> QED BY <1>3, <2>1, <2>2
<1> HIDE DEF m
<1>5. m.brk \in HeapLo .. HeapLimit
  BY <1>2, <1>4
<1>6. CASE ~ Accepts(ranges, prev, m.ptr, size, m.brk)
  <2>1. Fails("range") /\ heap' = heap /\ mem_brk' = m.brk
    BY <1>4, <1>6 DEF ValidAlloc, m
  <2> QED BY <1>2, <1>4, <1>5, <2>1, FailsKeeps
<1>7. CASE Accepts(ranges, prev, m.ptr, size, m.brk)
  <2>1. /\ mem_brk' = m.brk
        /\ ranges' = add_range(ranges, prev, m.ptr, size, x)
        /\ blocks' = [blocks EXCEPT ![x] = m.ptr]
        /\ block_sizes' = [block_sizes EXCEPT ![x] = size]
        /\ block_rand_base' = [block_rand_base EXCEPT ![x] = name]
        /\ heap' = randomize_block(heap, m.ptr, size, name)
        /\ Done
    BY <1>4, <1>7 DEF ValidAlloc, Remember, m
  <2>2. m.ptr = mem_brk
    BY <1>4, <1>7 DEF Accepts, FAIL
  <2>3. ops' = ops /\ i' = i + 1 /\ phase' = phase
    BY <2>1 DEF Done
  <2>4. /\ x \in Ids \ Live /\ Live' = Live \cup {x}
        /\ \A y : LastSize(y)' = IF y = x THEN size ELSE LastSize(y)
    BY <1>2, <2>3, LiveNext
  <2> HIDE DEF x, size, name
  <2> DEFINE lo  == m.ptr
             top == m.brk
  <2>5. /\ lo \in Nat /\ lo % Alignment = 0 /\ mem_brk <= lo /\ lo + size <= top
        /\ top \in HeapLo .. HeapLimit
    BY <1>2, <1>4, <1>5, <2>2
  <2> HIDE DEF lo, top
  <2>6. BlockPlaced(ranges, Live, blocks, block_sizes, block_rand_base, heap,
                    x, lo, size, top, name)
    BY <1>2, <1>3, <2>4, <2>5, BlockAdded
  <2>7. /\ Tracks(ranges', Live', blocks', block_sizes', mem_brk')
        /\ Intact(heap', Live', blocks', block_sizes', block_rand_base')
        /\ DOMAIN heap' = Addresses
    BY <2>1, <2>4, <2>6 DEF BlockPlaced, lo, top
  <2>8. /\ blocks' \in [Ids -> Int] /\ block_sizes' \in [Ids -> Nat]
        /\ DOMAIN block_rand_base' = Ids
    <3>1. lo \in Int /\ size \in Nat
      BY <1>3, <2>5
    <3> QED BY <1>2, <2>1, <3>1 DEF lo
  <2>9. \A y \in Live' : block_sizes'[y] = LastSize(y)'
    <3>1. x \in Ids /\ Live \subseteq Ids
      BY <1>2, <2>4
    <3> QED BY <1>2, <2>1, <2>4, <3>1
  <2>10. mem_brk' \in HeapLo .. HeapLimit /\ mem_brk' % Alignment = 0
    BY <1>4, <1>5, <2>1
  <2> QED BY <2>1, <2>7, <2>8, <2>9, <2>10, CheckedKeeps
<1> QED BY <1>6, <1>7

\* A realloc of a check.
LEMMA ValidReallocKeeps ==
    ASSUME IInv, Checking, i <= Len(ops), ops[i].type = "r",
           ValidRealloc(ops[i].index, ops[i].size)
    PROVE  IInv'
<1> DEFINE x       == ops[i].index
           size    == ops[i].size
           r       == realloc(mem_brk, heap, blocks[x], size)
           removed == remove_range(ranges, tree_remove(ranges, blocks[x]))
           prev    == tree_find_nearest(removed, r.ptr)
           kept    == IF size < block_sizes[x] THEN size ELSE block_sizes[x]
           name    == <<phase, i>>
           new     == IF size > 0 THEN add_range(removed, prev, r.ptr, size, x) ELSE removed
           filled  == randomize_block(r.heap, r.ptr, size, name)
<1>1. phase \in Passes
  BY DEF Passes, Checking
<1>2. /\ TraceOrdered /\ i \in 1 .. Len(ops) /\ ops[i] \in Op /\ Live \in SUBSET Ids
      /\ DOMAIN heap = Addresses
      /\ mem_brk \in HeapLo .. HeapLimit /\ mem_brk % Alignment = 0
      /\ blocks \in [Ids -> Int] /\ block_sizes \in [Ids -> Nat]
      /\ DOMAIN block_rand_base = Ids
      /\ Tracks(ranges, Live, blocks, block_sizes, mem_brk)
      /\ Intact(heap, Live, blocks, block_sizes, block_rand_base)
      /\ \A y \in Live : block_sizes[y] = LastSize(y)
  BY <1>1, AtRequest
<1>3. x \in Live /\ size \in Nat
  <2>1. x \in Live
    <3>1. x \in SeenBefore(i, {"a"}) \ SeenBefore(i, {"f"})
      BY <1>2 DEF TraceOrdered
    <3> QED BY <3>1 DEF Live, Before, SeenBefore
  <2> QED BY <1>2, <2>1 DEF Op
<1>4. blocks[x] \in Int /\ x \in Ids
  BY <1>2, <1>3
<1> HIDE DEF x, size, name
<1>5. /\ r.brk \in mem_brk .. HeapLimit /\ r.brk % Alignment = 0 /\ r.ptr \in Int
      /\ DOMAIN r.heap = Addresses
  <2>1. Reallocated(mem_brk, heap, blocks[x], size)
    BY <1>2, <1>3, <1>4, Realloc
  <2> QED BY <2>1 DEF Reallocated
<1>6. r.brk \in HeapLo .. HeapLimit
  BY <1>2, <1>5
<1>7. r.ok /\ r.ptr # FAIL =>
        /\ Tracks(new, Live, [blocks EXCEPT ![x] = r.ptr], [block_sizes EXCEPT ![x] = size],
                  r.brk)
        /\ Intact(filled, Live, [blocks EXCEPT ![x] = r.ptr],
                  [block_sizes EXCEPT ![x] = size], [block_rand_base EXCEPT ![x] = name])
        /\ DOMAIN filled = Addresses
  <2>1. BlockTaken(ranges, Live, blocks, block_sizes, block_rand_base, mem_brk, heap,
                   x, size, name)
    BY <1>2, <1>3, BlockMoved
  <2> QED BY <2>1 DEF BlockTaken
<1>8. CASE Done
  <2>1. /\ r.ok /\ (r.ptr = NULL) = (size = 0)
        /\ (size > 0 => Accepts(removed, prev, r.ptr, size, r.brk))
        /\ mem_brk' = r.brk /\ ranges' = new
        /\ blocks' = [blocks EXCEPT ![x] = r.ptr]
        /\ block_sizes' = [block_sizes EXCEPT ![x] = size]
        /\ block_rand_base' = [block_rand_base EXCEPT ![x] = name]
        /\ heap' = filled
    <3>1. \A what : ~ Fails(what)
      <4>1. phase # "invalid"
        BY <1>1 DEF Passes
      <4> QED BY <1>8, <4>1 DEF Done, Fails
    <3> QED BY <3>1 DEF ValidRealloc, Remember, x, size, name
  <2> HIDE DEF new, filled, r, removed, kept
  <2>2. r.ptr # FAIL
    <3>1. FAIL # NULL /\ ~ (HeapLo <= FAIL)
      BY DEF FAIL
    <3>2. CASE size = 0
      BY <2>1, <3>1, <3>2
    <3>3. CASE size # 0
      <4>1. size > 0
        BY <1>3, <3>3
      <4>2. HeapLo <= r.ptr
        BY <2>1, <4>1 DEF Accepts
      <4> QED BY <3>1, <4>2
    <3> QED BY <3>2, <3>3
  <2>3. ops' = ops /\ i' = i + 1
    BY <1>8 DEF Done
  <2>4. Live' = Live /\ \A y : LastSize(y)' = IF y = x THEN size ELSE LastSize(y)
    BY <1>2, <2>3, LiveNext DEF x, size
  <2>5. /\ Tracks(ranges', Live', blocks', block_sizes', mem_brk')
        /\ Intact(heap', Live', blocks', block_sizes', block_rand_base')
        /\ DOMAIN heap' = Addresses
    BY <1>7, <2>1, <2>2, <2>4
  <2>6. /\ blocks' \in [Ids -> Int] /\ block_sizes' \in [Ids -> Nat]
        /\ DOMAIN block_rand_base' = Ids
    BY <1>2, <1>3, <1>5, <2>1
  <2>7. \A y \in Live' : block_sizes'[y] = LastSize(y)'
    BY <1>2, <1>4, <2>1, <2>4
  <2>8. mem_brk' \in HeapLo .. HeapLimit /\ mem_brk' % Alignment = 0
    BY <1>5, <1>6, <2>1
  <2> QED BY <1>8, <2>5, <2>6, <2>7, <2>8, CheckedKeeps
<1>9. CASE ~ Done
  <2>1. PICK what : /\ Fails(what) /\ heap' \in {heap, r.heap} /\ mem_brk' \in {mem_brk, r.brk}
    BY <1>9 DEF ValidRealloc, memory, x, size, name
  <2>2. /\ DOMAIN heap' = Addresses /\ mem_brk' \in HeapLo .. HeapLimit
        /\ mem_brk' % Alignment = 0
    BY <1>2, <1>5, <1>6, <2>1
  <2> QED BY <2>1, <2>2, FailsKeeps
<1> QED BY <1>8, <1>9

\* A free of a check.
LEMMA ValidFreeKeeps ==
    ASSUME IInv, Checking, i <= Len(ops), ops[i].type = "f", ValidFree(ops[i].index)
    PROVE  IInv'
<1> DEFINE x == ops[i].index
<1>1. phase \in Passes
  BY DEF Passes, Checking
<1>2. /\ TraceOrdered /\ i \in 1 .. Len(ops) /\ ops[i] \in Op /\ Live \in SUBSET Ids
      /\ DOMAIN heap = Addresses
      /\ mem_brk \in HeapLo .. HeapLimit /\ mem_brk % Alignment = 0
      /\ blocks \in [Ids -> Int] /\ block_sizes \in [Ids -> Nat]
      /\ DOMAIN block_rand_base = Ids
      /\ Tracks(ranges, Live, blocks, block_sizes, mem_brk)
      /\ Intact(heap, Live, blocks, block_sizes, block_rand_base)
      /\ \A y \in Live : block_sizes[y] = LastSize(y)
  BY <1>1, AtRequest
<1>3. heap' = heap /\ mem_brk' = mem_brk
  BY DEF ValidFree, memory
<1>4. CASE \E what : Fails(what)
  BY <1>2, <1>3, <1>4, FailsKeeps
<1>5. CASE ~ \E what : Fails(what)
  <2>1. /\ ranges' = IF x = NullId THEN ranges
                     ELSE remove_range(ranges, tree_remove(ranges, blocks[x]))
        /\ blocks' = blocks /\ block_sizes' = block_sizes /\ block_rand_base' = block_rand_base
        /\ Done
    BY <1>5 DEF ValidFree, trace
  <2>2. ops' = ops /\ i' = i + 1
    BY <2>1 DEF Done
  <2>3. /\ Live' = Live \ {x} /\ (x # NullId => x \in Live)
        /\ \A y : LastSize(y)' = IF y = x THEN ops[i].size ELSE LastSize(y)
    BY <1>2, <2>2, LiveNext
  <2> HIDE DEF x
  <2>4. Tracks(ranges', Live', blocks, block_sizes, mem_brk)
        /\ Intact(heap, Live', blocks, block_sizes, block_rand_base)
    <3>1. CASE x = NullId
      <4>1. Live' = Live
        BY <1>2, <2>3, <3>1, Requests
      <4> QED BY <1>2, <2>1, <3>1, <4>1
    <3>2. CASE x # NullId
      <4>1. x \in Live
        BY <2>3, <3>2
      <4>2. /\ Tracks(remove_range(ranges, tree_remove(ranges, blocks[x])), Live \ {x},
                      blocks, block_sizes, mem_brk)
            /\ Intact(heap, Live \ {x}, blocks, block_sizes, block_rand_base)
        BY <1>2, <4>1, BlockRemoved
      <4> QED BY <2>1, <2>3, <3>2, <4>2
    <3> QED BY <3>1, <3>2
  <2>5. \A y \in Live' : block_sizes'[y] = LastSize(y)'
    BY <1>2, <2>1, <2>3
  <2>6. /\ Tracks(ranges', Live', blocks', block_sizes', mem_brk')
        /\ Intact(heap', Live', blocks', block_sizes', block_rand_base')
    BY <1>3, <2>1, <2>4
  <2>7. /\ blocks' \in [Ids -> Int] /\ block_sizes' \in [Ids -> Nat]
        /\ DOMAIN block_rand_base' = Ids /\ DOMAIN heap' = Addresses
        /\ mem_brk' \in HeapLo .. HeapLimit /\ mem_brk' % Alignment = 0
    BY <1>2, <1>3, <2>1
  <2> QED BY <2>1, <2>5, <2>6, <2>7, CheckedKeeps
<1> QED BY <1>4, <1>5

\* A request of a check.
LEMMA ValidKeeps ==
    ASSUME IInv, eval_mm_valid
    PROVE  IInv'
<1>1. Checking /\ i <= Len(ops) /\ phase \in Passes
  BY DEF eval_mm_valid, Checking, Passes
<1>2. CASE Fails("garbled") /\ UNCHANGED <<memory, ranges>>
  <2>1. DOMAIN heap' = Addresses /\ mem_brk' \in HeapLo .. HeapLimit /\ mem_brk' % Alignment = 0
    BY <1>1, <1>2, AtRequest DEF memory
  <2> QED BY <1>2, <2>1, FailsKeeps
<1>3. CASE ~ (Fails("garbled") /\ UNCHANGED <<memory, ranges>>)
  <2>1. \/ ops[i].type = "a" /\ ValidAlloc(ops[i].index, ops[i].size)
        \/ ops[i].type = "r" /\ ValidRealloc(ops[i].index, ops[i].size)
        \/ ops[i].type = "f" /\ ValidFree(ops[i].index)
    BY <1>3 DEF eval_mm_valid
  <2> QED BY <1>1, <2>1, ValidAllocKeeps, ValidReallocKeeps, ValidFreeKeeps
<1> QED BY <1>2, <1>3

-----------------------------------------------------------------------------
(* The other passes. *)

\* A range set without records tracks no blocks, whatever they are.
LEMMA TracksNone ==
    ASSUME NEW rs, NEW bl, NEW sz, NEW brk, NEW bl2, NEW sz2, NEW brk2
    PROVE  /\ Tracks(rs, {}, bl, sz, brk) => Tracks(rs, {}, bl2, sz2, brk2)
           /\ Tracks(rs, {}, bl, sz, brk) => DOMAIN rs.tree = {}
BY DEF Tracks

\* The state after a request of a measurement that does not fail.
LEMMA MeasuredKeeps ==
    ASSUME IInv, phase \in {"util", "speed"}, i <= Len(ops), Done,
           mem_brk' \in HeapLo .. HeapLimit, mem_brk' % Alignment = 0, DOMAIN heap' = Addresses,
           blocks' \in [Ids -> Int], block_sizes' \in [Ids -> Nat], DOMAIN block_rand_base' = Ids,
           ranges' = ranges,
           phase = "util" => /\ \A y \in Live' : block_sizes'[y] = LastSize(y)'
                             /\ total_size' = SumFunction([y \in Live' |-> LastSize(y)'])
    PROVE  IInv'
<1>1. phase \in Passes /\ ~ Checking /\ Typed /\ phase # "invalid"
  BY DEF Passes, Checking, IInv
<1>2. Typed'
  BY <1>1, DoneKeeps
<1>3. phase' = phase /\ ~ Checking'
  BY <1>1 DEF Checking, Done
<1>4. Tracks(ranges, {}, blocks, block_sizes, mem_brk)
  BY <1>1 DEF IInv, Tracked
<1>5. Tracks(ranges', Tracked', blocks', block_sizes', mem_brk')
  BY <1>3, <1>4, TracksNone DEF Tracked
<1>6. SizesKnown' /\ TotalIsLive'
  BY <1>3 DEF SizesKnown, TotalIsLive
<1> QED BY <1>2, <1>3, <1>5, <1>6 DEF IInv

\* The sizes of the blocks that are allocated.
LiveSizes == [y \in Live |-> LastSize(y)]

\* g is f with one value more, at x.
Joined(S, x, T, f, g) ==
    /\ IsFiniteSet(S) /\ x \notin S /\ T = S \cup {x}
    /\ f \in [S -> Int] /\ g \in [T -> Int] /\ \A y \in S : g[y] = f[y]

\* A block is added to the total, or taken from it.
LEMMA TotalAdd ==
    ASSUME NEW S, NEW x, NEW T, NEW f, NEW g, Joined(S, x, T, f, g)
    PROVE  SumFunction(f) \in Int /\ SumFunction(g) = g[x] + SumFunction(f)
<1>1. /\ IsFiniteSet(S) /\ x \notin S /\ f \in [S -> Int] /\ g \in [S \cup {x} -> Int]
      /\ \A y \in S : g[y] = f[y]
  BY DEF Joined
<1> QED BY ONLY <1>1, SumAdd

\* What a measurement finds.
LEMMA AtMeasure ==
    ASSUME IInv, phase \in {"util", "speed"}, i <= Len(ops)
    PROVE  /\ phase \in Passes /\ TraceOrdered /\ i \in 1 .. Len(ops) /\ ops[i] \in Op
           /\ Live \in SUBSET Ids /\ IsFiniteSet(Live) /\ DOMAIN heap = Addresses
           /\ mem_brk \in HeapLo .. HeapLimit /\ mem_brk % Alignment = 0
           /\ blocks \in [Ids -> Int] /\ block_sizes \in [Ids -> Nat]
           /\ DOMAIN block_rand_base = Ids
           /\ phase = "util" => /\ \A y \in Live : block_sizes[y] = LastSize(y)
                                /\ LiveSizes \in [Live -> Int]
                                /\ total_size = SumFunction(LiveSizes)
<1>1. phase \in Passes
  BY DEF Passes
<1>2. /\ TraceOrdered /\ i \in 1 .. Len(ops) /\ ops[i] \in Op /\ Live \in SUBSET Ids
      /\ DOMAIN heap = Addresses
      /\ mem_brk \in HeapLo .. HeapLimit /\ mem_brk % Alignment = 0
      /\ blocks \in [Ids -> Int] /\ block_sizes \in [Ids -> Nat]
      /\ DOMAIN block_rand_base = Ids
      /\ phase = "util" => \A y \in Live : block_sizes[y] = LastSize(y)
  BY <1>1, AtRequest
<1>3. IsFiniteSet(Live)
  BY <1>2, FS_Subset, MallocLabAssumption
<1>4. phase = "util" => total_size = SumFunction(LiveSizes)
  BY DEF IInv, TotalIsLive, LiveSizes
<1>5. phase = "util" => LiveSizes \in [Live -> Int]
  <2> SUFFICES ASSUME phase = "util", NEW y \in Live PROVE LastSize(y) \in Int
    BY DEF LiveSizes
  <2>1. block_sizes[y] \in Nat
    BY <1>2
  <2> QED BY <1>2, <2>1
<1> QED BY <1>1, <1>2, <1>3, <1>4, <1>5

\* An alloc of a measurement.
LEMMA MeasureAllocKeeps ==
    ASSUME IInv, phase \in {"util", "speed"}, i <= Len(ops), ops[i].type = "a",
           MeasureAlloc(ops[i].index, ops[i].size)
    PROVE  IInv'
<1> DEFINE x    == ops[i].index
           size == ops[i].size
           m    == malloc(mem_brk, size)
<1>1. /\ TraceOrdered /\ i \in 1 .. Len(ops) /\ ops[i] \in Op
      /\ Live \in SUBSET Ids /\ IsFiniteSet(Live) /\ DOMAIN heap = Addresses
      /\ mem_brk \in HeapLo .. HeapLimit /\ mem_brk % Alignment = 0
      /\ blocks \in [Ids -> Int] /\ block_sizes \in [Ids -> Nat]
      /\ DOMAIN block_rand_base = Ids
      /\ phase = "util" => /\ \A y \in Live : block_sizes[y] = LastSize(y)
                           /\ LiveSizes \in [Live -> Int]
                           /\ total_size = SumFunction(LiveSizes)
  BY AtMeasure
<1>2. size \in Nat
  BY <1>1 DEF Op
<1> HIDE DEF x, size
<1>3. m.brk \in mem_brk .. HeapLimit /\ m.brk % Alignment = 0 /\ m.ptr \in Int
  <2>1. /\ m.brk \in mem_brk .. HeapLimit /\ m.brk % Alignment = 0
        /\ m.ptr = NULL <=> size = 0
        /\ size # 0 => \/ m.ptr = mem_brk /\ m.brk = mem_brk + align(size)
                          /\ mem_brk + size <= m.brk
                       \/ m.ptr = FAIL /\ m.brk = mem_brk
                          /\ mem_brk + align(size) > HeapLimit
    BY <1>1, <1>2, Malloc
  <2> HIDE DEF m
  <2> QED BY <1>1, <2>1 DEF FAIL
<1>4. /\ mem_brk' = m.brk /\ heap' = heap /\ ranges' = ranges
  BY DEF MeasureAlloc, x, size
<1>5. /\ DOMAIN heap' = Addresses /\ mem_brk' \in HeapLo .. HeapLimit
      /\ mem_brk' % Alignment = 0
  BY <1>1, <1>3, <1>4
<1>6. CASE m.ptr = NULL
  BY <1>5, <1>6, FailsKeeps DEF MeasureAlloc, x, size
<1>7. CASE m.ptr # NULL
  <2>1. /\ blocks' = [blocks EXCEPT ![x] = m.ptr] /\ block_rand_base' = block_rand_base
        /\ phase = "util" => /\ block_sizes' = [block_sizes EXCEPT ![x] = size]
                             /\ total_size' = total_size + size
        /\ phase # "util" => block_sizes' = block_sizes
        /\ Done
    BY <1>7 DEF MeasureAlloc, x, size
  <2> HIDE DEF m
  <2>2. ops' = ops /\ i' = i + 1
    BY <2>1 DEF Done
  <2>3. /\ x \in Ids \ Live /\ Live' = Live \cup {x}
        /\ \A y : LastSize(y)' = IF y = x THEN size ELSE LastSize(y)
    BY <1>1, <2>2, LiveNext DEF x, size
  <2>4. /\ blocks' \in [Ids -> Int] /\ block_sizes' \in [Ids -> Nat]
        /\ DOMAIN block_rand_base' = Ids
    BY <1>1, <1>2, <1>3, <2>1
  <2>5. ASSUME phase = "util"
        PROVE  /\ \A y \in Live' : block_sizes'[y] = LastSize(y)'
               /\ total_size' = SumFunction([y \in Live' |-> LastSize(y)'])
    <3>1. \A y \in Live' : block_sizes'[y] = LastSize(y)'
      BY <1>1, <2>1, <2>3, <2>5
    <3> DEFINE new == [y \in Live' |-> LastSize(y)']
               old == LiveSizes
               S   == Live
               T   == Live'
    <3>2. /\ new[x] = size /\ new \in [T -> Int] /\ x \notin S /\ T = S \cup {x}
          /\ old \in [S -> Int] /\ IsFiniteSet(S)
          /\ \A y \in S : new[y] = old[y]
      <4>1. \A y \in Live' : LastSize(y)' \in Int
        <5> TAKE y \in Live'
        <5>1. block_sizes'[y] \in Nat
          BY <1>1, <2>3, <2>4
        <5> QED BY <3>1, <5>1
      <4> QED BY <1>1, <2>3, <2>5, <4>1 DEF LiveSizes
    <3> HIDE DEF new, old, S, T
    <3>3. SumFunction(old) \in Int /\ SumFunction(new) = new[x] + SumFunction(old)
      <4>1. Joined(S, x, T, old, new)
        BY <3>2 DEF Joined
      <4> QED BY ONLY <4>1, TotalAdd
    <3>4. total_size = SumFunction(old)
      BY <1>1, <2>5 DEF old
    <3>5. total_size' = SumFunction(new)
      BY <1>2, <2>1, <2>5, <3>2, <3>3, <3>4
    <3> QED BY <3>1, <3>5 DEF new
  <2> QED BY <1>4, <1>5, <2>1, <2>4, <2>5, MeasuredKeeps
<1> QED BY <1>6, <1>7

\* A realloc of a measurement.
LEMMA MeasureReallocKeeps ==
    ASSUME IInv, phase \in {"util", "speed"}, i <= Len(ops), ops[i].type = "r",
           MeasureRealloc(ops[i].index, ops[i].size)
    PROVE  IInv'
<1> DEFINE x    == ops[i].index
           size == ops[i].size
           r    == realloc(mem_brk, heap, blocks[x], size)
<1>1. /\ TraceOrdered /\ i \in 1 .. Len(ops) /\ ops[i] \in Op
      /\ Live \in SUBSET Ids /\ IsFiniteSet(Live) /\ DOMAIN heap = Addresses
      /\ mem_brk \in HeapLo .. HeapLimit /\ mem_brk % Alignment = 0
      /\ blocks \in [Ids -> Int] /\ block_sizes \in [Ids -> Nat]
      /\ DOMAIN block_rand_base = Ids
      /\ phase = "util" => /\ \A y \in Live : block_sizes[y] = LastSize(y)
                           /\ LiveSizes \in [Live -> Int]
                           /\ total_size = SumFunction(LiveSizes)
  BY AtMeasure
<1>2. x \in Live /\ x \in Ids /\ size \in Nat /\ blocks[x] \in Int
  <2>1. x \in Live
    <3>1. x \in SeenBefore(i, {"a"}) \ SeenBefore(i, {"f"})
      BY <1>1 DEF TraceOrdered
    <3> QED BY <3>1 DEF Live, Before, SeenBefore
  <2> QED BY <1>1, <2>1 DEF Op
<1>3. /\ mem_brk' = r.brk /\ heap' = r.heap /\ ranges' = ranges
  BY DEF MeasureRealloc
<1>4. /\ r.brk \in mem_brk .. HeapLimit /\ r.brk % Alignment = 0 /\ r.ptr \in Int
      /\ DOMAIN r.heap = Addresses
  <2> HIDE DEF x, size
  <2>1. Reallocated(mem_brk, heap, blocks[x], size)
    BY <1>1, <1>2, Realloc
  <2> QED BY <2>1 DEF Reallocated
<1>5. /\ DOMAIN heap' = Addresses /\ mem_brk' \in HeapLo .. HeapLimit
      /\ mem_brk' % Alignment = 0
  BY <1>1, <1>3, <1>4
<1>6. CASE ~ r.ok \/ (r.ptr = NULL /\ size # 0)
  <2>1. PICK what : Fails(what)
    BY <1>6 DEF MeasureRealloc
  <2> QED BY <1>5, <2>1, FailsKeeps
<1>7. CASE r.ok /\ ~ (r.ptr = NULL /\ size # 0)
  <2>1. /\ blocks' = [blocks EXCEPT ![x] = r.ptr] /\ block_rand_base' = block_rand_base
        /\ phase = "util" => /\ block_sizes' = [block_sizes EXCEPT ![x] = size]
                             /\ total_size' = total_size + (size - block_sizes[x])
        /\ phase # "util" => block_sizes' = block_sizes
        /\ Done
    BY <1>7 DEF MeasureRealloc
  <2> HIDE DEF r
  <2>2. ops' = ops /\ i' = i + 1
    BY <2>1 DEF Done
  <2>3. Live' = Live /\ \A y : LastSize(y)' = IF y = x THEN size ELSE LastSize(y)
    BY <1>1, <2>2, LiveNext
  <2> HIDE DEF x, size
  <2>4. /\ blocks' \in [Ids -> Int] /\ block_sizes' \in [Ids -> Nat]
        /\ DOMAIN block_rand_base' = Ids
    BY <1>1, <1>2, <1>4, <2>1
  <2>5. ASSUME phase = "util"
        PROVE  /\ \A y \in Live' : block_sizes'[y] = LastSize(y)'
               /\ total_size' = SumFunction([y \in Live' |-> LastSize(y)'])
    <3>1. \A y \in Live' : block_sizes'[y] = LastSize(y)'
      BY <1>1, <1>2, <2>1, <2>3, <2>5
    <3> DEFINE new  == [y \in Live' |-> LastSize(y)']
               old  == LiveSizes
               Rest == Live \ {x}
               rest == [y \in Rest |-> old[y]]
    <3>2. old \in [Live -> Int] /\ old[x] = block_sizes[x]
      BY <1>1, <1>2, <2>5 DEF LiveSizes
    <3>3. /\ new[x] = size /\ new \in [Live -> Int]
          /\ \A y \in Rest : new[y] = rest[y]
      <4>1. \A y \in Live' : LastSize(y)' \in Int
        <5> TAKE y \in Live'
        <5>1. block_sizes'[y] \in Nat
          BY <1>1, <2>3, <2>4
        <5> QED BY <3>1, <5>1
      <4> QED BY <1>2, <2>3, <4>1 DEF LiveSizes
    <3>4. rest \in [Rest -> Int] /\ \A y \in Rest : old[y] = rest[y]
      BY <3>2
    <3>5. IsFiniteSet(Rest) /\ x \notin Rest /\ Live = Rest \cup {x}
      BY <1>1, <1>2, FS_Subset
    <3> HIDE DEF new, old, rest, Rest
    <3>6. SumFunction(rest) \in Int /\ SumFunction(old) = old[x] + SumFunction(rest)
      <4>1. Joined(Rest, x, Live, rest, old)
        BY <3>2, <3>4, <3>5 DEF Joined
      <4> QED BY ONLY <4>1, TotalAdd
    <3>7. SumFunction(new) = new[x] + SumFunction(rest)
      <4>1. Joined(Rest, x, Live, rest, new)
        BY <3>3, <3>4, <3>5 DEF Joined
      <4> QED BY ONLY <4>1, TotalAdd
    <3>8. total_size = SumFunction(old)
      BY <1>1, <2>5 DEF old
    <3>9. block_sizes[x] \in Nat
      BY <1>1, <1>2
    <3>10. total_size' = SumFunction(new)
      BY <1>2, <2>1, <2>5, <3>2, <3>3, <3>6, <3>7, <3>8, <3>9
    <3> QED BY <3>1, <3>10 DEF new
  <2> QED BY <1>3, <1>5, <2>1, <2>4, <2>5, MeasuredKeeps
<1> QED BY <1>6, <1>7

\* A free of a measurement.
LEMMA MeasureFreeKeeps ==
    ASSUME IInv, phase \in {"util", "speed"}, i <= Len(ops), ops[i].type = "f",
           MeasureFree(ops[i].index)
    PROVE  IInv'
<1> DEFINE x == ops[i].index
<1>1. /\ TraceOrdered /\ i \in 1 .. Len(ops) /\ ops[i] \in Op
      /\ Live \in SUBSET Ids /\ IsFiniteSet(Live) /\ DOMAIN heap = Addresses
      /\ mem_brk \in HeapLo .. HeapLimit /\ mem_brk % Alignment = 0
      /\ blocks \in [Ids -> Int] /\ block_sizes \in [Ids -> Nat]
      /\ DOMAIN block_rand_base = Ids
      /\ phase = "util" => /\ \A y \in Live : block_sizes[y] = LastSize(y)
                           /\ LiveSizes \in [Live -> Int]
                           /\ total_size = SumFunction(LiveSizes)
  BY AtMeasure
<1>2. /\ total_size' = IF phase = "util" /\ x # NullId
                       THEN total_size - block_sizes[x] ELSE total_size
      /\ mem_brk' = mem_brk /\ heap' = heap /\ ranges' = ranges
      /\ blocks' = blocks /\ block_sizes' = block_sizes /\ block_rand_base' = block_rand_base
      /\ Done
  BY DEF MeasureFree, memory, trace
<1>3. ops' = ops /\ i' = i + 1
  BY <1>2 DEF Done
<1>4. /\ Live' = Live \ {x} /\ (x # NullId => x \in Live)
      /\ \A y : LastSize(y)' = IF y = x THEN ops[i].size ELSE LastSize(y)
  BY <1>1, <1>3, LiveNext
<1>5. NullId \notin Live
  BY <1>1, Requests
<1> HIDE DEF x
<1>6. ASSUME phase = "util"
      PROVE  /\ \A y \in Live' : block_sizes'[y] = LastSize(y)'
             /\ total_size' = SumFunction([y \in Live' |-> LastSize(y)'])
  <2>1. \A y \in Live' : block_sizes'[y] = LastSize(y)'
    BY <1>1, <1>2, <1>4, <1>6
  <2> DEFINE new == [y \in Live' |-> LastSize(y)']
             old == LiveSizes
  <2>2. total_size' = SumFunction(new)
    <3>1. CASE x = NullId
      <4>1. Live' = Live /\ \A y \in Live' : LastSize(y)' = LastSize(y)
        BY <1>4, <1>5, <3>1
      <4>2. new = old
        BY <4>1 DEF LiveSizes
      <4> HIDE DEF new
      <4> QED BY <1>1, <1>2, <1>6, <3>1, <4>2
    <3>2. CASE x # NullId
      <4>1. x \in Live /\ old \in [Live -> Int] /\ old[x] = block_sizes[x]
        BY <1>1, <1>4, <1>6, <3>2 DEF LiveSizes
      <4> DEFINE S == Live'
                 T == Live
      <4>2. /\ new \in [S -> Int] /\ \A y \in S : old[y] = new[y]
            /\ old \in [T -> Int]
        BY <1>1, <1>4, <1>6 DEF LiveSizes
      <4>3. IsFiniteSet(S) /\ x \notin S /\ T = S \cup {x}
        BY <1>1, <1>4, <4>1, FS_Subset
      <4>4. block_sizes[x] \in Nat
        BY <1>1, <4>1
      <4> HIDE DEF new, old, S, T
      <4>5. SumFunction(new) \in Int /\ SumFunction(old) = old[x] + SumFunction(new)
        <5>1. Joined(S, x, T, new, old)
          BY <4>2, <4>3 DEF Joined
        <5> QED BY ONLY <5>1, TotalAdd
      <4>6. total_size' = total_size - block_sizes[x] /\ total_size = SumFunction(old)
        BY <1>1, <1>2, <1>6, <3>2 DEF old
      <4> QED BY <4>1, <4>4, <4>5, <4>6
    <3> QED BY <3>1, <3>2
  <2> QED BY <2>1, <2>2
<1>7. /\ mem_brk' \in HeapLo .. HeapLimit /\ mem_brk' % Alignment = 0
      /\ DOMAIN heap' = Addresses /\ blocks' \in [Ids -> Int] /\ block_sizes' \in [Ids -> Nat]
      /\ DOMAIN block_rand_base' = Ids
  BY <1>1, <1>2
<1> QED BY <1>2, <1>6, <1>7, MeasuredKeeps

-----------------------------------------------------------------------------
(* The invariant holds. *)

LEMMA InitInv == Init => IInv
<1> SUFFICES ASSUME Init PROVE IInv
  OBVIOUS
<1>1. /\ ops = <<>> /\ phase = "read" /\ i = 1 /\ mem_brk = HeapLo
      /\ heap = [a \in Addresses |-> <<"zero", 0, 0>>]
      /\ blocks = [x \in Ids |-> NULL] /\ block_sizes = [x \in Ids |-> 0]
      /\ block_rand_base = [x \in Ids |-> <<"zero", 0>>] /\ ranges = new_range_set
  BY DEF Init
<1>2. TraceOrdered
  <2>1. <<>> \in Seq(Op) /\ Len(<<>>) = 0
    BY EmptySeq
  <2> QED BY <1>1, <2>1, MallocLabAssumption DEF TraceOrdered
<1>3. HeapLo \in HeapLo .. HeapLimit /\ HeapLo % Alignment = 0
  <2>1. Alignment \in Int /\ Alignment > 0 /\ Alignment = Alignment * 1
    OBVIOUS
  <2>2. Alignment % Alignment = 0
    BY <2>1, Multiples
  <2> QED BY <2>2
<1>4. "read" \notin Passes /\ ~ Checking /\ phase # "util"
  BY <1>1 DEF Passes, Checking
<1>5. Typed
  BY <1>1, <1>2, <1>3, <1>4 DEF Typed
<1>6. Tracks(ranges, {}, blocks, block_sizes, mem_brk)
  <2>1. DOMAIN ranges.tree = {} /\ ranges.list = NULL /\ ranges.tree = [lo \in {} |-> NULL]
    BY <1>1 DEF new_range_set
  <2>2. ranges.tree \in [{} -> RangeRecord]
    BY <2>1
  <2>3. RecordsTyped(ranges)
    <3>1. ranges = [list |-> ranges.list, tree |-> ranges.tree]
      BY <1>1 DEF new_range_set
    <3>2. ranges.tree \in [DOMAIN ranges.tree -> RangeRecord]
      BY <2>1, <2>2
    <3> QED BY <2>1, <3>1, <3>2 DEF RecordsTyped
  <2>4. Ordered(ranges)
    BY <2>1 DEF Ordered
  <2> QED BY <2>1, <2>3, <2>4 DEF Tracks
<1> QED BY <1>4, <1>5, <1>6 DEF IInv, Tracked, SizesKnown, TotalIsLive

\* Reading a request of the trace.
LEMMA ReadInv ==
    ASSUME IInv, read_trace
    PROVE  IInv'
<1>1. PICK op \in Op :
        /\ Read(op)
        /\ op.type = "a" => op.index \in Ids \ Seen({"a"}) /\ op.size \in Sizes
        /\ op.type = "r" => op.index \in Seen({"a"}) \ Seen({"f"}) /\ op.size \in Sizes \cup {0}
        /\ op.type = "f" => op.index = NullId \/ op.index \in Seen({"a"}) \ Seen({"f"})
  <2>1. Sizes \subseteq Nat /\ 0 \in Nat
    BY MallocLabAssumption
  <2>2. Seen({"a"}) \subseteq Ids
    <3>1. TraceOrdered
      BY DEF IInv, Typed
    <3>2. Len(ops) \in Nat /\ DOMAIN ops = 1 .. Len(ops)
      BY <3>1, Requests
    <3> QED BY <3>1, <3>2 DEF Seen, TraceOrdered
  <2>3. CASE \E x \in Ids \ Seen({"a"}), size \in Sizes :
               Read([type |-> "a", index |-> x, size |-> size])
    BY <2>1, <2>3 DEF Op
  <2>4. CASE \E x \in Seen({"a"}) \ Seen({"f"}), size \in Sizes \cup {0} :
               Read([type |-> "r", index |-> x, size |-> size])
    <3>1. PICK x \in Seen({"a"}) \ Seen({"f"}), size \in Sizes \cup {0} :
                 Read([type |-> "r", index |-> x, size |-> size])
      BY <2>4
    <3> DEFINE op == [type |-> "r", index |-> x, size |-> size]
    <3>2. x \in Ids /\ size \in Nat
      BY <2>1, <2>2
    <3>3. op \in Op /\ op.type = "r" /\ op.index = x /\ op.size = size
      BY <3>2 DEF Op
    <3> HIDE DEF op
    <3>4. op.type # "a" /\ op.type # "f" /\ Read(op)
      BY <3>1, <3>3 DEF op
    <3> QED BY <3>3, <3>4
  <2>5. CASE \E x \in Seen({"a"}) \ Seen({"f"}) :
               Read([type |-> "f", index |-> x, size |-> 0])
    BY <2>1, <2>2, <2>5 DEF Op
  <2>6. CASE Read([type |-> "f", index |-> NullId, size |-> 0])
    BY <2>1, <2>6 DEF Op
  <2> QED BY <2>3, <2>4, <2>5, <2>6 DEF read_trace
<1>2. /\ phase = "read" /\ Len(ops) < MaxOps /\ ops' = Append(ops, op)
      /\ phase' = phase /\ i' = i /\ mem_brk' = mem_brk /\ heap' = heap
      /\ blocks' = blocks /\ block_sizes' = block_sizes /\ block_rand_base' = block_rand_base
      /\ ranges' = ranges
  BY <1>1 DEF Read, memory, trace
<1>3. TraceOrdered'
  <2>1. TraceOrdered
    BY DEF IInv, Typed
  <2> QED BY <1>1, <1>2, <2>1, ReadKeeps
<1>4. "read" \notin Passes /\ ~ Checking /\ ~ Checking' /\ phase' # "util"
  BY <1>2 DEF Passes, Checking
<1>5. Typed'
  BY <1>2, <1>3, <1>4 DEF IInv, Typed, Addresses
<1>6. Tracks(ranges', {}, blocks', block_sizes', mem_brk')
  BY <1>2, <1>4 DEF IInv, Tracked
<1> QED BY <1>4, <1>5, <1>6 DEF IInv, Tracked, SizesKnown, TotalIsLive

\* A pass begins with no block allocated.
LEMMA StartPassKeeps ==
    ASSUME IInv, NEW p \in Passes, StartPass(p), Seen({"a"}) \subseteq Seen({"f"}),
           Tracks(ranges, {}, blocks, block_sizes, mem_brk)
    PROVE  IInv'
<1>1. /\ ops' = ops /\ phase' = p /\ i' = 1 /\ mem_brk' = HeapLo /\ heap' = heap
      /\ blocks' = [x \in Ids |-> NULL] /\ block_sizes' = [x \in Ids |-> 0]
      /\ block_rand_base' = block_rand_base /\ ranges' = ranges /\ total_size' = 0
  BY DEF StartPass
<1>2. TraceOrdered /\ TraceOrdered' /\ \A types : Seen(types)' = Seen(types)
  BY <1>1, SameTrace DEF IInv, Typed
<1>3. Len(ops) \in Nat
  BY <1>2, Requests
<1>4. HeapLo \in HeapLo .. HeapLimit /\ HeapLo % Alignment = 0
  <2>1. Alignment \in Int /\ Alignment > 0 /\ Alignment = Alignment * 1
    OBVIOUS
  <2>2. Alignment % Alignment = 0
    BY <2>1, Multiples
  <2> QED BY <2>2
<1>5. Live' = {}
  BY <1>1 DEF Live, Before
<1>6. i' \in 1 .. Len(ops') + 1
  BY <1>1, <1>3
<1>7. p # "read"
  BY DEF Passes
<1>8. blocks' \in [Ids -> Int] /\ block_sizes' \in [Ids -> Nat]
  BY <1>1
<1>9. Typed'
  BY <1>1, <1>2, <1>4, <1>6, <1>7, <1>8 DEF IInv, Typed, Addresses
<1>10. Tracked' = {}
  BY <1>5 DEF Tracked
<1>11. Tracks(ranges', Tracked', blocks', block_sizes', mem_brk')
  BY <1>1, <1>10, TracksNone
<1>12. Intact(heap', Live', blocks', block_sizes', block_rand_base')
  BY <1>5 DEF Intact
<1>13. SizesKnown'
  BY <1>5 DEF SizesKnown
<1>14. TotalIsLive'
  <2> DEFINE f == [x \in Live' |-> LastSize(x)']
  <2>1. f \in [{} -> Int]
    BY <1>5
  <2>2. SumFunction(f) = 0
    BY <2>1, SumEmpty
  <2> QED BY <1>1, <2>2 DEF TotalIsLive
<1> QED BY <1>9, <1>11, <1>12, <1>13, <1>14 DEF IInv

\* From one pass to the next.
LEMMA RunTestsInv ==
    ASSUME IInv, run_tests
    PROVE  IInv'
<1>1. CASE phase = "read" /\ Seen({"a"}) \subseteq Seen({"f"}) /\ StartPass("valid1")
  <2>1. "valid1" \in Passes /\ phase # "invalid" /\ ~ Checking
    BY <1>1 DEF Passes, Checking
  <2>2. Tracks(ranges, {}, blocks, block_sizes, mem_brk)
    BY <2>1 DEF IInv, Tracked
  <2> QED BY <1>1, <2>1, <2>2, StartPassKeeps
<1>2. CASE phase \in Passes /\ i > Len(ops)
  <2>1. Live = {} /\ Seen({"a"}) \subseteq Seen({"f"}) /\ phase # "invalid"
    <3>1. /\ TraceOrdered /\ i \in 1 .. Len(ops) + 1
          /\ Seen({"a"}) \subseteq Seen({"f"}) /\ phase # "invalid"
      BY <1>2 DEF IInv, Typed, Passes
    <3>2. Len(ops) \in Nat
      BY <3>1, Requests
    <3>3. i = Len(ops) + 1
      BY <1>2, <3>1, <3>2
    <3> QED BY <3>1, <3>3, LiveEnds
  <2>2. Tracks(ranges, {}, blocks, block_sizes, mem_brk)
    BY <2>1 DEF IInv, Tracked
  <2>3. CASE \E p \in Passes : StartPass(p)
    BY <2>1, <2>2, <2>3, StartPassKeeps
  <2>4. CASE /\ phase = "speed" /\ phase' = "done"
             /\ UNCHANGED <<ops, error, i, memory, trace, ranges, total_size>>
    <3>1. /\ ops' = ops /\ phase' = "done" /\ i' = i /\ mem_brk' = mem_brk /\ heap' = heap
          /\ blocks' = blocks /\ block_sizes' = block_sizes
          /\ block_rand_base' = block_rand_base /\ ranges' = ranges
      BY <2>4 DEF memory, trace
    <3>2. TraceOrdered'
      BY <3>1, SameTrace DEF IInv, Typed
    <3>3. "done" \notin Passes /\ ~ Checking' /\ phase' # "util"
      BY <3>1 DEF Passes, Checking
    <3>4. Typed'
      BY <3>1, <3>2, <3>3 DEF IInv, Typed, Addresses
    <3>5. Tracks(ranges', Tracked', blocks', block_sizes', mem_brk')
      BY <2>2, <3>1, <3>3 DEF Tracked
    <3> QED BY <3>3, <3>4, <3>5 DEF IInv, SizesKnown, TotalIsLive
  <2> QED BY <1>2, <2>3, <2>4 DEF run_tests, Passes
<1> QED BY <1>1, <1>2 DEF run_tests

\* A request of a measurement.
LEMMA MeasureInv ==
    ASSUME IInv, eval_mm_util_speed
    PROVE  IInv'
<1>1. /\ phase \in {"util", "speed"} /\ i <= Len(ops)
      /\ \/ ops[i].type = "a" /\ MeasureAlloc(ops[i].index, ops[i].size)
         \/ ops[i].type = "r" /\ MeasureRealloc(ops[i].index, ops[i].size)
         \/ ops[i].type = "f" /\ MeasureFree(ops[i].index)
  BY DEF eval_mm_util_speed
<1> QED BY <1>1, MeasureAllocKeeps, MeasureReallocKeeps, MeasureFreeKeeps

\* Nothing happens.
LEMMA StutterInv ==
    ASSUME IInv, UNCHANGED vars
    PROVE  IInv'
<1>1. /\ ops' = ops /\ phase' = phase /\ i' = i /\ mem_brk' = mem_brk /\ heap' = heap
      /\ blocks' = blocks /\ block_sizes' = block_sizes /\ block_rand_base' = block_rand_base
      /\ ranges' = ranges /\ total_size' = total_size
  BY DEF vars, memory, trace
<1>2. TraceOrdered' /\ \A types : Seen(types)' = Seen(types)
  BY <1>1, SameTrace DEF IInv, Typed
<1>3. Typed'
  BY <1>1, <1>2 DEF IInv, Typed, Addresses
<1>4. /\ Live' = Live /\ Checking' = Checking /\ Tracked' = Tracked
      /\ \A y : LastSize(y)' = LastSize(y)
  BY <1>1 DEF Live, Before, Checking, Tracked, LastSize
<1>5. SizesKnown' /\ TotalIsLive'
  BY <1>1, <1>4 DEF IInv, SizesKnown, TotalIsLive
<1>6. /\ phase' # "invalid" => Tracks(ranges', Tracked', blocks', block_sizes', mem_brk')
      /\ Checking' => Intact(heap', Live', blocks', block_sizes', block_rand_base')
  BY <1>1, <1>4 DEF IInv
<1> QED BY <1>3, <1>5, <1>6 DEF IInv

LEMMA NextInv == IInv /\ [Next]_vars => IInv'
BY ReadInv, RunTestsInv, ValidKeeps, MeasureInv, StutterInv DEF Next

LEMMA Invariance == Spec => []IInv
<1>1. Init => IInv
  BY InitInv
<1>2. IInv /\ [Next]_vars => IInv'
  BY NextInv
<1> QED BY <1>1, <1>2, PTL DEF Spec

\* Between two requests of a check both ends of every allocated block hold what was
\* written there (randomize_block and check_index of mdriver.c, mm_realloc of mm.c).
THEOREM DataStays == Spec => []DataIntact
<1>1. IInv => DataIntact
  BY DEF IInv, DataIntact, Intact, BlockIntact
<1> QED BY <1>1, Invariance, PTL

\* total_size of eval_mm_util is the sum of the sizes of the allocated blocks.
THEOREM TotalsRight == Spec => []TotalIsLive
<1>1. IInv => TotalIsLive
  BY DEF IInv
<1> QED BY <1>1, Invariance, PTL

-----------------------------------------------------------------------------
(* The walk along the list. *)

\* w gives the records that n steps along the list reach, for n up to N.
Walked(rs, N, w) ==
    w = [n \in 0 .. N |-> IF n = 0 THEN {rs.list}
                          ELSE w[n - 1] \cup {NextOf(rs, p) : p \in w[n - 1]}]

\* There is such a function for any number of steps.
LEMMA WalkExists ==
    ASSUME NEW rs
    PROVE  \A N \in Nat : \E w : Walked(rs, N, w)
<1> DEFINE P == {N \in Nat : \E w : Walked(rs, N, w)}
<1>1. 0 \in P
  <2> DEFINE w == [n \in 0 .. 0 |-> {rs.list}]
  <2>1. Walked(rs, 0, w)
    BY DEF Walked
  <2> QED BY <2>1
<1>2. ASSUME NEW N \in Nat \ {0}, N - 1 \in P PROVE N \in P
  <2>1. PICK g : Walked(rs, N - 1, g)
    BY <1>2
  <2> DEFINE next == g[N - 1] \cup {NextOf(rs, p) : p \in g[N - 1]}
             w == [n \in 0 .. N |-> IF n = N THEN next ELSE g[n]]
             h == [n \in 0 .. N |-> IF n = 0 THEN {rs.list}
                                    ELSE w[n - 1] \cup {NextOf(rs, p) : p \in w[n - 1]}]
  <2>2. ASSUME NEW n \in 0 .. N PROVE w[n] = h[n]
    <3>1. CASE n = N
      <4>1. N - 1 \in 0 .. N /\ N - 1 # N /\ N # 0
        OBVIOUS
      <4>2. w[N - 1] = g[N - 1]
        BY <4>1
      <4> QED BY <3>1, <4>1, <4>2
    <3>2. CASE n # N /\ n = 0
      <4>1. 0 \in 0 .. N - 1
        OBVIOUS
      <4>2. g[0] = {rs.list}
        BY <2>1, <4>1 DEF Walked
      <4> QED BY <3>2, <4>2
    <3>3. CASE n # N /\ n # 0
      <4>1. n \in 0 .. N - 1 /\ n - 1 \in 0 .. N /\ n - 1 # N
        BY <3>3
      <4>2. g[n] = g[n - 1] \cup {NextOf(rs, p) : p \in g[n - 1]}
        BY <2>1, <3>3, <4>1 DEF Walked
      <4>3. w[n] = g[n] /\ w[n - 1] = g[n - 1]
        BY <3>3, <4>1
      <4> QED BY <3>3, <4>2, <4>3
    <3> QED BY <3>1, <3>2, <3>3
  <2>3. w = h
    BY <2>2
  <2>4. Walked(rs, N, w)
    BY <2>3 DEF Walked
  <2> QED BY <2>4
<1> HIDE DEF P
<1>3. \A N \in Nat : N \in P
  BY <1>1, <1>2, SetInduction
<1> QED BY <1>3 DEF P

\* The walk along an ordered list comes to every record: each step reaches one more,
\* as long as there is one.
LEMMA WalkComplete ==
    ASSUME NEW rs, RecordsTyped(rs), Ordered(rs), IsFiniteSet(DOMAIN rs.tree)
    PROVE  Walk(rs) = DOMAIN rs.tree
<1> DEFINE D == DOMAIN rs.tree
           N == Cardinality(D)
           w == CHOOSE g : Walked(rs, N, g)
           Nx(V) == {NextOf(rs, p) : p \in V}
<1>1. N \in Nat /\ D \subseteq Nat /\ NULL \notin D
  <2>1. D \subseteq Nat /\ NULL \notin D
    BY DEF RecordsTyped, Address
  <2> QED BY <2>1, FS_CardinalityType
<1>2. Walked(rs, N, w)
  BY <1>1, WalkExists
<1>3. Walk(rs) = w[N] \ {NULL}
  BY DEF Walk, Walked
<1> HIDE DEF w
<1>4. /\ w[0] = {rs.list}
      /\ \A n \in 1 .. N : w[n] = w[n - 1] \cup Nx(w[n - 1])
  <2>1. 0 \in 0 .. N /\ \A n \in 1 .. N : n \in 0 .. N /\ n # 0
    BY <1>1
  <2> QED BY <1>2, <2>1 DEF Walked
<1> DEFINE V(n) == w[n] \ {NULL}
           Down(S) == S \subseteq D /\ \A p \in S : \A k \in D : k <= p => k \in S
           Good(n) == Down(V(n)) /\ (V(n) = D \/ Cardinality(V(n)) >= n + 1)
           P == {n \in Nat : n <= N => Good(n)}
<1>5. /\ NextOf(rs, NULL) = NULL
      /\ \A p \in D : /\ NextOf(rs, p) \in D \cup {NULL}
                      /\ NextOf(rs, p) = NULL => \A k \in D : k <= p
                      /\ NextOf(rs, p) # NULL =>
                           p < NextOf(rs, p) /\ \A k \in D : k <= p \/ NextOf(rs, p) <= k
  BY <1>1 DEF NextOf, Ordered
<1>6. 0 \in P
  <2>1. CASE rs.list = NULL
    BY <1>4, <2>1 DEF Ordered
  <2>2. CASE rs.list # NULL
    <3>1. rs.list \in D /\ \A k \in D : rs.list <= k
      BY <2>2 DEF Ordered
    <3>2. V(0) = {rs.list}
      BY <1>4, <2>2
    <3>3. Cardinality(V(0)) = 1
      BY <3>2, FS_Singleton
    <3>4. Down(V(0))
      BY <1>1, <3>1, <3>2
    <3> QED BY <3>3, <3>4
  <2> QED BY <2>1, <2>2
<1>7. ASSUME NEW n \in Nat \ {0}, n - 1 \in P PROVE n \in P
  <2> SUFFICES ASSUME n <= N PROVE Good(n)
    OBVIOUS
  <2> DEFINE m == n - 1
             A == V(m)
             B == V(n)
  <2>1. Good(m) /\ m \in Nat /\ n = m + 1
    BY <1>1, <1>7
  <2>2. w[n] = w[m] \cup Nx(w[m])
    BY <1>1, <1>4
  <2>3. B = A \cup (Nx(A) \ {NULL})
    <3>1. \A q \in Nx(w[m]) : q # NULL => q \in Nx(A)
      BY <1>5
    <3> QED BY <2>2, <3>1
  <2> HIDE DEF V
  <2>4. A \subseteq D /\ \A p \in A : \A k \in D : k <= p => k \in A
    BY <2>1
  <2> HIDE DEF A, B
  <2>5. Down(B)
    <3>1. ASSUME NEW p \in A PROVE NextOf(rs, p) \in D \cup {NULL}
      BY <1>5, <2>4
    <3>2. B \subseteq D
      BY <2>3, <2>4, <3>1
    <3>3. ASSUME NEW q \in B, NEW k \in D, k <= q PROVE k \in B
      <4>1. CASE q \in A
        BY <2>3, <2>4, <3>3, <4>1
      <4>2. CASE q \notin A
        <5>1. PICK p \in A : q = NextOf(rs, p) /\ q # NULL
          BY <2>3, <4>2
        <5>2. k <= p \/ q <= k
          BY <1>5, <2>4, <5>1
        <5>3. CASE k <= p
          BY <2>3, <2>4, <5>3
        <5>4. CASE q <= k
          <6>1. q \in Nat /\ k \in Nat
            BY <1>1, <3>2
          <6>2. k = q
            BY <3>3, <5>4, <6>1
          <6> QED BY <6>2
        <5> QED BY <5>2, <5>3, <5>4
      <4> QED BY <4>1, <4>2
    <3> QED BY <3>2, <3>3
  <2>6. CASE A = D
    BY <2>3, <2>5, <2>6 DEF B
  <2>7. CASE A # D
    <3>1. Cardinality(A) >= n /\ IsFiniteSet(A) /\ Cardinality(A) \in Nat
      <4>1. IsFiniteSet(A)
        BY <2>4, FS_Subset
      <4>2. Cardinality(A) >= m + 1
        BY <2>1, <2>7 DEF A
      <4> QED BY <2>1, <4>1, <4>2, FS_CardinalityType
    <3>2. PICK d \in D : d \notin A
      BY <2>4, <2>7
    <3>3. A # {}
      BY <3>1, FS_EmptySet
    <3>4. A \subseteq Nat /\ d \in Nat /\ \A p \in A : p <= d
      BY <1>1, <2>4, <3>2
    <3> DEFINE p == Max(A)
               q == NextOf(rs, p)
    <3>5. p \in A /\ \A k \in A : k <= p
      BY <3>3, <3>4, MaxExists
    <3> HIDE DEF p
    <3>6. p \in D /\ p \in Nat /\ ~ (d <= p)
      BY <2>4, <3>2, <3>4, <3>5
    <3>7. q \in D /\ p < q
      BY <1>5, <3>2, <3>6
    <3>8. q \notin A /\ q # NULL /\ q \in Nat
      BY <1>1, <3>4, <3>5, <3>6, <3>7
    <3>9. q \in B
      BY <2>3, <3>5, <3>8
    <3> HIDE DEF q
    <3>10. A \cup {q} \subseteq B
      BY <2>3, <3>9
    <3>11. IsFiniteSet(B)
      BY <2>5, FS_Subset
    <3>12. Cardinality(A \cup {q}) = Cardinality(A) + 1
      BY <3>1, <3>8, FS_AddElement
    <3>13. Cardinality(A \cup {q}) <= Cardinality(B)
      BY <3>10, <3>11, FS_Subset
    <3>14. Cardinality(B) \in Nat
      BY <3>11, FS_CardinalityType
    <3>15. Cardinality(B) >= n + 1
      BY <3>1, <3>12, <3>13, <3>14
    <3> QED BY <2>5, <3>15 DEF B
  <2> QED BY <2>6, <2>7
<1>8. \A n \in Nat : n \in P
  <2> HIDE DEF P
  <2> QED BY <1>6, <1>7, SetInduction
<1>9. Good(N)
  <2>1. N \in Nat
    BY <1>1
  <2> HIDE DEF Good, N
  <2>2. N \in P
    <3> HIDE DEF P
    <3> QED BY <1>8, <2>1
  <2> QED BY <2>1, <2>2
<1>10. V(N) \subseteq D /\ (V(N) = D \/ Cardinality(V(N)) >= N + 1)
  BY <1>9
<1> HIDE DEF V, Good
<1>11. Cardinality(V(N)) \in Nat /\ Cardinality(V(N)) <= N
  <2>1. IsFiniteSet(V(N)) /\ Cardinality(V(N)) <= N
    BY <1>10, FS_Subset
  <2> QED BY <2>1, FS_CardinalityType
<1> QED BY <1>1, <1>3, <1>10, <1>11 DEF V

Filled(L, sz) == {x \in L : sz[x] # 0}

\* The records and the blocks that are not empty are as many.
LEMMA RecordsCounted ==
    ASSUME NEW rs, NEW L \in SUBSET Ids, NEW bl \in [Ids -> Int], NEW sz \in [Ids -> Nat],
           NEW brk, Tracks(rs, L, bl, sz, brk)
    PROVE  /\ IsFiniteSet(DOMAIN rs.tree)
           /\ Cardinality(DOMAIN rs.tree) = Cardinality(Filled(L, sz))
<1> DEFINE D    == DOMAIN rs.tree
           Full == {x \in L : sz[x] # 0}
           f    == [x \in Full |-> bl[x]]
<1>1. \A x \in Full : bl[x] \in D /\ rs.tree[bl[x]].index = x
  BY DEF Tracks
<1>2. \A lo \in D : rs.tree[lo].index \in Full /\ bl[rs.tree[lo].index] = lo
  BY DEF Tracks
<1>3. IsFiniteSet(Full)
  <2>1. Full \in SUBSET Ids
    OBVIOUS
  <2> HIDE DEF Full
  <2> QED BY <2>1, FS_Subset, MallocLabAssumption
<1> HIDE DEF D, Full
<1>4. f \in [Full -> D] /\ \A x, y \in Full : f[x] = f[y] => x = y
  BY <1>1
<1>5. \A lo \in D : \E x \in Full : f[x] = lo
  BY <1>2
<1> HIDE DEF f
<1>6. ExistsBijection(Full, D)
  BY <1>4, <1>5 DEF ExistsBijection, Bijection, Injection, Surjection, IsInjective
<1>7. IsFiniteSet(D) /\ Cardinality(D) = Cardinality(Full)
  BY <1>3, <1>6, FS_Bijection
<1> QED BY <1>7 DEF D, Full, Filled

\* While the driver checks, the range set has exactly the payloads of the blocks that
\* the trace has allocated, and the walk along its list comes to all of them
\* (add_range and remove_range of mdriver.c).
THEOREM RangesFollow == Spec => []RangesMatchBlocks
<1>1. ASSUME IInv, Checking
      PROVE  /\ \A x \in Live : LastSize(x) > 0 =>
                  /\ blocks[x] \in DOMAIN ranges.tree
                  /\ ranges.tree[blocks[x]].index = x
                  /\ ranges.tree[blocks[x]].hi = blocks[x] + LastSize(x) - 1
             /\ Cardinality(DOMAIN ranges.tree) = Cardinality({x \in Live : LastSize(x) > 0})
             /\ Walk(ranges) = DOMAIN ranges.tree
  <2>1. /\ Live \in SUBSET Ids /\ blocks \in [Ids -> Int] /\ block_sizes \in [Ids -> Nat]
        /\ Tracks(ranges, Live, blocks, block_sizes, mem_brk)
        /\ \A x \in Live : block_sizes[x] = LastSize(x)
    <3>1. TraceOrdered /\ i \in 1 .. Len(ops) + 1 /\ phase # "invalid"
      BY <1>1 DEF IInv, Typed, Passes, Checking
    <3>2. Live \in SUBSET Ids
      BY <3>1, LiveEnds
    <3> QED BY <1>1, <3>1, <3>2 DEF IInv, Typed, Tracked, SizesKnown
  <2>2. \A x \in Live : LastSize(x) > 0 <=> block_sizes[x] # 0
    <3> TAKE x \in Live
    <3>1. block_sizes[x] \in Nat
      BY <2>1
    <3> QED BY <2>1, <3>1
  <2>3. {x \in Live : LastSize(x) > 0} = Filled(Live, block_sizes)
    BY <2>2 DEF Filled
  <2>4. /\ IsFiniteSet(DOMAIN ranges.tree)
        /\ Cardinality(DOMAIN ranges.tree) = Cardinality(Filled(Live, block_sizes))
    BY <2>1, RecordsCounted
  <2>5. RecordsTyped(ranges) /\ Ordered(ranges)
    BY <2>1 DEF Tracks
  <2>6. Walk(ranges) = DOMAIN ranges.tree
    BY <2>4, <2>5, WalkComplete
  <2>7. \A x \in Live : LastSize(x) > 0 =>
          /\ blocks[x] \in DOMAIN ranges.tree
          /\ ranges.tree[blocks[x]].index = x
          /\ ranges.tree[blocks[x]].hi = blocks[x] + LastSize(x) - 1
    BY <2>1, <2>2 DEF Tracks
  <2> QED BY <2>3, <2>4, <2>6, <2>7
<1>2. IInv => RangesMatchBlocks
  BY <1>1 DEF RangesMatchBlocks
<1> QED BY <1>2, Invariance, PTL

-----------------------------------------------------------------------------
(* A heap that is large enough. *)

\* The heap holds A bytes for each request but the last, and no size needs more.  As a
\* trace frees what it allocates, its last request takes no bytes.
Enough(A) ==
    /\ A \in Nat
    /\ HeapLo + (MaxOps - 1) * A <= HeapLimit
    /\ \A s \in Sizes : align(s) <= A

HeapSuffices == \E A \in Nat : Enough(A)

\* The blocks without a byte.  The next realloc of one takes space twice.
Empties(L, bl) == {x \in L : bl[x] = NULL}

\* Each request took A bytes at most, on average: those that made a block empty left
\* theirs to the next realloc of it.
Space(A) ==
    /\ phase # "invalid"
    /\ phase \in Passes =>
         /\ mem_brk + A * Cardinality(Empties(Live, blocks)) <= HeapLo + A * (i - 1)
         /\ \A x \in Live : blocks[x] # FAIL

EmptiesChanged(L, bl, L2, bl2, x) ==
    LET c  == Cardinality(Empties(L, bl))
        c2 == Cardinality(Empties(L2, bl2))
    IN  /\ c \in Nat /\ c2 \in Nat
        /\ c2 = c - (IF x \in Empties(L, bl) THEN 1 ELSE 0)
                + (IF x \in Empties(L2, bl2) THEN 1 ELSE 0)
        /\ x \in Empties(L, bl) => c >= 1

\* One block changes.
LEMMA EmptiesChange ==
    ASSUME NEW L \in SUBSET Ids, NEW bl, NEW L2 \in SUBSET Ids, NEW bl2, NEW x,
           L2 \ {x} = L \ {x}, \A y \in L \ {x} : bl2[y] = bl[y]
    PROVE  EmptiesChanged(L, bl, L2, bl2, x)
<1> DEFINE E  == Empties(L, bl)
           E2 == Empties(L2, bl2)
<1>1. E \in SUBSET Ids /\ E2 \in SUBSET Ids
  BY DEF Empties
<1>2. E2 \ {x} = E \ {x}
  BY DEF Empties
<1> HIDE DEF E, E2
<1>3. IsFiniteSet(E) /\ IsFiniteSet(E2)
  BY <1>1, FS_Subset, MallocLabAssumption
<1>4. Cardinality(E) \in Nat /\ Cardinality(E2) \in Nat
  BY <1>3, FS_CardinalityType
<1>5. Cardinality(E \ {x}) = IF x \in E THEN Cardinality(E) - 1 ELSE Cardinality(E)
  BY <1>3, FS_RemoveElement
<1>6. Cardinality(E2 \ {x}) = IF x \in E2 THEN Cardinality(E2) - 1 ELSE Cardinality(E2)
  BY <1>3, FS_RemoveElement
<1>7. Cardinality(E \ {x}) = Cardinality(E2 \ {x})
  BY <1>2
<1>8. x \in E => Cardinality(E) >= 1
  <2>1. x \in E => E # {}
    OBVIOUS
  <2> QED BY <1>3, <1>4, <2>1, FS_EmptySet
<1>9. Cardinality(E2) = Cardinality(E) - (IF x \in E THEN 1 ELSE 0)
                        + (IF x \in E2 THEN 1 ELSE 0)
  BY <1>4, <1>5, <1>6, <1>7
<1> QED BY <1>4, <1>8, <1>9 DEF E, E2, EmptiesChanged

\* Products of the same factor are ordered as the others are.
LEMMA Scale ==
    ASSUME NEW A \in Nat, NEW a \in Int, NEW b \in Int, a <= b
    PROVE  A * a <= A * b /\ A * a \in Int /\ A * b \in Int
<1>1. A >= 0 /\ b - a >= 0 /\ b - a \in Int
  OBVIOUS
<1>2. A * (b - a) >= 0
  BY <1>1
<1>3. A * (b - a) = A * b - A * a
  OBVIOUS
<1> QED BY <1>2, <1>3

\* A request that takes no more than A bytes, counted so.
LEMMA SpaceAfter ==
    ASSUME IInv, NEW A \in Nat, Space(A), phase \in Passes, i <= Len(ops), Done,
           NEW x, Live' \in SUBSET Ids, Live' \ {x} = Live \ {x},
           \A y \in Live \ {x} : blocks'[y] = blocks[y],
           x \in Live' => blocks'[x] # FAIL,
           mem_brk' \in Int,
           mem_brk' + (IF x \in Empties(Live', blocks') THEN A ELSE 0)
             <= mem_brk + (IF x \in Empties(Live, blocks) THEN A ELSE 0) + A
    PROVE  Space(A)'
<1> DEFINE c  == Cardinality(Empties(Live, blocks))
           c2 == Cardinality(Empties(Live', blocks'))
<1>1. i \in 1 .. Len(ops) /\ Live \in SUBSET Ids /\ mem_brk \in Int
  BY AtRequest
<1>2. /\ c \in Nat /\ c2 \in Nat
      /\ c2 = c - (IF x \in Empties(Live, blocks) THEN 1 ELSE 0)
              + (IF x \in Empties(Live', blocks') THEN 1 ELSE 0)
  <2> DEFINE L2  == Live'
             bl2 == blocks'
  <2>1. L2 \in SUBSET Ids /\ L2 \ {x} = Live \ {x} /\ \A y \in Live \ {x} : bl2[y] = blocks[y]
    OBVIOUS
  <2> HIDE DEF L2, bl2
  <2>2. EmptiesChanged(Live, blocks, L2, bl2, x)
    BY <1>1, <2>1, EmptiesChange
  <2> QED BY <2>2 DEF L2, bl2, EmptiesChanged
<1>3. mem_brk + A * c <= HeapLo + A * (i - 1) /\ \A y \in Live : blocks[y] # FAIL
  BY DEF Space
<1>4. ops' = ops /\ phase' = phase /\ i' = i + 1
  BY DEF Done
<1> DEFINE a == x \in Empties(Live, blocks)
           b == x \in Empties(Live', blocks')
<1> HIDE DEF c, c2
<1>5. A * c2 = A * c - (IF a THEN A ELSE 0) + (IF b THEN A ELSE 0)
  <2> HIDE DEF a, b
  <2>1. c2 = c - (IF a THEN 1 ELSE 0) + (IF b THEN 1 ELSE 0)
    BY <1>2 DEF a, b
  <2>2. CASE a /\ b
    BY <1>2, <2>1, <2>2
  <2>3. CASE a /\ ~ b
    <3>1. c2 = c - 1
      BY <1>2, <2>1, <2>3
    <3>2. A * (c - 1) = A * c - A
      BY <1>2
    <3> QED BY <1>2, <2>3, <3>1, <3>2
  <2>4. CASE ~ a /\ b
    <3>1. c2 = c + 1
      BY <1>2, <2>1, <2>4
    <3>2. A * (c + 1) = A * c + A
      BY <1>2
    <3> QED BY <1>2, <2>4, <3>1, <3>2
  <2>5. CASE ~ a /\ ~ b
    BY <1>2, <2>1, <2>5
  <2> QED BY <2>2, <2>3, <2>4, <2>5
<1>6. A * ((i + 1) - 1) = A * (i - 1) + A
  BY <1>1
<1>7. mem_brk' + A * c2 <= HeapLo + A * (i' - 1)
  <2> DEFINE p == A * c
             q == A * c2
             s == A * (i - 1)
             t == A * (i' - 1)
             u == IF a THEN A ELSE 0
             v == IF b THEN A ELSE 0
             k == mem_brk'
             l == HeapLo
  <2>1. p \in Int /\ q \in Int /\ s \in Int /\ t \in Int /\ u \in Int /\ v \in Int
    BY <1>1, <1>2, <1>4
  <2>2. q = p - u + v
    BY <1>5
  <2>3. t = s + A
    BY <1>4, <1>6
  <2>4. mem_brk + p <= l + s
    BY <1>3
  <2>5. k + v <= mem_brk + u + A
    OBVIOUS
  <2>6. mem_brk \in Int /\ k \in Int /\ A \in Int /\ l \in Int
    BY <1>1 DEF HeapLo
  <2> HIDE DEF p, q, s, t, u, v, k, l
  <2>7. k + q = (k + v) + (p - u)
    BY ONLY <2>1, <2>2, <2>6
  <2>8. (k + v) + (p - u) <= (mem_brk + p) + A
    BY ONLY <2>1, <2>5, <2>6
  <2>9. k + q <= l + t
    BY ONLY <2>1, <2>3, <2>4, <2>6, <2>7, <2>8
  <2> QED BY <2>9 DEF q, t, k, l
<1>8. \A y \in Live' : blocks'[y] # FAIL
  BY <1>3
<1>9. phase # "invalid"
  BY DEF Space
<1> QED BY <1>4, <1>7, <1>8, <1>9 DEF Space, c2

\* A block that is allocated or used is freed later.
LEMMA MoreToCome ==
    ASSUME TraceOrdered, Seen({"a"}) \subseteq Seen({"f"}), i \in 1 .. Len(ops),
           ops[i].type \in {"a", "r"}
    PROVE  i <= Len(ops) - 1
<1> DEFINE x == ops[i].index
<1>1. /\ Len(ops) \in Nat /\ DOMAIN ops = 1 .. Len(ops)
      /\ SeenBefore(i, {"f"}) \subseteq SeenBefore(i, {"a"}) \cup {NullId} /\ NullId \notin Ids
      /\ SeenBefore(i, {"a"}) \subseteq Ids
  BY Requests
<1>2. /\ ops[i].type = "a" => x \in Ids \ SeenBefore(i, {"a"})
      /\ ops[i].type = "r" => x \in SeenBefore(i, {"a"}) \ SeenBefore(i, {"f"})
  BY DEF TraceOrdered
<1>3. x \notin SeenBefore(i, {"f"})
  BY <1>1, <1>2
<1>4. x \in Seen({"a"})
  <2>1. CASE ops[i].type = "a"
    BY <1>1, <2>1 DEF Seen
  <2>2. CASE ops[i].type = "r"
    BY <1>1, <1>2, <2>2 DEF Seen, SeenBefore
  <2> QED BY <2>1, <2>2
<1>5. PICK j \in 1 .. Len(ops) : ops[j].type = "f" /\ ops[j].index = x
  BY <1>1, <1>4 DEF Seen
<1>6. j # i /\ ~ (j < i)
  <2>1. ~ (j < i)
    BY <1>3, <1>5 DEF SeenBefore
  <2> QED BY <1>5, <2>1
<1> QED BY <1>1, <1>5, <1>6

\* There is room for what an alloc or a realloc takes.
LEMMA RoomLeft ==
    ASSUME IInv, NEW A, Enough(A), Space(A), phase \in Passes, i <= Len(ops),
           ops[i].type \in {"a", "r"}
    PROVE  LET need == align(ops[i].size)
           IN  /\ ops[i].size # 0 => need \in Nat /\ need <= A /\ mem_brk + need <= HeapLimit
               /\ ops[i].size # 0 /\ ops[i].index \in Empties(Live, blocks) =>
                    mem_brk + need + need <= HeapLimit
<1> DEFINE size == ops[i].size
           need == align(size)
           x    == ops[i].index
           c    == Cardinality(Empties(Live, blocks))
           m    == MaxOps - 1
<1>1. /\ TraceOrdered /\ i \in 1 .. Len(ops) /\ Live \in SUBSET Ids /\ mem_brk \in Int
      /\ ops[i] \in Op
  BY AtRequest
<1>2. i <= Len(ops) - 1
  BY <1>1, MoreToCome DEF IInv, Typed
<1>3. Len(ops) \in Nat /\ Len(ops) <= MaxOps /\ MaxOps \in Nat
  BY <1>1, Requests, MallocLabAssumption DEF TraceOrdered
<1>4. A \in Nat /\ HeapLo + m * A <= HeapLimit /\ \A s \in Sizes : align(s) <= A
  BY DEF Enough
<1>5. mem_brk + A * c <= HeapLo + A * (i - 1)
  BY DEF Space
<1>6. c \in Nat /\ (x \in Empties(Live, blocks) => c >= 1)
  <2> HIDE DEF x
  <2>1. EmptiesChanged(Live, blocks, Live, blocks, x)
    BY <1>1, EmptiesChange
  <2> QED BY <2>1 DEF EmptiesChanged
<1>7. A * i <= A * m /\ A * m = m * A /\ A * i = A * (i - 1) + A
  <2>1. i \in Int /\ m \in Int /\ i <= m
    BY <1>1, <1>2, <1>3
  <2> HIDE DEF m
  <2>2. A * i <= A * m
    BY <1>4, <2>1, Scale
  <2> QED BY <1>4, <2>1, <2>2
<1>8. size # 0 => need \in Nat /\ need <= A
  <2>1. size \in Sizes \cup {0} /\ size \in Nat
    BY <1>1 DEF TraceOrdered, Op
  <2> HIDE DEF size
  <2> QED BY <1>4, <2>1, Aligned
<1>9. A * c >= 0 /\ (x \in Empties(Live, blocks) => A * c >= A)
  <2> HIDE DEF c, x
  <2>1. A * 0 <= A * c
    BY <1>4, <1>6, Scale
  <2>2. x \in Empties(Live, blocks) => A * 1 <= A * c
    BY <1>4, <1>6, Scale
  <2> QED BY <1>4, <1>6, <2>1, <2>2
<1> DEFINE p == A * c
           q == A * i
           r == A * (i - 1)
           s == A * m
<1>10. p \in Int /\ q \in Int /\ r \in Int /\ s \in Int
  BY <1>1, <1>3, <1>4, <1>6
<1>11. /\ HeapLo + s <= HeapLimit /\ mem_brk + p <= HeapLo + r /\ q <= s /\ q = r + A
       /\ p >= 0 /\ (x \in Empties(Live, blocks) => p >= A)
  BY <1>4, <1>5, <1>7, <1>9
<1> HIDE DEF p, q, r, s, need
<1>12. mem_brk + A <= HeapLimit /\ (x \in Empties(Live, blocks) => mem_brk + A + A <= HeapLimit)
  BY <1>1, <1>4, <1>10, <1>11
<1>13. /\ size # 0 => mem_brk + need <= HeapLimit
       /\ size # 0 /\ x \in Empties(Live, blocks) => mem_brk + need + need <= HeapLimit
  BY <1>1, <1>4, <1>8, <1>12
<1> QED BY <1>8, <1>13 DEF need


\* An alloc gets the next bytes of the heap.
LEMMA AllocFits ==
    ASSUME IInv, NEW A, Enough(A), Space(A), phase \in Passes, i <= Len(ops),
           ops[i].type = "a"
    PROVE  LET size == ops[i].size
               m    == malloc(mem_brk, size)
           IN  /\ ops[i].index \in Ids \ Live /\ size \in Nat \ {0}
               /\ m.ptr = mem_brk /\ m.brk \in mem_brk .. HeapLimit /\ m.brk % Alignment = 0
               /\ mem_brk + size <= m.brk /\ m.brk <= mem_brk + A
<1> DEFINE x    == ops[i].index
           size == ops[i].size
           m    == malloc(mem_brk, size)
           need == align(size)
<1>1. /\ TraceOrdered /\ i \in 1 .. Len(ops) /\ ops[i] \in Op
      /\ mem_brk \in HeapLo .. HeapLimit /\ mem_brk % Alignment = 0
  BY AtRequest
<1>2. size \in Nat \ {0}
  <2>1. size \in Sizes
    BY <1>1 DEF TraceOrdered
  <2> QED BY <2>1, MallocLabAssumption
<1>3. x \in Ids \ Live
  <2>1. x \in Ids \ SeenBefore(i, {"a"})
    BY <1>1 DEF TraceOrdered
  <2> QED BY <2>1 DEF Live, Before, SeenBefore
<1>4. need \in Nat /\ need <= A /\ mem_brk + need <= HeapLimit
  BY <1>2, RoomLeft
<1> HIDE DEF x, size
<1>5. /\ m.brk \in mem_brk .. HeapLimit /\ m.brk % Alignment = 0
      /\ size # 0 => \/ m.ptr = mem_brk /\ m.brk = mem_brk + need /\ mem_brk + size <= m.brk
                     \/ m.ptr = FAIL /\ m.brk = mem_brk /\ mem_brk + need > HeapLimit
  BY <1>1, <1>2, Malloc
<1> HIDE DEF m, need
<1>6. A \in Nat
  BY DEF Enough
<1>7. m.ptr = mem_brk /\ m.brk = mem_brk + need /\ mem_brk + size <= m.brk
  BY <1>1, <1>2, <1>4, <1>5
<1>8. m.brk <= mem_brk + A
  BY <1>1, <1>4, <1>6, <1>7
<1> QED BY <1>2, <1>3, <1>5, <1>7, <1>8 DEF x, size, m

\* After it there is space for the others.
LEMMA AllocSpace ==
    ASSUME IInv, NEW A, Enough(A), Space(A), phase \in Passes, i <= Len(ops),
           ops[i].type = "a", Done,
           mem_brk' = malloc(mem_brk, ops[i].size).brk,
           blocks' = [blocks EXCEPT ![ops[i].index] = malloc(mem_brk, ops[i].size).ptr]
    PROVE  Space(A)'
<1> DEFINE x    == ops[i].index
           size == ops[i].size
           m    == malloc(mem_brk, size)
<1>1. /\ TraceOrdered /\ i \in 1 .. Len(ops) /\ Live \in SUBSET Ids
      /\ mem_brk \in HeapLo .. HeapLimit /\ blocks \in [Ids -> Int]
  BY AtRequest
<1>2. /\ x \in Ids \ Live /\ m.ptr = mem_brk /\ m.brk \in mem_brk .. HeapLimit
      /\ m.brk <= mem_brk + A
  BY AllocFits
<1>3. ops' = ops /\ i' = i + 1
  BY DEF Done
<1>4. Live' = Live \cup {x}
  BY <1>1, <1>3, LiveNext
<1> HIDE DEF x, size, m
<1>5. mem_brk' = m.brk /\ blocks' = [blocks EXCEPT ![x] = m.ptr]
  BY DEF x, size, m
<1>6. A \in Nat
  BY DEF Enough
<1>7. mem_brk # NULL /\ mem_brk # FAIL
  BY <1>1 DEF FAIL
<1>8. /\ Live' \in SUBSET Ids /\ Live' \ {x} = Live \ {x}
      /\ \A y \in Live \ {x} : blocks'[y] = blocks[y]
      /\ blocks'[x] = mem_brk
  BY <1>1, <1>2, <1>4, <1>5
<1>9. x \notin Empties(Live, blocks) /\ x \notin Empties(Live', blocks')
  BY <1>2, <1>7, <1>8 DEF Empties
<1>10. mem_brk' \in Int /\ mem_brk \in Int /\ mem_brk' <= mem_brk + A
  BY <1>1, <1>2, <1>5
<1>11. mem_brk' + (IF x \in Empties(Live', blocks') THEN A ELSE 0)
         <= mem_brk + (IF x \in Empties(Live, blocks) THEN A ELSE 0) + A
  BY <1>6, <1>9, <1>10
<1>12. x \in Live' => blocks'[x] # FAIL
  BY <1>7, <1>8
<1> QED BY <1>6, <1>8, <1>10, <1>11, <1>12, SpaceAfter

\* A realloc gets what it asks for.
LEMMA ReallocFits ==
    ASSUME IInv, NEW A, Enough(A), Space(A), phase \in Passes, i <= Len(ops),
           ops[i].type = "r"
    PROVE  LET x    == ops[i].index
               size == ops[i].size
               r    == realloc(mem_brk, heap, blocks[x], size)
               room == (IF blocks[x] = NULL THEN A ELSE 0) + A
           IN  /\ x \in Live /\ size \in Nat
               /\ r.ok /\ r.ptr # FAIL /\ (r.ptr = NULL <=> size = 0)
               /\ r.brk \in mem_brk .. HeapLimit
               /\ size = 0 => r.brk = mem_brk
               /\ r.brk <= mem_brk + room
<1> DEFINE x    == ops[i].index
           size == ops[i].size
           r    == realloc(mem_brk, heap, blocks[x], size)
           room == (IF blocks[x] = NULL THEN A ELSE 0) + A
           need == align(size)
           used == IF blocks[x] = NULL THEN need + need ELSE need
<1>1. /\ TraceOrdered /\ i \in 1 .. Len(ops) /\ ops[i] \in Op /\ Live \in SUBSET Ids
      /\ mem_brk \in HeapLo .. HeapLimit /\ mem_brk % Alignment = 0
      /\ DOMAIN heap = Addresses /\ blocks \in [Ids -> Int]
  BY AtRequest
<1>2. x \in Live /\ size \in Nat
  <2>1. x \in Live
    <3>1. x \in SeenBefore(i, {"a"}) \ SeenBefore(i, {"f"})
      BY <1>1 DEF TraceOrdered
    <3> QED BY <3>1 DEF Live, Before, SeenBefore
  <2> QED BY <1>1, <2>1 DEF Op
<1>3. blocks[x] \in Int /\ blocks[x] # FAIL
  BY <1>1, <1>2 DEF Space
<1>4. /\ size # 0 => need \in Nat /\ need <= A /\ mem_brk + need <= HeapLimit
      /\ size # 0 /\ blocks[x] = NULL => mem_brk + need + need <= HeapLimit
  BY <1>2, RoomLeft DEF Empties
<1> HIDE DEF x, size
<1>5. Reallocated(mem_brk, heap, blocks[x], size)
  BY <1>1, <1>2, <1>3, Realloc
<1>6. /\ r.brk \in mem_brk .. HeapLimit /\ r.ok \in BOOLEAN
      /\ r.brk <= mem_brk + used
      /\ size = 0 => r.ptr = NULL /\ r.brk = mem_brk /\ r.ok
      /\ size # 0 /\ r.ptr = FAIL => mem_brk + used > HeapLimit
      /\ size # 0 /\ r.ptr # FAIL => r.ptr # NULL
  BY <1>5 DEF Reallocated
<1>7. /\ size # 0 /\ blocks[x] = NULL => r.ok
      /\ size # 0 /\ blocks[x] # NULL => (r.ok <=> r.ptr # FAIL /\ blocks[x] # FAIL)
  BY <1>5 DEF Reallocated
<1> HIDE DEF r, need
<1>8. A \in Nat /\ NULL # FAIL
  BY DEF Enough, FAIL
<1>9. size # 0 => mem_brk + used <= HeapLimit /\ used <= room
  BY <1>1, <1>4, <1>8
<1> HIDE DEF used
<1>10. size # 0 => used \in Int /\ room \in Int
  BY <1>4, <1>8 DEF used
<1>11. r.ptr # FAIL
  BY <1>1, <1>6, <1>8, <1>9, <1>10
<1>12. r.ok
  BY <1>3, <1>6, <1>7, <1>11
<1>13. r.ptr = NULL <=> size = 0
  BY <1>6, <1>11
<1>14. r.brk <= mem_brk + room
  BY <1>1, <1>6, <1>8, <1>9, <1>10
<1>15. r.brk \in mem_brk .. HeapLimit /\ (size = 0 => r.brk = mem_brk)
  BY <1>6
<1> QED BY <1>2, <1>11, <1>12, <1>13, <1>14, <1>15 DEF x, size, r, room

\* After it there is space for the others.
LEMMA ReallocSpace ==
    ASSUME IInv, NEW A, Enough(A), Space(A), phase \in Passes, i <= Len(ops),
           ops[i].type = "r", Done,
           mem_brk' = realloc(mem_brk, heap, blocks[ops[i].index], ops[i].size).brk,
           blocks' = [blocks EXCEPT ![ops[i].index] =
                        realloc(mem_brk, heap, blocks[ops[i].index], ops[i].size).ptr]
    PROVE  Space(A)'
<1> DEFINE x    == ops[i].index
           size == ops[i].size
           r    == realloc(mem_brk, heap, blocks[x], size)
           old  == x \in Empties(Live, blocks)
           new  == x \in Empties(Live', blocks')
<1>1. /\ TraceOrdered /\ i \in 1 .. Len(ops) /\ Live \in SUBSET Ids
      /\ mem_brk \in HeapLo .. HeapLimit /\ blocks \in [Ids -> Int]
  BY AtRequest
<1>2. /\ x \in Live /\ r.ptr # FAIL /\ (r.ptr = NULL <=> size = 0)
      /\ r.brk \in mem_brk .. HeapLimit
      /\ size = 0 => r.brk = mem_brk
      /\ r.brk <= mem_brk + ((IF blocks[x] = NULL THEN A ELSE 0) + A)
  BY ReallocFits
<1>3. ops' = ops /\ i' = i + 1
  BY DEF Done
<1>4. Live' = Live
  BY <1>1, <1>3, LiveNext
<1> HIDE DEF x, size, r
<1>5. mem_brk' = r.brk /\ blocks' = [blocks EXCEPT ![x] = r.ptr]
  BY DEF x, size, r
<1>6. A \in Nat
  BY DEF Enough
<1>7. /\ \A y \in Live \ {x} : blocks'[y] = blocks[y]
      /\ blocks'[x] = r.ptr
  BY <1>1, <1>2, <1>5
<1>8. (old <=> blocks[x] = NULL) /\ (new <=> size = 0)
  BY <1>2, <1>4, <1>7 DEF Empties
<1>9. mem_brk' \in Int /\ mem_brk \in Int
  BY <1>1, <1>2, <1>5
<1>10. mem_brk' + (IF new THEN A ELSE 0) <= mem_brk + (IF old THEN A ELSE 0) + A
  <2> HIDE DEF old, new
  <2>1. CASE new
    <3>1. mem_brk' = mem_brk
      BY <1>2, <1>5, <1>8, <2>1
    <3> QED BY <1>6, <1>9, <2>1, <3>1
  <2>2. CASE ~ new
    <3>1. mem_brk' <= mem_brk + ((IF old THEN A ELSE 0) + A)
      BY <1>2, <1>5, <1>8
    <3> QED BY <1>6, <1>9, <2>2, <3>1
  <2> QED BY <2>1, <2>2
<1>11. blocks'[x] # FAIL
  BY <1>2, <1>7
<1> QED BY <1>1, <1>4, <1>6, <1>7, <1>9, <1>10, <1>11, SpaceAfter

\* A free takes no space.
LEMMA FreeSpace ==
    ASSUME IInv, NEW A, Enough(A), Space(A), phase \in Passes, i <= Len(ops),
           ops[i].type = "f", Done, mem_brk' = mem_brk, blocks' = blocks
    PROVE  Space(A)'
<1> DEFINE x == ops[i].index
<1>1. /\ TraceOrdered /\ i \in 1 .. Len(ops) /\ Live \in SUBSET Ids
      /\ mem_brk \in HeapLo .. HeapLimit
  BY AtRequest
<1>2. ops' = ops /\ i' = i + 1
  BY DEF Done
<1>3. Live' = Live \ {x}
  BY <1>1, <1>2, LiveNext
<1> HIDE DEF x
<1>4. A \in Nat
  BY DEF Enough
<1>5. x \notin Live' /\ x \notin Empties(Live', blocks')
  BY <1>3 DEF Empties
<1>6. Live' \in SUBSET Ids /\ Live' \ {x} = Live \ {x}
  BY <1>1, <1>3
<1>7. mem_brk \in Int
  BY <1>1
<1>8. mem_brk' + (IF x \in Empties(Live', blocks') THEN A ELSE 0)
        <= mem_brk + (IF x \in Empties(Live, blocks) THEN A ELSE 0) + A
  BY <1>4, <1>5, <1>7
<1> QED BY <1>4, <1>5, <1>6, <1>7, <1>8, SpaceAfter


\* The requests of a trace that has space do not fail.  First those of the checks.
LEMMA ValidAllocSpace ==
    ASSUME IInv, NEW A, Enough(A), Space(A), Checking, i <= Len(ops), ops[i].type = "a",
           ValidAlloc(ops[i].index, ops[i].size)
    PROVE  Space(A)'
<1> DEFINE x    == ops[i].index
           size == ops[i].size
           m    == malloc(mem_brk, size)
           prev == tree_find_nearest(ranges, m.ptr)
           name == <<phase, i>>
<1>1. phase \in Passes
  BY DEF Passes, Checking
<1>2. /\ DOMAIN heap = Addresses /\ Live \in SUBSET Ids
      /\ mem_brk \in HeapLo .. HeapLimit /\ mem_brk % Alignment = 0
      /\ blocks \in [Ids -> Int] /\ block_sizes \in [Ids -> Nat]
      /\ DOMAIN block_rand_base = Ids
      /\ Tracks(ranges, Live, blocks, block_sizes, mem_brk)
      /\ Intact(heap, Live, blocks, block_sizes, block_rand_base)
  BY <1>1, AtRequest
<1>3. /\ x \in Ids \ Live /\ size \in Nat \ {0} /\ m.ptr = mem_brk
      /\ m.brk \in mem_brk .. HeapLimit /\ mem_brk + size <= m.brk
  BY <1>1, AllocFits
<1>4. m.ptr # NULL
  BY <1>2, <1>3
<1>5. Accepts(ranges, prev, m.ptr, size, m.brk)
  <2> HIDE DEF x, size, name, m
  <2> DEFINE lo  == m.ptr
             top == m.brk
  <2>1. /\ lo \in Nat /\ lo % Alignment = 0 /\ mem_brk <= lo /\ lo + size <= top
        /\ top \in HeapLo .. HeapLimit
    BY <1>2, <1>3
  <2> HIDE DEF lo, top
  <2>2. BlockPlaced(ranges, Live, blocks, block_sizes, block_rand_base, heap,
                    x, lo, size, top, name)
    BY <1>2, <1>3, <2>1, BlockAdded
  <2> QED BY <2>2 DEF BlockPlaced, lo, top
<1>6. /\ mem_brk' = m.brk /\ blocks' = [blocks EXCEPT ![x] = m.ptr] /\ Done
  BY <1>4, <1>5 DEF ValidAlloc, Remember
<1> QED BY <1>1, <1>6, AllocSpace

LEMMA ValidReallocSpace ==
    ASSUME IInv, NEW A, Enough(A), Space(A), Checking, i <= Len(ops), ops[i].type = "r",
           ValidRealloc(ops[i].index, ops[i].size)
    PROVE  Space(A)'
<1> DEFINE x       == ops[i].index
           size    == ops[i].size
           r       == realloc(mem_brk, heap, blocks[x], size)
           removed == remove_range(ranges, tree_remove(ranges, blocks[x]))
           prev    == tree_find_nearest(removed, r.ptr)
           kept    == IF size < block_sizes[x] THEN size ELSE block_sizes[x]
           name    == <<phase, i>>
<1>1. phase \in Passes
  BY DEF Passes, Checking
<1>2. /\ DOMAIN heap = Addresses /\ Live \in SUBSET Ids
      /\ mem_brk \in HeapLo .. HeapLimit /\ mem_brk % Alignment = 0
      /\ blocks \in [Ids -> Int] /\ block_sizes \in [Ids -> Nat]
      /\ DOMAIN block_rand_base = Ids
      /\ Tracks(ranges, Live, blocks, block_sizes, mem_brk)
      /\ Intact(heap, Live, blocks, block_sizes, block_rand_base)
  BY <1>1, AtRequest
<1>3. /\ x \in Live /\ size \in Nat /\ r.ok /\ r.ptr # FAIL /\ (r.ptr = NULL <=> size = 0)
  BY <1>1, ReallocFits
<1>4. BlockIntact(x)
  BY <1>2, <1>3 DEF Intact, BlockIntact
<1>5. /\ size > 0 => Accepts(removed, prev, r.ptr, size, r.brk)
      /\ check_index(r.heap, r.ptr, kept, block_rand_base[x], TRUE)
  <2> HIDE DEF x, size, name
  <2>1. BlockTaken(ranges, Live, blocks, block_sizes, block_rand_base, mem_brk, heap,
                   x, size, name)
    BY <1>2, <1>3, BlockMoved
  <2> QED BY <1>3, <2>1 DEF BlockTaken
<1>6. /\ mem_brk' = r.brk /\ blocks' = [blocks EXCEPT ![x] = r.ptr] /\ Done
  BY <1>3, <1>4, <1>5 DEF ValidRealloc, Remember
<1> QED BY <1>1, <1>6, ReallocSpace

LEMMA ValidFreeSpace ==
    ASSUME IInv, NEW A, Enough(A), Space(A), Checking, i <= Len(ops), ops[i].type = "f",
           ValidFree(ops[i].index)
    PROVE  Space(A)'
<1> DEFINE x == ops[i].index
<1>1. phase \in Passes
  BY DEF Passes, Checking
<1>2. /\ TraceOrdered /\ i \in 1 .. Len(ops)
      /\ Intact(heap, Live, blocks, block_sizes, block_rand_base)
  BY <1>1, AtRequest
<1>3. x # NullId => x \in Live
  <2>1. x # NullId => x \in SeenBefore(i, {"a"}) \ SeenBefore(i, {"f"})
    BY <1>2 DEF TraceOrdered
  <2> QED BY <2>1 DEF Live, Before, SeenBefore
<1>4. x # NullId => BlockIntact(x)
  BY <1>2, <1>3 DEF Intact, BlockIntact
<1>5. Done /\ mem_brk' = mem_brk /\ blocks' = blocks
  BY <1>4 DEF ValidFree, memory, trace
<1> QED BY <1>1, <1>5, FreeSpace

\* What the check of all blocks looks at.
LEMMA ListIsIntact ==
    ASSUME IInv, Checking, i <= Len(ops)
    PROVE  ListIntact
<1>1. phase \in Passes
  BY DEF Passes, Checking
<1>2. /\ Live \in SUBSET Ids /\ blocks \in [Ids -> Int] /\ block_sizes \in [Ids -> Nat]
      /\ Tracks(ranges, Live, blocks, block_sizes, mem_brk)
      /\ Intact(heap, Live, blocks, block_sizes, block_rand_base)
  BY <1>1, AtRequest
<1>3. IsFiniteSet(DOMAIN ranges.tree)
  BY <1>2, RecordsCounted
<1>4. Walk(ranges) = DOMAIN ranges.tree
  BY <1>2, <1>3, WalkComplete DEF Tracks
<1>5. \A lo \in DOMAIN ranges.tree : ranges.tree[lo].index \in Live
  BY <1>2 DEF Tracks
<1> QED BY <1>2, <1>4, <1>5 DEF ListIntact, BlockIntact, Intact

LEMMA ValidSpace ==
    ASSUME IInv, NEW A, Enough(A), Space(A), eval_mm_valid
    PROVE  Space(A)'
<1>1. Checking /\ i <= Len(ops)
  BY DEF eval_mm_valid, Checking
<1>2. ListIntact
  BY <1>1, ListIsIntact
<1>3. \/ ops[i].type = "a" /\ ValidAlloc(ops[i].index, ops[i].size)
      \/ ops[i].type = "r" /\ ValidRealloc(ops[i].index, ops[i].size)
      \/ ops[i].type = "f" /\ ValidFree(ops[i].index)
  BY <1>2 DEF eval_mm_valid
<1> QED BY <1>1, <1>3, ValidAllocSpace, ValidReallocSpace, ValidFreeSpace

\* Then those of the measurements.
LEMMA MeasureSpace ==
    ASSUME IInv, NEW A, Enough(A), Space(A), eval_mm_util_speed
    PROVE  Space(A)'
<1> DEFINE x    == ops[i].index
           size == ops[i].size
           m    == malloc(mem_brk, size)
           r    == realloc(mem_brk, heap, blocks[x], size)
<1>1. phase \in Passes /\ i <= Len(ops)
  BY DEF eval_mm_util_speed, Passes
<1>2. CASE ops[i].type = "a" /\ MeasureAlloc(x, size)
  <2>1. m.ptr = mem_brk
    BY <1>1, <1>2, AllocFits
  <2>2. mem_brk # NULL
    <3>1. mem_brk \in HeapLo .. HeapLimit
      BY <1>1, AtRequest
    <3> QED BY <3>1
  <2>3. mem_brk' = m.brk /\ blocks' = [blocks EXCEPT ![x] = m.ptr] /\ Done
    BY <1>2, <2>1, <2>2 DEF MeasureAlloc
  <2> QED BY <1>1, <1>2, <2>3, AllocSpace
<1>3. CASE ops[i].type = "r" /\ MeasureRealloc(x, size)
  <2>1. r.ok /\ (r.ptr = NULL <=> size = 0)
    BY <1>1, <1>3, ReallocFits
  <2>2. mem_brk' = r.brk /\ blocks' = [blocks EXCEPT ![x] = r.ptr] /\ Done
    BY <1>3, <2>1 DEF MeasureRealloc
  <2> QED BY <1>1, <1>3, <2>2, ReallocSpace
<1>4. CASE ops[i].type = "f" /\ MeasureFree(x)
  <2>1. Done /\ mem_brk' = mem_brk /\ blocks' = blocks
    BY <1>4 DEF MeasureFree, memory, trace
  <2> QED BY <1>1, <1>4, <2>1, FreeSpace
<1> QED BY <1>2, <1>3, <1>4 DEF eval_mm_util_speed

\* A pass starts with all of the heap.
LEMMA RunTestsSpace ==
    ASSUME NEW A, Enough(A), Space(A), run_tests
    PROVE  Space(A)'
<1>1. CASE \E p \in Passes : StartPass(p)
  <2>1. PICK p \in Passes : StartPass(p)
    BY <1>1
  <2>2. phase' = p /\ i' = 1 /\ mem_brk' = HeapLo
    BY <2>1 DEF StartPass
  <2>3. Live' = {}
    BY <2>2 DEF Live, Before
  <2>4. Empties(Live', blocks') = {}
    BY <2>3 DEF Empties
  <2>5. Cardinality(Empties(Live', blocks')) = 0
    BY <2>4, FS_EmptySet
  <2>6. A \in Nat
    BY DEF Enough
  <2>7. mem_brk' + A * Cardinality(Empties(Live', blocks')) <= HeapLo + A * (i' - 1)
    BY <2>2, <2>5, <2>6
  <2>8. p # "invalid"
    BY DEF Passes
  <2> QED BY <2>2, <2>3, <2>7, <2>8 DEF Space
<1>2. CASE phase' = "done"
  BY <1>2 DEF Space, Passes
<1> QED BY <1>1, <1>2 DEF run_tests, Passes

LEMMA NextSpace ==
    ASSUME IInv, NEW A, Enough(A), Space(A), [Next]_vars
    PROVE  Space(A)'
<1>1. CASE read_trace
  <2>1. phase' = "read"
    BY <1>1 DEF read_trace, Read
  <2> QED BY <2>1 DEF Space, Passes
<1>2. CASE UNCHANGED vars
  <2>1. /\ ops' = ops /\ phase' = phase /\ i' = i /\ mem_brk' = mem_brk /\ blocks' = blocks
    BY <1>2 DEF vars, memory, trace
  <2>2. Live' = Live
    BY <2>1 DEF Live, Before
  <2> QED BY <2>1, <2>2 DEF Space
<1> QED BY <1>1, <1>2, RunTestsSpace, ValidSpace, MeasureSpace DEF Next

\* In a heap that is large enough a trace that frees all it allocates is never held
\* against the allocator, in neither check nor after them (eval_mm_valid, eval_mm_util
\* and eval_mm_speed of mdriver.c).
THEOREM VerdictsRight ==
    ASSUME HeapSuffices
    PROVE  Spec => []VerdictValid
<1>1. PICK A \in Nat : Enough(A)
  BY DEF HeapSuffices
<1>2. Init => Space(A)
  BY DEF Init, Space, Passes
<1>3. IInv /\ Space(A) /\ [Next]_vars => Space(A)'
  BY <1>1, NextSpace
<1>4. Space(A) => VerdictValid
  BY DEF Space, VerdictValid
<1> QED BY <1>2, <1>3, <1>4, Invariance, PTL DEF Spec

=============================================================================
