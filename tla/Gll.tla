--------------------------------- MODULE Gll ---------------------------------
(***************************************************************************)
(* The generic list of project 3 (gll.c): nodes with data, prev and next,  *)
(* of which the list knows the first, the last and the number.  A node is  *)
(* a positive number, its memory an entry of node; free(3) drops it.       *)
(***************************************************************************)
EXTENDS Integers, SequencesExt

Nil  == 0           \* NULL as a pointer to a node
NULL == "NULL"      \* NULL as a pointer to data

gll_init == [size |-> 0, first |-> Nil, last |-> Nil, node |-> <<>>]

Fresh(list) == CHOOSE n \in 1 .. list.size + 1 : n \notin DOMAIN list.node
gll_initNode(data) == [data |-> data, prev |-> Nil, next |-> Nil]

\* The nodes with a new one among them.
WithNode(node, n, new) == [m \in DOMAIN node \cup {n} |-> IF m = n THEN new ELSE node[m]]

\* NULL stands for an empty list and for a node whose data is NULL.
DataAt(list, n) == IF n = Nil THEN NULL ELSE list.node[n].data
gll_first(list) == DataAt(list, list.first)
gll_last(list)  == DataAt(list, list.last)

gll_push(list, data) ==
    LET n   == Fresh(list)
        new == [gll_initNode(data) EXCEPT !.next = list.first]
    IN  IF list.size = 0
        THEN [size |-> 1, first |-> n, last |-> n,
              node |-> WithNode(list.node, n, gll_initNode(data))]
        ELSE [size |-> list.size + 1, first |-> n, last |-> list.last,
              node |-> WithNode([list.node EXCEPT ![list.first].prev = n], n, new)]

gll_pushBack(list, data) ==
    LET n   == Fresh(list)
        new == [gll_initNode(data) EXCEPT !.prev = list.last]
    IN  IF list.size = 0
        THEN [size |-> 1, first |-> n, last |-> n,
              node |-> WithNode(list.node, n, gll_initNode(data))]
        ELSE [size |-> list.size + 1, first |-> list.first, last |-> n,
              node |-> WithNode([list.node EXCEPT ![list.last].next = n], n, new)]

\* The first count nodes met from one node on, along prev or next, and Nil behind
\* the last one.
Follow(list, from, field, count) ==
    LET at[k \in 0 .. count] ==
          IF k = 0 THEN from
          ELSE LET n == at[k - 1] IN IF n = Nil THEN Nil ELSE list.node[n][field]
    IN  [k \in 1 .. count |-> at[k - 1]]

\* From the nearer end.  Neither position size nor a negative one has a node.
gll_findNode(list, pos) ==
    IF pos < 0 \/ pos >= list.size THEN Nil
    ELSE IF pos > (list.size - 1) \div 2
    THEN Follow(list, list.last, "prev", list.size - pos)[list.size - pos]
    ELSE Follow(list, list.first, "next", pos + 1)[pos + 1]

gll_get(list, pos) == DataAt(list, gll_findNode(list, pos))

gll_set(list, data, pos) ==
    LET n == gll_findNode(list, pos)
    IN  IF n = Nil THEN list ELSE [list EXCEPT !.node[n].data = data]

\* Mutant: the node at pos still points to the one in front of the new one.
AddHalf(list, data, pos) ==
    LET at   == gll_findNode(list, pos)
        new  == Fresh(list)
        prev == IF at = Nil THEN list.last ELSE list.node[at].prev
        link == [m \in DOMAIN list.node |->
                   [list.node[m] EXCEPT !.next = IF m = prev THEN new ELSE @]]
    IN  IF pos > list.size THEN list
        ELSE [size  |-> list.size + 1,
              first |-> IF prev = Nil THEN new ELSE list.first,
              last  |-> IF at = Nil THEN new ELSE list.last,
              node  |-> WithNode(link, new, [data |-> data, prev |-> prev, next |-> at])]

\* In front of the node at pos, or at the end if there is none.
gll_add(list, data, pos) ==
    LET at   == gll_findNode(list, pos)
        new  == Fresh(list)
        prev == IF at = Nil THEN list.last ELSE list.node[at].prev
        link == [m \in DOMAIN list.node |->
                   [list.node[m] EXCEPT !.prev = IF m = at THEN new ELSE @,
                                        !.next = IF m = prev THEN new ELSE @]]
    IN  IF pos > list.size THEN list
        ELSE [size  |-> list.size + 1,
              first |-> IF prev = Nil THEN new ELSE list.first,
              last  |-> IF at = Nil THEN new ELSE list.last,
              node  |-> WithNode(link, new, [data |-> data, prev |-> prev, next |-> at])]

gll_remove(list, pos) ==
    LET n    == gll_findNode(list, pos)
        prev == list.node[n].prev
        next == list.node[n].next
    IN  IF n = Nil THEN list
        ELSE [size  |-> list.size - 1,
              first |-> IF prev = Nil THEN next ELSE list.first,
              last  |-> IF next = Nil THEN prev ELSE list.last,
              node  |-> [m \in DOMAIN list.node \ {n} |->
                           [list.node[m] EXCEPT !.next = IF m = prev THEN next ELSE @,
                                                !.prev = IF m = next THEN prev ELSE @]]]

\* The list after gll_pop and gll_popBack.
gll_pop(list)     == IF list.first = Nil THEN list ELSE gll_remove(list, 0)
gll_popBack(list) == IF list.last = Nil THEN list ELSE gll_remove(list, list.size - 1)

\* The nodes of a walk that goes on until NULL.
Walk(list, from, field) ==
    LET at == Follow(list, from, field, Cardinality(DOMAIN list.node))
    IN  SubSeq(at, 1, Cardinality({k \in DOMAIN at : at[k] # Nil}))

\* The arguments of the calls of f.
DataOf(list, nodes)   == [k \in DOMAIN nodes |-> DataAt(list, nodes[k])]
gll_each(list)        == DataOf(list, Walk(list, list.first, "next"))
gll_eachReverse(list) == DataOf(list, Walk(list, list.last, "prev"))

\* The nodes that are left, and the list after gll_clear.
gll_destroy(list) ==
    Restrict(list.node, DOMAIN list.node \ Range(Walk(list, list.first, "next")))
gll_clear(list) == [size |-> 0, first |-> Nil, last |-> Nil, node |-> gll_destroy(list)]

-----------------------------------------------------------------------------
(* The sequence a list stands for *)

Nodes(list) == Follow(list, list.first, "next", list.size)
Data(list)  == DataOf(list, Nodes(list))

WellLinked(list) ==
    LET nodes == Nodes(list)
    IN  /\ Range(nodes) = DOMAIN list.node
        /\ Cardinality(DOMAIN list.node) = list.size
        /\ Follow(list, list.last, "prev", list.size) = Reverse(nodes)
        /\ IF list.size = 0 THEN list.first = Nil /\ list.last = Nil
           ELSE list.node[list.first].prev = Nil /\ list.node[list.last].next = Nil

Holds(list, data) == WellLinked(list) /\ Data(list) = data

\* Every operation of gll.c does to the links what it does to the sequence; a
\* position without a node is refused, but gll_add takes a negative one for the end.
OperationsAgree(list, x) ==
    LET data == Data(list)
        size == list.size
        Keeps(Op(_), s) == Holds(Op(list), s)
    IN  /\ WellLinked(list)
        /\ gll_each(list) = data /\ gll_eachReverse(list) = Reverse(data)
        /\ gll_clear(list) = gll_init /\ gll_destroy(list) = <<>>
        /\ gll_first(list) = gll_get(list, 0) /\ gll_last(list) = gll_get(list, size - 1)
        /\ Keeps(gll_popBack, IF size = 0 THEN data ELSE Front(data))
        /\ Keeps(LAMBDA l : gll_push(l, x), <<x>> \o data)
        /\ \A pos \in 0 .. size - 1 :
              /\ gll_get(list, pos) = data[pos + 1]
              /\ Keeps(LAMBDA l : gll_set(l, x, pos), ReplaceAt(data, pos + 1, x))
              /\ Keeps(LAMBDA l : gll_remove(l, pos), RemoveAt(data, pos + 1))
              /\ Keeps(LAMBDA l : gll_add(l, x, pos), InsertAt(data, pos + 1, x))
        /\ \A pos \in {-1, size} :
              /\ gll_get(list, pos) = NULL
              /\ gll_set(list, x, pos) = list /\ gll_remove(list, pos) = list
              /\ Keeps(LAMBDA l : gll_add(l, x, pos), Append(data, x))
        /\ gll_add(list, x, size + 1) = list
=============================================================================
