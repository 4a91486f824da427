----------------------------- MODULE FifoProofs -----------------------------
(***************************************************************************)
(* Proofs about Fifo.tla for every capacity, header size, set of messages  *)
(* and message lengths.  The run of MCFifo.cfg checks the same properties  *)
(* on one instance.                                                        *)
(***************************************************************************)
EXTENDS FifoQueue, SequenceTheorems, WellFoundedInduction, TLAPS

USE SizeAssumption, MessageAssumption, GarbageAssumption

(* Positions *)

\* A cell at most Size bytes further on is a cell.
LEMMA AtCell ==
    ASSUME NEW c \in Cell, NEW k \in 0 .. Size
    PROVE  At(c, k) \in Cell
BY DEF At, Cell

\* No bytes after a cell is the cell itself.
LEMMA AtZero ==
    ASSUME NEW c \in Cell
    PROVE  At(c, 0) = c
BY DEF At, Cell

\* Succ, the index update of fifo_read and fifo_write, moves one byte on.
LEMMA AtSucc ==
    ASSUME NEW c \in Cell, NEW k \in 0 .. Size - 1
    PROVE  Succ(At(c, k)) = At(c, k + 1)
BY DEF At, Succ, Cell

\* Offsets below Size name different cells.
LEMMA AtInjective ==
    ASSUME NEW c \in Cell, NEW j \in 0 .. Size - 1, NEW k \in 0 .. Size - 1,
           At(c, j) = At(c, k)
    PROVE  j = k
BY DEF At, Cell

\* Offsets add up while they stay inside the ring.
LEMMA AtAt ==
    ASSUME NEW c \in Cell, NEW j \in 0 .. Size - 1, NEW k \in 0 .. Size - 1,
           j + k < Size
    PROVE  At(At(c, j), k) = At(c, j + k)
BY DEF At, Cell

-----------------------------------------------------------------------------
(* The inductive invariant.  L bytes of whole messages lie in the ring from  *)
(* cell first on, cut into frames that start at the offsets in S (the last   *)
(* of them, L, is where the next frame will start).  A running call stands   *)
(* at a known place of one frame.                                            *)

Frames(S, first, L) ==
    /\ S \subseteq 0 .. L /\ 0 \in S /\ L \in S
    /\ \A o \in S \ {L} : \E m \in Message :
          HoldsFrame(first, o, m) /\ o + FrameSize(m) \in S

\* dest holds the first n bytes of x, an int or a message's data.
Copied(x, n) == Len(dest) = n /\ \A j \in 1 .. n : dest[j] = <<x, j>>

\* The running fifo_read has read i bytes of the frame of m at offset o.
AtFrame(S, first, o, m) ==
    /\ HoldsFrame(first, o, m) /\ o + FrameSize(m) \in S
    /\ part = "header" => /\ i <= IntSize /\ tail = At(first, o + i)
                          /\ Copied(DataSize[m], i)
    /\ part = "data" => /\ i <= DataSize[m] /\ tail = At(first, o + IntSize + i)
                        /\ actual_data_size = DataSize[m]
                        /\ Copied(m, i)

IdleLayout(S, first, L) ==
    call = "none" => tail = first /\ head = At(first, L) /\ avilSize = Size - L

AddLayout(S, first, L) ==
    call = "buffer_add_Q" =>
      /\ tail = first /\ L + FrameSize(msg) < Size
      /\ part = "header" => /\ i <= IntSize /\ head = At(first, L + i)
                            /\ avilSize = Size - L
                            /\ HoldsHeader(first, L, msg, i)
      /\ part = "data" => /\ i <= DataSize[msg]
                          /\ head = At(first, L + IntSize + i)
                          /\ avilSize = Size - L - IntSize
                          /\ HoldsHeader(first, L, msg, IntSize)
                          /\ HoldsData(first, L, msg, i)

RemoveLayout(S, first, L) ==
    call = "buffer_remove_Q" =>
      /\ head = At(first, L)
      /\ avilSize = Size - L + (IF part = "data" THEN IntSize ELSE 0)
      /\ \E m \in Message : AtFrame(S, first, 0, m)

\* A peek that runs past the last message stands at the end with i = 0.
TopLayout(S, first, L) ==
    call = "buffer_top_message" =>
      /\ TAIL = first /\ head = At(first, L) /\ HEAD = head
      /\ avilSize = Size - L + move_bytes
      /\ part # "restore" =>
           \/ i = 0 /\ dest = <<>> /\ tail = head
           \/ \E o \in S \ {L} : \E m \in Message : AtFrame(S, first, o, m)

Layout(S, first, L) ==
    /\ Frames(S, first, L)
    /\ IdleLayout(S, first, L)
    /\ AddLayout(S, first, L)
    /\ RemoveLayout(S, first, L)
    /\ TopLayout(S, first, L)

Control ==
    /\ call = "none" => part = "none" /\ i = 0
    /\ call \in {"none", "buffer_add_Q"} => dest = <<>>
    /\ call = "buffer_add_Q" => part \in {"header", "data"} /\ msg \in Message
                                /\ data = <<>>
    /\ call = "buffer_remove_Q" => part \in {"header", "data"}
    /\ call = "buffer_top_message" => part \in {"header", "data", "restore"}

DataWhole == data = <<>> \/ \E m \in Message : data = DataBytes(m)

IInv ==
    /\ TypeInvariant /\ Control /\ DataWhole
    /\ \E S \in SUBSET Nat, first \in Cell, L \in 0 .. Size - 1 : Layout(S, first, L)

-----------------------------------------------------------------------------
(* Types and control *)

\* Every step keeps the types and the control state of the calls.
LEMMA TypeStep ==
    TypeInvariant /\ Control /\ [Next]_vars => TypeInvariant' /\ Control'
<1> SUFFICES ASSUME TypeInvariant, Control, [Next]_vars
             PROVE  TypeInvariant' /\ Control'
  OBVIOUS
<1> USE DEF TypeInvariant, Control, Byte, Cell
<1>1. ASSUME NEW m \in Message, AddCall(m) \/ AddError(m)
      PROVE  TypeInvariant' /\ Control'
  <2>1. CASE AddCall(m)
    BY <2>1 DEF AddCall, ring, peek
  <2>2. CASE AddError(m)
    BY <2>2 DEF AddError, ring, peek
  <2> QED BY <1>1, <2>1, <2>2
<1>2. CASE WriteByte
  <2>1. <<IF part = "header" THEN DataSize[msg] ELSE msg, i + 1>> \in Byte
    BY <1>2 DEF WriteByte
  <2>2. buf' \in [Cell -> Byte] /\ head' \in Cell
    BY <1>2, <2>1 DEF WriteByte, Succ
  <2> QED BY <1>2, <2>2 DEF WriteByte, peek
<1>3. CASE WriteReturn
  <2>1. avilSize' \in Int
    BY <1>3 DEF WriteReturn, nbytes
  <2>2. CASE part = "header"
    BY <1>3, <2>1, <2>2 DEF WriteReturn, AfterWrite, peek
  <2>3. CASE part = "data"
    BY <1>3, <2>1, <2>3 DEF WriteReturn, AfterWrite, Return
  <2> QED BY <1>3, <2>2, <2>3 DEF WriteReturn
<1>4a. CASE RemoveCall
  BY <1>4a DEF RemoveCall, ring, peek
<1>4b. CASE RemoveError
  BY <1>4b DEF RemoveError, ring, peek
<1>5. ASSUME NEW k \in 0 .. MaxIndex, TopCall(k)
      PROVE  TypeInvariant' /\ Control'
  BY <1>5 DEF TopCall, ring
<1>6. CASE ReadByte
  BY <1>6 DEF ReadByte, Reading, peek, Succ
<1>7. CASE ReadReturn
  <2>1. /\ Reading /\ avilSize' \in Int /\ UNCHANGED <<head, tail, buf>>
        /\ \E got \in Int : AfterRead(got)
    <3>1. nbytes \in Int
      BY <1>7 DEF ReadReturn, Reading, nbytes
    <3> QED BY <3>1, <1>7 DEF ReadReturn
  <2>2. Decoded \subseteq Int
    <3>1. DataSizes \subseteq Int
      BY DEF DataSizes
    <3>2. actual_data_size \in Int /\ Garbage \subseteq Int
      BY DEF TypeInvariant
    <3>3. {n \in DataSizes : dest = IntBytes(n)} \subseteq Int
      BY <3>1
    <3> QED BY ONLY <3>2, <3>3, Zenon DEF Decoded
  <2>3. PICK got \in Int : AfterRead(got)
    BY <2>1
  <2>4. CASE part = "header"
    <3>1. /\ i' = 0 /\ dest' = <<>> /\ part' = "data"
          /\ actual_data_size' \in Int /\ move_bytes' = move_bytes + got
          /\ UNCHANGED <<call, msg, index, round, TAIL, HEAD, data, status>>
      BY <2>2, <2>3, <2>4 DEF AfterRead
    <3> QED BY <3>1, <2>1 DEF Reading
  <2>5. CASE part = "data" /\ call = "buffer_top_message"
    BY <2>1, <2>3, <2>5 DEF AfterRead, Reading
  <2>6. CASE part = "data" /\ call = "buffer_remove_Q"
    BY <2>1, <2>3, <2>6 DEF AfterRead, Return, Reading
  <2> QED BY <2>1, <2>4, <2>5, <2>6 DEF Reading
<1>8. CASE TopRestore
  BY <1>8 DEF TopRestore, Return
<1>9. CASE UNCHANGED vars
  BY <1>9 DEF vars, ring, peek
<1> QED BY <1>1, <1>2, <1>3, <1>4a, <1>4b, <1>5, <1>6, <1>7, <1>8, <1>9 DEF Next

\* The types and the control state hold after fifo_init.
LEMMA TypeInit == Init => TypeInvariant /\ Control
BY DEF Init, TypeInvariant, Control, Byte, Cell, Unwritten

\* Every field of the ring and every local of the calls keeps its type.
THEOREM TypeCorrect == Spec => []TypeInvariant
<1>1. Spec => [](TypeInvariant /\ Control)
  BY TypeInit, TypeStep, PTL DEF Spec
<1> QED BY <1>1, PTL

-----------------------------------------------------------------------------
(* The layout: one lemma per group of actions *)

\* The hypotheses of every step lemma.
State(S, first, L) ==
    /\ TypeInvariant /\ Control
    /\ S \in SUBSET Nat /\ first \in Cell /\ L \in 0 .. Size - 1
    /\ Layout(S, first, L)

\* A frame is at least two bytes long: a header and some data.
LEMMA FrameSizeType ==
    ASSUME NEW m \in Message
    PROVE  DataSize[m] \in Nat /\ DataSize[m] > 0 /\ FrameSize(m) \in Nat
           /\ FrameSize(m) = IntSize + DataSize[m]
BY DEF FrameSize

\* What is stored depends on buf alone.
LEMMA FramesKept ==
    ASSUME NEW S, NEW first, NEW L, Frames(S, first, L), UNCHANGED buf
    PROVE  Frames(S, first, L)'
BY DEF Frames, HoldsFrame, HoldsHeader, HoldsData

\* buffer_add_Q starts behind the last frame, with room for a whole one, or
\* changes nothing.
LEMMA AddStart ==
    ASSUME NEW S, NEW first, NEW L, State(S, first, L),
           NEW m \in Message, AddCall(m) \/ AddError(m)
    PROVE  Layout(S, first, L)'
<1> USE DEF State, Layout
<1>1. Frames(S, first, L)'
  BY FramesKept DEF AddCall, AddError, ring
<1>2. CASE AddError(m)
  BY <1>1, <1>2 DEF AddError, ring, IdleLayout, AddLayout, RemoveLayout, TopLayout
<1>3. CASE AddCall(m)
  <2>1. /\ tail = first /\ head = At(first, L) /\ avilSize = Size - L
        /\ L + FrameSize(m) < Size
    BY <1>3, FrameSizeType DEF AddCall, RoomFor, IdleLayout
  <2>2. AddLayout(S, first, L)'
    BY <1>3, <2>1 DEF AddCall, ring, AddLayout, HoldsHeader
  <2> QED BY <1>1, <1>3, <2>2 DEF AddCall, IdleLayout, RemoveLayout, TopLayout
<1> QED BY <1>2, <1>3

\* With more than one cell free the full test of fifo_write fails.
LEMMA NotFull ==
    ASSUME tail \in Cell, NEW h \in Nat, h < Size - 1, head = At(tail, h)
    PROVE  ~ Full
BY DEF Full, At, Cell

\* Writing at offset h leaves every other offset alone.
LEMMA WriteElsewhere ==
    ASSUME NEW first \in Cell, NEW h \in 0 .. Size - 1, NEW k \in 0 .. Size - 1,
           buf \in [Cell -> Byte], NEW x, head = At(first, h), h # k,
           buf' = [buf EXCEPT ![head] = x]
    PROVE  buf'[At(first, k)] = buf[At(first, k)]
BY AtInjective, AtCell DEF Cell

\* The byte stored at head is the one at the offset of head.
LEMMA WriteHere ==
    ASSUME NEW first \in Cell, NEW h \in 0 .. Size - 1,
           buf \in [Cell -> Byte], NEW x, head = At(first, h),
           buf' = [buf EXCEPT ![head] = x]
    PROVE  buf'[At(first, h)] = x
BY AtCell DEF Cell

\* A byte written extends the open frame and touches no other.
LEMMA WriteByteStep ==
    ASSUME NEW S, NEW first, NEW L, State(S, first, L), WriteByte
    PROVE  Layout(S, first, L)'
<1> DEFINE h == L + i + (IF part = "data" THEN IntSize ELSE 0)
           x == <<IF part = "header" THEN DataSize[msg] ELSE msg, i + 1>>
<1>1. /\ msg \in Message /\ part \in {"header", "data"} /\ i \in Nat
      /\ S \in SUBSET Nat /\ L \in 0 .. Size - 1 /\ first \in Cell
      /\ buf \in [Cell -> Byte] /\ tail = first
      /\ Frames(S, first, L) /\ AddLayout(S, first, L)
  BY DEF State, Control, WriteByte, Layout, AddLayout, TypeInvariant
<1>2. /\ L + FrameSize(msg) < Size /\ i < nbytes
      /\ part = "header" => nbytes = IntSize
      /\ part = "data" => nbytes = DataSize[msg]
  BY <1>1 DEF WriteByte, AddLayout, nbytes
<1>3. h \in 0 .. Size - 1 /\ head = At(first, h) /\ h + 1 < Size
  BY <1>1, <1>2, FrameSizeType DEF AddLayout, WriteByte
<1>4. buf' = [buf EXCEPT ![head] = x]
  BY DEF WriteByte
<1>5. \A k \in 0 .. Size - 1 : k # h => buf'[At(first, k)] = buf[At(first, k)]
  BY <1>1, <1>3, <1>4, WriteElsewhere
<1>6. buf'[At(first, h)] = x
  BY <1>1, <1>3, <1>4, WriteHere
<1>7. head' = At(first, h + 1) /\ i' = i + 1
  BY <1>1, <1>3, AtSucc DEF WriteByte
<1>8. Frames(S, first, L)'
  <2> SUFFICES ASSUME NEW o \in S \ {L}
               PROVE  \E m \in Message : HoldsFrame(first, o, m)'
                                         /\ o + FrameSize(m) \in S
    BY <1>1 DEF Frames
  <2>1. PICK m \in Message : HoldsFrame(first, o, m) /\ o + FrameSize(m) \in S
    BY <1>1 DEF Frames
  <2>2. o \in Nat /\ o + FrameSize(m) <= L
    <3>1. o \in Nat /\ o + FrameSize(m) \in 0 .. L
      BY <1>1, <2>1 DEF Frames
    <3> QED BY <3>1, <1>1
  <2>3. \A j \in 1 .. FrameSize(m) : /\ o + j - 1 \in 0 .. Size - 1
                                     /\ o + j - 1 # h
    BY <1>1, <2>2, FrameSizeType
  <2>4. HoldsHeader(first, o, m, IntSize)'
    <3> SUFFICES ASSUME NEW j \in 1 .. IntSize
                 PROVE  buf'[At(first, o + j - 1)] = <<DataSize[m], j>>
      BY DEF HoldsHeader
    <3>1. j \in 1 .. FrameSize(m)
      BY FrameSizeType
    <3> QED BY <2>1, <2>3, <3>1, <1>5 DEF HoldsFrame, HoldsHeader
  <2>5. HoldsData(first, o, m, DataSize[m])'
    <3> SUFFICES ASSUME NEW j \in 1 .. DataSize[m]
                 PROVE  buf'[At(first, o + IntSize + j - 1)] = <<m, j>>
      BY DEF HoldsData
    <3>1. IntSize + j \in 1 .. FrameSize(m) /\ o + IntSize + j - 1 = o + (IntSize + j) - 1
      BY FrameSizeType, <2>2
    <3> QED BY <2>1, <2>3, <3>1, <1>5 DEF HoldsFrame, HoldsData
  <2> QED BY <2>1, <2>4, <2>5 DEF HoldsFrame
<1>9. AddLayout(S, first, L)'
  <2>1. CASE part = "header"
    <3>1. \A j \in 1 .. i : L + j - 1 \in 0 .. Size - 1 /\ L + j - 1 # h
      BY <1>1, <1>3, <2>1
    <3>2. \A j \in 1 .. i + 1 : buf'[At(first, L + j - 1)] = <<DataSize[msg], j>>
      <4> SUFFICES ASSUME NEW j \in 1 .. i + 1
                   PROVE  buf'[At(first, L + j - 1)] = <<DataSize[msg], j>>
        OBVIOUS
      <4>1. CASE j = i + 1
        <5>1. L + j - 1 = h
          BY <1>1, <2>1, <4>1
        <5> QED BY <5>1, <1>6, <2>1, <4>1 DEF WriteByte
      <4>2. CASE j \in 1 .. i
        BY <4>2, <3>1, <1>1, <1>5, <2>1 DEF AddLayout, WriteByte, HoldsHeader
      <4> QED BY <1>1, <4>1, <4>2
    <3>3. /\ i + 1 <= IntSize /\ head' = At(first, L + (i + 1))
          /\ avilSize' = Size - L
      BY <1>1, <1>2, <1>7, <2>1 DEF AddLayout, WriteByte
    <3> QED BY <1>1, <1>2, <1>7, <2>1, <3>2, <3>3 DEF AddLayout, WriteByte, HoldsHeader
  <2>2. CASE part = "data"
    <3>1. /\ \A j \in 1 .. IntSize : L + j - 1 \in 0 .. Size - 1 /\ L + j - 1 # h
          /\ \A j \in 1 .. i : /\ L + IntSize + j - 1 \in 0 .. Size - 1
                               /\ L + IntSize + j - 1 # h
      BY <1>1, <1>3, <2>2
    <3>2. HoldsHeader(first, L, msg, IntSize)'
      BY <3>1, <1>1, <1>5, <2>2 DEF AddLayout, WriteByte, HoldsHeader
    <3>3. \A j \in 1 .. i + 1 : buf'[At(first, L + IntSize + j - 1)] = <<msg, j>>
      <4> SUFFICES ASSUME NEW j \in 1 .. i + 1
                   PROVE  buf'[At(first, L + IntSize + j - 1)] = <<msg, j>>
        OBVIOUS
      <4>1. CASE j = i + 1
        <5>1. L + IntSize + j - 1 = h
          BY <1>1, <2>2, <4>1
        <5> QED BY <5>1, <1>6, <2>2, <4>1 DEF WriteByte
      <4>2. CASE j \in 1 .. i
        BY <4>2, <3>1, <1>1, <1>5, <2>2 DEF AddLayout, WriteByte, HoldsData
      <4> QED BY <1>1, <4>1, <4>2
    <3>4. /\ i + 1 <= DataSize[msg] /\ head' = At(first, L + IntSize + (i + 1))
          /\ avilSize' = Size - L - IntSize
      BY <1>1, <1>2, <1>7, <2>2 DEF AddLayout, WriteByte
    <3> QED BY <1>1, <1>2, <1>7, <2>2, <3>2, <3>3, <3>4
             DEF AddLayout, WriteByte, HoldsHeader, HoldsData
  <2> QED BY <1>1, <2>1, <2>2
<1> QED
  BY <1>8, <1>9 DEF WriteByte, Layout, IdleLayout, RemoveLayout, TopLayout

\* fifo_write only returns when every byte is in the ring.
LEMMA WriteFinished ==
    ASSUME NEW S, NEW first, NEW L, State(S, first, L), call = "buffer_add_Q"
    PROVE  i < nbytes => ~ Full
<1>1. /\ msg \in Message /\ part \in {"header", "data"} /\ i \in Nat
      /\ L \in 0 .. Size - 1 /\ first \in Cell /\ tail = first
      /\ L + FrameSize(msg) < Size /\ AddLayout(S, first, L)
  BY DEF State, Control, Layout, AddLayout, TypeInvariant
<1>2. CASE part = "header"
  <2>1. i < nbytes => L + i \in Nat /\ L + i < Size - 1 /\ head = At(first, L + i)
    BY <1>1, <1>2, FrameSizeType DEF AddLayout, nbytes
  <2> QED BY <1>1, <2>1, NotFull
<1>3. CASE part = "data"
  <2>1. i < nbytes => /\ L + IntSize + i \in Nat /\ L + IntSize + i < Size - 1
                      /\ head = At(first, L + IntSize + i)
    BY <1>1, <1>3, FrameSizeType DEF AddLayout, nbytes
  <2> QED BY <1>1, <2>1, NotFull
<1> QED BY <1>1, <1>2, <1>3

\* When fifo_write returns the header or the whole frame is in place.
LEMMA WriteReturnStep ==
    ASSUME NEW S, NEW first, NEW L, State(S, first, L), WriteReturn
    PROVE  \E T \in SUBSET Nat, K \in 0 .. Size - 1 : Layout(T, first, K)'
<1>1. /\ msg \in Message /\ part \in {"header", "data"} /\ i \in Nat
      /\ S \in SUBSET Nat /\ L \in 0 .. Size - 1 /\ first \in Cell /\ tail = first
      /\ L + FrameSize(msg) < Size /\ call = "buffer_add_Q"
      /\ Frames(S, first, L) /\ AddLayout(S, first, L)
  BY DEF State, Control, WriteReturn, Layout, AddLayout, TypeInvariant
<1>2. ~ (i < nbytes) /\ avilSize' = avilSize - nbytes /\ UNCHANGED <<head, tail, buf>>
  BY WriteFinished DEF WriteReturn
<1>3. Frames(S, first, L)'
  BY <1>1, <1>2, FramesKept
<1>4. CASE part = "header"
  <2>1. /\ i = IntSize /\ avilSize' = Size - L - IntSize
        /\ head' = At(first, L + IntSize + 0)
    BY <1>1, <1>2, <1>4 DEF AddLayout, nbytes
  <2>2. part' = "data" /\ i' = 0 /\ UNCHANGED <<call, msg>>
    BY <1>4 DEF WriteReturn, AfterWrite
  <2>3. HoldsHeader(first, L, msg, IntSize)
    BY <1>1, <1>4, <2>1 DEF AddLayout
  <2>3a. HoldsHeader(first, L, msg, IntSize)' /\ HoldsData(first, L, msg, i)'
    BY <1>2, <2>2, <2>3 DEF HoldsHeader, HoldsData
  <2>4. AddLayout(S, first, L)'
    BY <1>1, <1>2, <2>1, <2>2, <2>3a, FrameSizeType DEF AddLayout
  <2> QED
    BY <1>1, <1>3, <2>2, <2>4 DEF Layout, IdleLayout, RemoveLayout, TopLayout
<1>5. CASE part = "data"
  <2> PICK K \in Nat : K = L + FrameSize(msg)
    BY <1>1, FrameSizeType
  <2> DEFINE T == S \cup {K}
  <2>1. /\ i = DataSize[msg] /\ avilSize' = Size - K
        /\ head' = At(first, K) /\ tail' = first
    BY <1>1, <1>2, <1>5, FrameSizeType DEF AddLayout, nbytes
  <2>2. call' = "none"
    BY <1>5 DEF WriteReturn, AfterWrite, Return
  <2>3. HoldsFrame(first, L, msg)
    BY <1>1, <1>5, <2>1 DEF AddLayout, HoldsFrame
  <2>4. T \subseteq 0 .. K /\ 0 \in T /\ K \in T
    <3>1. L <= K /\ K \in 0 .. Size - 1 /\ L \in Nat
      BY <1>1, FrameSizeType
    <3>2. S \subseteq 0 .. L /\ 0 \in S
      BY <1>1 DEF Frames
    <3>3. \A s \in S : s \in 0 .. K
      BY <3>1, <3>2
    <3>4. K \in 0 .. K
      BY <3>1
    <3> QED BY <3>2, <3>3, <3>4, Zenon
  <2>5. \A o \in T \ {K} : \E m \in Message : HoldsFrame(first, o, m)
                                             /\ o + FrameSize(m) \in T
    BY <1>1, <2>3 DEF Frames
  <2>6. Frames(T, first, K)
    BY <2>4, <2>5 DEF Frames
  <2>7. Frames(T, first, K)'
    BY <1>2, <2>6, FramesKept
  <2>8. Layout(T, first, K)'
    BY <2>1, <2>2, <2>7 DEF Layout, IdleLayout, AddLayout, RemoveLayout, TopLayout
  <2>9. T \in SUBSET Nat /\ K \in 0 .. Size - 1
    <3>1. K \in 0 .. Size - 1
      BY <1>1, FrameSizeType
    <3> QED BY <1>1, <3>1
  <2> QED BY <2>8, <2>9
<1> QED BY <1>1, <1>4, <1>5

-----------------------------------------------------------------------------
(* Reading *)

\* fifo_read starts a header at a frame.
LEMMA AtFrameStart ==
    ASSUME NEW S, NEW first \in Cell, NEW L \in 0 .. Size - 1, Frames(S, first, L),
           NEW o \in S \ {L}, o \in Nat, tail = At(first, o),
           part = "header", i = 0, dest = <<>>
    PROVE  \E m \in Message : AtFrame(S, first, o, m)
<1>1. PICK m \in Message : HoldsFrame(first, o, m) /\ o + FrameSize(m) \in S
  BY DEF Frames
<1> QED BY <1>1 DEF AtFrame, Copied

\* A remove or a peek starts at the first byte of the first frame.
LEMMA ReadStart ==
    ASSUME NEW S, NEW first, NEW L, State(S, first, L),
           RemoveCall \/ RemoveError \/ \E k \in 0 .. MaxIndex : TopCall(k)
    PROVE  Layout(S, first, L)'
<1>1. /\ S \in SUBSET Nat /\ first \in Cell /\ L \in 0 .. Size - 1
      /\ Frames(S, first, L)
      /\ tail = first /\ head = At(first, L) /\ avilSize = Size - L /\ dest = <<>>
      /\ UNCHANGED <<head, tail, avilSize, buf, dest>>
  BY DEF State, Layout, IdleLayout, Control, RemoveCall, RemoveError, TopCall, ring
<1>2. Frames(S, first, L)'
  BY <1>1, FramesKept
<1>3. tail' = At(first, 0) /\ 0 \in S
  BY <1>1, AtZero DEF Frames
<1>4. L # 0 /\ part' = "header" /\ i' = 0 =>
        \E m \in Message : AtFrame(S, first, 0, m)'
  <2> SUFFICES ASSUME L # 0, part' = "header", i' = 0
               PROVE  \E m \in Message : AtFrame(S, first, 0, m)'
    OBVIOUS
  <2>1. PICK m \in Message : HoldsFrame(first, 0, m) /\ 0 + FrameSize(m) \in S
    BY <1>1, <1>3 DEF Frames
  <2>2. HoldsFrame(first, 0, m)'
    BY <1>1, <2>1 DEF HoldsFrame, HoldsHeader, HoldsData
  <2> QED BY <1>1, <1>3, <2>1, <2>2 DEF AtFrame, Copied
<1>5. CASE RemoveCall
  <2>1. L # 0 /\ part' = "header" /\ i' = 0 /\ call' = "buffer_remove_Q"
    BY <1>1, <1>5 DEF RemoveCall
  <2>2. RemoveLayout(S, first, L)'
    BY <1>1, <1>4, <2>1 DEF RemoveLayout
  <2> QED BY <1>2, <2>1, <2>2 DEF Layout, IdleLayout, AddLayout, TopLayout
<1>6. CASE RemoveError
  BY <1>1, <1>2, <1>6
     DEF RemoveError, Layout, IdleLayout, AddLayout, RemoveLayout, TopLayout
<1>7. ASSUME NEW k \in 0 .. MaxIndex, TopCall(k)
      PROVE  Layout(S, first, L)'
  <2>1. /\ call' = "buffer_top_message" /\ i' = 0 /\ move_bytes' = 0
        /\ TAIL' = tail /\ HEAD' = head /\ part' \in {"header", "restore"}
    BY <1>7 DEF TopCall
  <2>2. L = 0 => tail' = head'
    BY <1>1, <1>3
  <2>3. L # 0 => 0 \in S \ {L}
    BY <1>3
  <2>4. TopLayout(S, first, L)'
    BY <1>1, <1>4, <2>1, <2>2, <2>3 DEF TopLayout
  <2> QED BY <1>2, <2>1, <2>4 DEF Layout, IdleLayout, AddLayout, RemoveLayout
<1> QED BY <1>5, <1>6, <1>7

\* In the middle of a frame there is a byte to read.
LEMMA MoreToRead ==
    ASSUME NEW S, NEW first \in Cell, NEW L \in 0 .. Size - 1, S \in SUBSET Nat,
           S \subseteq 0 .. L, NEW o \in Nat, NEW m \in Message,
           TypeInvariant, call # "buffer_add_Q", part \in {"header", "data"},
           AtFrame(S, first, o, m), head = At(first, L), i < nbytes
    PROVE  tail # head
<1>1. /\ o + FrameSize(m) \in 0 .. L /\ o \in Nat /\ L \in Nat /\ L <= Size - 1
      /\ i \in Nat /\ DataSize[m] \in Nat /\ FrameSize(m) = IntSize + DataSize[m]
      /\ IntSize \in Nat /\ Size \in Nat
  <2>1. o + FrameSize(m) \in 0 .. L
    BY DEF AtFrame
  <2>2. i \in Nat
    BY DEF TypeInvariant
  <2>3. /\ DataSize[m] \in Nat /\ FrameSize(m) = IntSize + DataSize[m]
        /\ IntSize \in Nat /\ Size \in Nat
    BY FrameSizeType, SizeAssumption
  <2> QED BY <2>1, <2>2, <2>3
<1>2. CASE part = "header"
  <2>1. tail = At(first, o + i)
    BY <1>2 DEF AtFrame
  <2>2. i < IntSize
    BY <1>2 DEF nbytes
  <2>3. o + i < L /\ o + i \in 0 .. Size - 1
    BY <1>1, <2>2
  <2> QED BY <2>1, <2>3, AtInjective
<1>3. CASE part = "data"
  <2>1. tail = At(first, o + IntSize + i) /\ actual_data_size = DataSize[m]
    BY <1>3 DEF AtFrame
  <2>2. i < DataSize[m]
    BY <1>3, <2>1 DEF nbytes
  <2>3. o + IntSize + i < L /\ o + IntSize + i \in 0 .. Size - 1
    BY <1>1, <2>2
  <2> QED BY <2>1, <2>3, AtInjective
<1> QED BY <1>2, <1>3

\* Frames stay what they are while the ring's bytes do.
LEMMA HoldsKept ==
    ASSUME NEW first, NEW o, NEW m, HoldsFrame(first, o, m), UNCHANGED buf
    PROVE  HoldsFrame(first, o, m)'
BY DEF HoldsFrame, HoldsHeader, HoldsData

\* One more byte of the frame is copied.
LEMMA AtFrameReadByte ==
    ASSUME NEW S \in SUBSET Nat, NEW first \in Cell, NEW L \in 0 .. Size - 1,
           S \subseteq 0 .. L, NEW o \in Nat, NEW m \in Message,
           TypeInvariant, call # "buffer_add_Q",
           AtFrame(S, first, o, m), ReadByte
    PROVE  AtFrame(S, first, o, m)'
<1>1. /\ part \in {"header", "data"} /\ i < nbytes /\ i \in Nat
      /\ dest' = Append(dest, buf[tail]) /\ tail' = Succ(tail) /\ i' = i + 1
      /\ UNCHANGED <<buf, part, actual_data_size>>
      /\ dest \in Seq(Byte) /\ buf[tail] \in Byte
  BY DEF ReadByte, Reading, TypeInvariant
<1>2. o + FrameSize(m) \in S /\ HoldsFrame(first, o, m)' /\ o + FrameSize(m) <= L
  <2>1. o + FrameSize(m) \in S /\ HoldsFrame(first, o, m)'
    BY <1>1, HoldsKept DEF AtFrame
  <2>2. o + FrameSize(m) \in 0 .. L
    BY <2>1
  <2> QED BY <2>1, <2>2
<1>3. CASE part = "header"
  <2>1. /\ i + 1 <= IntSize /\ o + i \in 0 .. Size - 1
        /\ tail = At(first, o + i) /\ Copied(DataSize[m], i)
    BY <1>1, <1>2, <1>3, FrameSizeType DEF AtFrame, nbytes
  <2>2. tail' = At(first, o + (i + 1))
    BY <1>1, <2>1, AtSucc
  <2>3. buf[tail] = <<DataSize[m], i + 1>>
    <3>1. i + 1 \in 1 .. IntSize /\ o + (i + 1) - 1 = o + i
      BY <1>1, <2>1
    <3>2. buf[At(first, o + (i + 1) - 1)] = <<DataSize[m], i + 1>>
      BY <3>1 DEF AtFrame, HoldsFrame, HoldsHeader
    <3> QED BY <2>1, <3>1, <3>2
  <2>5. Len(dest') = i + 1 /\ \A j \in 1 .. i + 1 : dest'[j] = <<DataSize[m], j>>
    <3>1. \A j \in 1 .. i : dest[j] = <<DataSize[m], j>>
      BY <2>1 DEF Copied
    <3> QED BY <1>1, <2>1, <2>3, <3>1 DEF Copied
  <2> QED BY <1>1, <1>2, <1>3, <2>1, <2>2, <2>5 DEF AtFrame, Copied
<1>4. CASE part = "data"
  <2>1. /\ i + 1 <= DataSize[m] /\ o + IntSize + i \in 0 .. Size - 1
        /\ tail = At(first, o + IntSize + i) /\ Copied(m, i)
        /\ actual_data_size = DataSize[m]
    BY <1>1, <1>2, <1>4, FrameSizeType DEF AtFrame, nbytes
  <2>2. tail' = At(first, o + IntSize + (i + 1))
    BY <1>1, <2>1, AtSucc
  <2>3. buf[tail] = <<m, i + 1>>
    <3>1. i + 1 \in 1 .. DataSize[m] /\ o + IntSize + (i + 1) - 1 = o + IntSize + i
      BY <1>1, <2>1, FrameSizeType
    <3>2. buf[At(first, o + IntSize + (i + 1) - 1)] = <<m, i + 1>>
      BY <3>1 DEF AtFrame, HoldsFrame, HoldsData
    <3> QED BY <2>1, <3>1, <3>2
  <2>5. Len(dest') = i + 1 /\ \A j \in 1 .. i + 1 : dest'[j] = <<m, j>>
    <3>1. \A j \in 1 .. i : dest[j] = <<m, j>>
      BY <2>1 DEF Copied
    <3> QED BY <1>1, <2>1, <2>3, <3>1 DEF Copied
  <2> QED BY <1>1, <1>2, <1>4, <2>1, <2>2, <2>5 DEF AtFrame, Copied
<1> QED BY <1>1, <1>3, <1>4

\* A byte read is the next byte of the reader's frame.
LEMMA ReadByteStep ==
    ASSUME NEW S, NEW first, NEW L, State(S, first, L), ReadByte
    PROVE  Layout(S, first, L)'
<1>1. /\ S \in SUBSET Nat /\ first \in Cell /\ L \in 0 .. Size - 1
      /\ S \subseteq 0 .. L /\ 0 \in S
      /\ Frames(S, first, L) /\ TypeInvariant
      /\ RemoveLayout(S, first, L) /\ TopLayout(S, first, L)
      /\ call \in {"buffer_remove_Q", "buffer_top_message"}
      /\ part \in {"header", "data"} /\ tail # head
  BY DEF State, Layout, Frames, ReadByte, Reading
<1>2. UNCHANGED <<head, avilSize, buf, call, part, peek>>
  BY DEF ReadByte
<1>3. Frames(S, first, L)'
  BY <1>1, <1>2, FramesKept
<1>4. CASE call = "buffer_remove_Q"
  <2>1. \E m \in Message : AtFrame(S, first, 0, m)'
    BY <1>1, <1>4, AtFrameReadByte DEF RemoveLayout
  <2>2. RemoveLayout(S, first, L)'
    BY <1>1, <1>2, <1>4, <2>1 DEF RemoveLayout
  <2> QED BY <1>2, <1>3, <1>4, <2>2 DEF Layout, IdleLayout, AddLayout, TopLayout
<1>5. CASE call = "buffer_top_message"
  <2>1. PICK o \in S \ {L}, m \in Message : AtFrame(S, first, o, m)
    BY <1>1, <1>5 DEF TopLayout
  <2>2. AtFrame(S, first, o, m)'
    BY <1>1, <1>5, <2>1, AtFrameReadByte
  <2>3. TopLayout(S, first, L)'
    BY <1>1, <1>2, <1>5, <2>1, <2>2 DEF TopLayout, peek
  <2> QED BY <1>2, <1>3, <1>5, <2>3 DEF Layout, IdleLayout, AddLayout, RemoveLayout
<1> QED BY <1>1, <1>4, <1>5

\* A whole header decodes to the length that was written.
LEMMA HeaderDecoded ==
    ASSUME NEW m \in Message, dest \in Seq(Byte), Copied(DataSize[m], IntSize)
    PROVE  Decoded = {DataSize[m]}
<1>1. dest = IntBytes(DataSize[m])
  <2>1. dest \in [1 .. IntSize -> Byte]
    BY LenProperties DEF Copied
  <2> QED BY <2>1 DEF Copied, IntBytes
<1>2. dest # <<>> /\ dest[1] = <<DataSize[m], 1>>
  BY DEF Copied
<1>3. \A n \in DataSizes : dest = IntBytes(n) => n = DataSize[m]
  <2> SUFFICES ASSUME NEW n \in DataSizes, dest = IntBytes(n)
               PROVE  n = DataSize[m]
    OBVIOUS
  <2>1. dest[1] = <<n, 1>>
    BY DEF IntBytes
  <2> QED BY <2>1, <1>2
<1>4. DataSize[m] \in DataSizes
  BY DEF DataSizes
<1>5. {n \in DataSizes : dest = IntBytes(n)} = {DataSize[m]}
  BY <1>1, <1>3, <1>4
<1> QED BY <1>2, <1>5 DEF Decoded

\* A complete copy of a frame's data is that message's data.
LEMMA DataCopied ==
    ASSUME NEW m \in Message, dest \in Seq(Byte), Copied(m, DataSize[m])
    PROVE  dest = DataBytes(m) /\ dest # <<>>
<1>1. dest \in [1 .. DataSize[m] -> Byte]
  BY LenProperties DEF Copied
<1>2. dest = DataBytes(m)
  BY <1>1 DEF Copied, DataBytes
<1> QED BY <1>2, FrameSizeType DEF Copied

\* A frame lies as far behind any cell before it as the offsets say.
LEMMA HoldsShift ==
    ASSUME NEW first \in Cell, NEW n \in Nat, NEW p \in Nat, NEW m \in Message,
           n + p + FrameSize(m) <= Size - 1, HoldsFrame(first, n + p, m)
    PROVE  HoldsFrame(At(first, n), p, m)
<1>1. \A k \in 1 .. FrameSize(m) :
         At(At(first, n), p + k - 1) = At(first, (n + p) + k - 1)
  <2> SUFFICES ASSUME NEW k \in 1 .. FrameSize(m)
               PROVE  At(At(first, n), p + k - 1) = At(first, (n + p) + k - 1)
    OBVIOUS
  <2>1. /\ n \in 0 .. Size - 1 /\ p + k - 1 \in 0 .. Size - 1
        /\ n + (p + k - 1) < Size /\ n + (p + k - 1) = (n + p) + k - 1
    BY FrameSizeType
  <2> QED BY <2>1, AtAt
<1>2. HoldsHeader(At(first, n), p, m, IntSize)
  <2>1. \A j \in 1 .. IntSize : j \in 1 .. FrameSize(m)
    BY FrameSizeType
  <2> QED BY <1>1, <2>1 DEF HoldsFrame, HoldsHeader
<1>3. HoldsData(At(first, n), p, m, DataSize[m])
  <2> SUFFICES ASSUME NEW j \in 1 .. DataSize[m]
               PROVE  buf[At(At(first, n), p + IntSize + j - 1)] = <<m, j>>
    BY DEF HoldsData
  <2>1. /\ IntSize + j \in 1 .. FrameSize(m)
        /\ p + (IntSize + j) - 1 = p + IntSize + j - 1
        /\ (n + p) + (IntSize + j) - 1 = (n + p) + IntSize + j - 1
    BY FrameSizeType
  <2>2. buf[At(first, (n + p) + IntSize + j - 1)] = <<m, j>>
    BY DEF HoldsFrame, HoldsData
  <2> QED BY <1>1, <2>1, <2>2
<1> QED BY <1>2, <1>3 DEF HoldsFrame

\* Without its first n bytes, which end a frame, the rest is still frames.
LEMMA FramesShift ==
    ASSUME NEW S \in SUBSET Nat, NEW first \in Cell, NEW L \in 0 .. Size - 1,
           Frames(S, first, L), NEW n \in S,
           NEW T, T = {p \in 0 .. L - n : n + p \in S}
    PROVE  Frames(T, At(first, n), L - n)
<1>1. n \in 0 .. L /\ S \subseteq 0 .. L /\ L \in S
  BY DEF Frames
<1>2. T \subseteq 0 .. L - n /\ 0 \in T /\ L - n \in T
  <2>1. L - n \in 0 .. L - n /\ n + (L - n) = L /\ 0 \in 0 .. L - n /\ n + 0 = n
    BY <1>1
  <2> QED BY <1>1, <2>1
<1>3. ASSUME NEW p \in T \ {L - n}
      PROVE  \E m \in Message : /\ HoldsFrame(At(first, n), p, m)
                                /\ p + FrameSize(m) \in T
  <2>1. p \in Nat /\ n + p \in S \ {L}
    BY <1>1, <1>3
  <2>2. PICK m \in Message : HoldsFrame(first, n + p, m)
                             /\ (n + p) + FrameSize(m) \in S
    BY <2>1 DEF Frames
  <2>3. n + p + FrameSize(m) \in 0 .. L
    BY <1>1, <2>2
  <2>4. p + FrameSize(m) \in T
    <3>1. n + (p + FrameSize(m)) = (n + p) + FrameSize(m)
          /\ p + FrameSize(m) \in 0 .. L - n
      BY <1>1, <2>1, <2>3, FrameSizeType
    <3> QED BY <3>1, <2>2
  <2>5. HoldsFrame(At(first, n), p, m)
    <3>1. n \in Nat /\ n + p + FrameSize(m) <= Size - 1
      BY <1>1, <2>1, <2>3, FrameSizeType
    <3> QED BY <2>1, <2>2, <3>1, HoldsShift
  <2> QED BY <2>4, <2>5
<1> QED BY <1>2, <1>3 DEF Frames

\* What fifo_read does to the layout when it returns.
LEMMA HeaderReturn ==
    ASSUME NEW S \in SUBSET Nat, NEW first \in Cell, NEW L \in 0 .. Size - 1,
           NEW o \in S, NEW m \in Message, TypeInvariant,
           AtFrame(S, first, o, m), part = "header", ~ (i < nbytes),
           ReadReturn
    PROVE  /\ AtFrame(S, first, o, m)'
           /\ part' = "data" /\ avilSize' = avilSize + IntSize
           /\ UNCHANGED <<head, tail, buf, call, TAIL, HEAD, data>>
           /\ move_bytes' = move_bytes + IntSize
<1>1. nbytes = IntSize /\ i = IntSize /\ Copied(DataSize[m], IntSize)
  BY DEF AtFrame, nbytes, TypeInvariant
<1>2. /\ avilSize' = avilSize + IntSize /\ AfterRead(IntSize)
      /\ UNCHANGED <<head, tail, buf>>
  BY <1>1 DEF ReadReturn
<1>3. Decoded = {DataSize[m]}
  BY <1>1, HeaderDecoded DEF TypeInvariant
<1>4. /\ i' = 0 /\ dest' = <<>> /\ part' = "data" /\ actual_data_size' = DataSize[m]
      /\ move_bytes' = move_bytes + IntSize
      /\ UNCHANGED <<call, TAIL, HEAD, data>>
  BY <1>2, <1>3 DEF AfterRead
<1>5. HoldsFrame(first, o, m)' /\ o + FrameSize(m) \in S
  BY <1>2, HoldsKept DEF AtFrame
<1>6. tail' = At(first, o + IntSize + 0)
  BY <1>1, <1>2 DEF AtFrame
<1> QED BY <1>2, <1>4, <1>5, <1>6, FrameSizeType DEF AtFrame, Copied

\* What a finished read leaves with the caller is a whole message.
LEMMA DataReturn ==
    ASSUME NEW S \in SUBSET Nat, NEW first \in Cell, NEW L \in 0 .. Size - 1,
           NEW o \in S, NEW m \in Message, TypeInvariant,
           call # "buffer_add_Q",
           AtFrame(S, first, o, m), part = "data", ~ (i < nbytes),
           ReadReturn
    PROVE  /\ tail = At(first, o + FrameSize(m))
           /\ data' = DataBytes(m)
           /\ avilSize' = avilSize + DataSize[m]
           /\ AfterRead(DataSize[m]) /\ UNCHANGED <<head, tail, buf>>
<1>1. nbytes = DataSize[m] /\ i = DataSize[m] /\ Copied(m, DataSize[m])
  BY FrameSizeType DEF AtFrame, nbytes, TypeInvariant
<1>2. /\ avilSize' = avilSize + DataSize[m] /\ AfterRead(DataSize[m])
      /\ UNCHANGED <<head, tail, buf>>
  BY <1>1 DEF ReadReturn
<1>3. data' = DataBytes(m)
  BY <1>1, <1>2, DataCopied DEF AfterRead, TypeInvariant
<1>4. o + IntSize + i = o + FrameSize(m)
  BY <1>1, FrameSizeType
<1> QED BY <1>2, <1>3, <1>4 DEF AtFrame

\* buffer_remove_Q moves from the header to the data, then drops the frame.
LEMMA RemoveReturnStep ==
    ASSUME NEW S, NEW first, NEW L, State(S, first, L), DataWhole,
           ReadReturn, call = "buffer_remove_Q"
    PROVE  /\ DataWhole'
           /\ \E T \in SUBSET Nat, f \in Cell, K \in 0 .. Size - 1 : Layout(T, f, K)'
<1>1. /\ S \in SUBSET Nat /\ first \in Cell /\ L \in 0 .. Size - 1
      /\ S \subseteq 0 .. L /\ 0 \in S /\ Frames(S, first, L) /\ TypeInvariant
      /\ head = At(first, L)
      /\ avilSize = Size - L + (IF part = "data" THEN IntSize ELSE 0)
      /\ part \in {"header", "data"}
  BY DEF State, Layout, Frames, RemoveLayout, ReadReturn, Reading
<1>2. PICK m \in Message : AtFrame(S, first, 0, m)
  BY DEF State, Layout, RemoveLayout
<1>3. i < nbytes => tail # head
  BY <1>1, <1>2, MoreToRead
<1>4. ~ (i < nbytes)
  BY <1>3 DEF ReadReturn
<1>5. CASE part = "header"
  <2>1. /\ AtFrame(S, first, 0, m)' /\ part' = "data" /\ avilSize' = avilSize + IntSize
        /\ UNCHANGED <<head, tail, buf, call, data>>
    BY <1>1, <1>2, <1>4, <1>5, HeaderReturn
  <2>2. Frames(S, first, L)'
    BY <1>1, <2>1, FramesKept
  <2>3. RemoveLayout(S, first, L)'
    BY <1>1, <1>5, <2>1 DEF RemoveLayout
  <2>4. Layout(S, first, L)'
    BY <2>1, <2>2, <2>3 DEF Layout, IdleLayout, AddLayout, TopLayout
  <2> QED BY <1>1, <2>1, <2>4 DEF DataWhole, DataBytes
<1>6. CASE part = "data"
  <2> DEFINE n == FrameSize(m)
             T == {p \in 0 .. L - n : n + p \in S}
  <2>1. /\ tail = At(first, 0 + n) /\ data' = DataBytes(m)
        /\ avilSize' = avilSize + DataSize[m]
        /\ AfterRead(DataSize[m]) /\ UNCHANGED <<head, tail, buf>>
    BY <1>1, <1>2, <1>4, <1>6, DataReturn
  <2>2. n \in S /\ n \in 0 .. L
    <3>1. 0 + n \in S /\ 0 + n = n
      BY <1>2, FrameSizeType DEF AtFrame
    <3> QED BY <1>1, <3>1
  <2>3. /\ T \in SUBSET Nat /\ L - n \in 0 .. Size - 1
        /\ At(first, n) \in Cell
    BY <1>1, <2>2, AtCell
  <2>4. Frames(T, At(first, n), L - n)
    BY <1>1, <2>2, FramesShift
  <2>5. Frames(T, At(first, n), L - n)'
    BY <2>1, <2>4, FramesKept
  <2>6. call' = "none"
    BY <1>6, <2>1 DEF AfterRead, Return
  <2>7. /\ tail' = At(first, n) /\ head' = At(At(first, n), L - n)
        /\ avilSize' = Size - (L - n)
    <3>1. tail' = At(first, n)
      BY <2>1, FrameSizeType
    <3>2. At(At(first, n), L - n) = At(first, L)
      <4>1. /\ n \in 0 .. Size - 1 /\ L - n \in 0 .. Size - 1
            /\ n + (L - n) < Size /\ n + (L - n) = L
        BY <1>1, <2>2
      <4> QED BY <4>1, <1>1, AtAt
    <3>3. avilSize' = Size - (L - n)
      BY <1>1, <1>6, <2>1, <2>2, FrameSizeType
    <3> QED BY <1>1, <2>1, <3>1, <3>2, <3>3
  <2>8. Layout(T, At(first, n), L - n)'
    BY <2>5, <2>6, <2>7 DEF Layout, IdleLayout, AddLayout, RemoveLayout, TopLayout
  <2>9. DataWhole'
    BY <2>1 DEF DataWhole, DataBytes
  <2> QED BY <2>3, <2>8, <2>9
<1> QED BY <1>1, <1>5, <1>6

\* buffer_top_message moves from frame to frame, or finds the ring empty.
LEMMA TopReturnStep ==
    ASSUME NEW S, NEW first, NEW L, State(S, first, L), DataWhole,
           ReadReturn, call = "buffer_top_message"
    PROVE  DataWhole' /\ Layout(S, first, L)'
<1>1. /\ S \in SUBSET Nat /\ first \in Cell /\ L \in 0 .. Size - 1
      /\ S \subseteq 0 .. L /\ Frames(S, first, L) /\ TypeInvariant
      /\ TAIL = first /\ head = At(first, L) /\ HEAD = head
      /\ avilSize = Size - L + move_bytes
      /\ part \in {"header", "data"}
      /\ avilSize \in Int /\ move_bytes \in Int
  BY DEF State, Layout, Frames, TopLayout, ReadReturn, Reading, TypeInvariant
<1>2. UNCHANGED <<head, tail, buf>>
  BY DEF ReadReturn
<1>3. Frames(S, first, L)'
  BY <1>1, <1>2, FramesKept
<1>4. CASE i = 0 /\ dest = <<>> /\ tail = head
  <2>1. \E got \in Int : AfterRead(got) /\ avilSize' = avilSize + got
    <3>1. nbytes \in Int /\ i = 0
      BY <1>1, <1>4 DEF nbytes, TypeInvariant
    <3>2. CASE i < nbytes
      BY <1>1, <1>4, <3>2 DEF ReadReturn
    <3>3. CASE ~ (i < nbytes)
      BY <1>1, <3>1, <3>3 DEF ReadReturn
    <3> QED BY <3>2, <3>3
  <2>2. PICK got \in Int : AfterRead(got) /\ avilSize' = avilSize + got
    BY <2>1
  <2>3. /\ i' = 0 /\ dest' = <<>> /\ move_bytes' = move_bytes + got
        /\ UNCHANGED <<call, TAIL, HEAD, data>>
    BY <1>1, <1>4, <2>2 DEF AfterRead
  <2>4. avilSize' \in Int
    BY <1>1, <1>4 DEF ReadReturn, nbytes, TypeInvariant
  <2>5. avilSize' = Size - L + move_bytes'
    BY <1>1, <2>2, <2>3
  <2>6. TopLayout(S, first, L)'
    BY <1>1, <1>2, <1>4, <2>3, <2>5 DEF TopLayout
  <2>7. DataWhole'
    BY <2>3 DEF DataWhole, DataBytes
  <2> QED BY <1>3, <2>3, <2>6, <2>7 DEF Layout, IdleLayout, AddLayout, RemoveLayout
<1>5. CASE ~ (i = 0 /\ dest = <<>> /\ tail = head)
  <2>1. PICK o \in S \ {L}, m \in Message : AtFrame(S, first, o, m)
    <3>1. TopLayout(S, first, L) /\ part # "restore"
      BY <1>1 DEF State, Layout
    <3> QED BY <3>1, <1>5 DEF TopLayout
  <2>2. o \in Nat /\ i < nbytes => tail # head
    BY <1>1, <2>1, MoreToRead
  <2>3. ~ (i < nbytes)
    BY <1>1, <2>2 DEF ReadReturn
  <2>4. CASE part = "header"
    <3>1. /\ AtFrame(S, first, o, m)' /\ part' = "data"
          /\ avilSize' = avilSize + IntSize /\ move_bytes' = move_bytes + IntSize
          /\ UNCHANGED <<head, tail, buf, call, TAIL, HEAD, data>>
      BY <1>1, <2>1, <2>3, <2>4, HeaderReturn
    <3>2. TopLayout(S, first, L)'
      BY <1>1, <2>1, <3>1 DEF TopLayout
    <3>3. DataWhole'
      BY <3>1 DEF DataWhole, DataBytes
    <3> QED BY <1>3, <3>1, <3>2, <3>3 DEF Layout, IdleLayout, AddLayout, RemoveLayout
  <2>5. CASE part = "data"
    <3>1. /\ tail = At(first, o + FrameSize(m)) /\ data' = DataBytes(m)
          /\ avilSize' = avilSize + DataSize[m] /\ AfterRead(DataSize[m])
      BY <1>1, <2>1, <2>3, <2>5, DataReturn
    <3>2. /\ i' = 0 /\ dest' = <<>> /\ move_bytes' = move_bytes + DataSize[m]
          /\ part' \in {"header", "restore"} /\ UNCHANGED <<call, TAIL, HEAD>>
      BY <2>5, <3>1 DEF AfterRead
    <3>3. PICK q \in S : q = o + FrameSize(m)
      BY <2>1 DEF AtFrame
    <3>4. part' # "restore" =>
             \/ i' = 0 /\ dest' = <<>> /\ tail' = head'
             \/ \E p \in S \ {L} : \E r \in Message : AtFrame(S, first, p, r)'
      <4>1. CASE q = L
        BY <4>1, <1>1, <1>2, <3>1, <3>2, <3>3
      <4>2. CASE q # L
        <5>1. PICK r \in Message : HoldsFrame(first, q, r) /\ q + FrameSize(r) \in S
          BY <1>1, <4>2 DEF Frames
        <5>2. HoldsFrame(first, q, r)'
          BY <1>2, <5>1, HoldsKept
        <5>3. tail' = At(first, q + 0) /\ q + 0 = q
          BY <1>1, <1>2, <3>1, <3>3
        <5>4. part' = "header" => AtFrame(S, first, q, r)'
          BY <3>2, <5>1, <5>2, <5>3 DEF AtFrame, Copied
        <5> QED BY <3>2, <4>2, <5>4
      <4> QED BY <4>1, <4>2
    <3>5. TopLayout(S, first, L)'
      <4>1. TAIL' = first /\ head' = At(first, L) /\ HEAD' = head'
        BY <1>1, <1>2, <3>2
      <4>2. avilSize' = Size - L + move_bytes'
        BY <1>1, <3>1, <3>2, FrameSizeType
      <4> QED BY <3>4, <4>1, <4>2 DEF TopLayout
    <3>6. DataWhole'
      BY <3>1 DEF DataWhole, DataBytes
    <3> QED BY <1>3, <3>2, <3>5, <3>6 DEF Layout, IdleLayout, AddLayout, RemoveLayout
  <2> QED BY <1>1, <2>4, <2>5
<1> QED BY <1>4, <1>5

\* Putting tail and avilSize back undoes the peek.
LEMMA TopRestoreStep ==
    ASSUME NEW S, NEW first, NEW L, State(S, first, L), TopRestore
    PROVE  Layout(S, first, L)'
<1>1. /\ S \in SUBSET Nat /\ first \in Cell /\ L \in 0 .. Size - 1
      /\ TAIL = first /\ head = At(first, L) /\ HEAD = head /\ Frames(S, first, L)
      /\ avilSize = Size - L + move_bytes /\ move_bytes \in Int
  BY DEF State, Layout, TopLayout, TopRestore, TypeInvariant
<1>2. /\ call' = "none" /\ avilSize' = avilSize - move_bytes
      /\ tail' = TAIL /\ head' = HEAD /\ buf' = buf
  BY DEF TopRestore, Return
<1>3. Frames(S, first, L)'
  BY <1>1, <1>2, FramesKept
<1>4. avilSize' = Size - L
  BY <1>1, <1>2
<1> QED BY <1>1, <1>2, <1>3, <1>4
        DEF Layout, IdleLayout, AddLayout, RemoveLayout, TopLayout

-----------------------------------------------------------------------------
(* The theorems *)

\* A step that changes nothing.
LEMMA LayoutKept ==
    ASSUME NEW S, NEW first, NEW L, Layout(S, first, L),
           UNCHANGED <<head, tail, avilSize, buf, call, part, i, msg, index, round,
                       move_bytes, TAIL, HEAD, actual_data_size, dest, data, status>>
    PROVE  Layout(S, first, L)'
<1>1. Frames(S, first, L)'
  BY FramesKept DEF Layout
<1>2. IdleLayout(S, first, L)' /\ AddLayout(S, first, L)'
  BY DEF Layout, IdleLayout, AddLayout, HoldsHeader, HoldsData
<1>3. \A o, m : AtFrame(S, first, o, m) => AtFrame(S, first, o, m)'
  BY HoldsKept DEF AtFrame, Copied
<1>4. RemoveLayout(S, first, L)'
  BY <1>3 DEF Layout, RemoveLayout
<1>5. TopLayout(S, first, L)'
  BY <1>3 DEF Layout, TopLayout
<1> QED BY <1>1, <1>2, <1>4, <1>5 DEF Layout

\* The invariant holds after fifo_init.
LEMMA IInvInit == Init => IInv
<1> SUFFICES ASSUME Init PROVE IInv
  OBVIOUS
<1>1. TypeInvariant /\ Control /\ DataWhole
  BY TypeInit DEF Init, DataWhole
<1>2. 0 \in Cell /\ At(0, 0) = 0 /\ 0 \in 0 .. Size - 1 /\ {0} \in SUBSET Nat
  BY DEF Cell, At
<1>3. Frames({0}, 0, 0)
  BY DEF Frames
<1>4. Layout({0}, 0, 0)
  BY <1>2, <1>3 DEF Layout, IdleLayout, AddLayout, RemoveLayout, TopLayout, Init
<1> QED BY <1>1, <1>2, <1>4 DEF IInv

\* Every action keeps the invariant.
LEMMA IInvStep == IInv /\ [Next]_vars => IInv'
<1> SUFFICES ASSUME IInv, [Next]_vars PROVE IInv'
  OBVIOUS
<1>1. TypeInvariant' /\ Control'
  BY TypeStep DEF IInv
<1>2. PICK S \in SUBSET Nat, first \in Cell, L \in 0 .. Size - 1 : Layout(S, first, L)
  BY DEF IInv
<1>3. State(S, first, L) /\ DataWhole
  BY <1>2 DEF State, IInv
<1>4. UNCHANGED data \/ data' = <<>> => DataWhole'
  BY <1>3 DEF DataWhole, DataBytes
<1> DEFINE Kept == \E T \in SUBSET Nat, f \in Cell, K \in 0 .. Size - 1 : Layout(T, f, K)'
<1>5. ASSUME NEW m \in Message, AddCall(m) \/ AddError(m)
      PROVE  DataWhole' /\ Kept
  <2>1. Layout(S, first, L)'
    BY <1>3, <1>5, AddStart
  <2> QED BY <2>1, <1>4, <1>5 DEF AddCall, AddError
<1>6. ASSUME WriteByte PROVE DataWhole' /\ Kept
  <2>1. Layout(S, first, L)'
    BY <1>3, <1>6, WriteByteStep
  <2> QED BY <2>1, <1>4, <1>6 DEF WriteByte
<1>7. ASSUME WriteReturn PROVE DataWhole' /\ Kept
  <2>1. Kept
    BY <1>3, <1>7, WriteReturnStep
  <2> QED BY <2>1, <1>4, <1>7 DEF WriteReturn
<1>8. ASSUME RemoveCall \/ RemoveError \/ \E k \in 0 .. MaxIndex : TopCall(k)
      PROVE  DataWhole' /\ Kept
  <2>1. Layout(S, first, L)'
    BY <1>3, <1>8, ReadStart
  <2> QED BY <2>1, <1>4, <1>8 DEF RemoveCall, RemoveError, TopCall
<1>9. ASSUME ReadByte PROVE DataWhole' /\ Kept
  <2>1. Layout(S, first, L)'
    BY <1>3, <1>9, ReadByteStep
  <2> QED BY <2>1, <1>4, <1>9 DEF ReadByte
<1>10. ASSUME ReadReturn PROVE DataWhole' /\ Kept
  <2>1. CASE call = "buffer_remove_Q"
    BY <1>3, <1>10, <2>1, RemoveReturnStep
  <2>2. CASE call = "buffer_top_message"
    BY <1>3, <1>10, <2>2, TopReturnStep
  <2> QED BY <1>10, <2>1, <2>2 DEF ReadReturn, Reading
<1>11. ASSUME TopRestore PROVE DataWhole' /\ Kept
  <2>1. Layout(S, first, L)'
    BY <1>3, <1>11, TopRestoreStep
  <2> QED BY <2>1, <1>4, <1>11 DEF TopRestore
<1>12. ASSUME UNCHANGED vars PROVE DataWhole' /\ Kept
  <2>1. UNCHANGED <<head, tail, avilSize, buf, call, part, i, msg, index, round,
                    move_bytes, TAIL, HEAD, actual_data_size, dest, data, status>>
    BY <1>12 DEF vars, ring, peek
  <2>2. Layout(S, first, L)'
    BY <1>2, <2>1, LayoutKept
  <2> QED BY <2>1, <2>2, <1>4
<1>13. DataWhole' /\ Kept
  BY <1>5, <1>6, <1>7, <1>8, <1>9, <1>10, <1>11, <1>12 DEF Next
<1> QED BY <1>1, <1>13 DEF IInv, Cell

\* Whatever is stored, and however it wraps, the frames in the ring stay whole.
LEMMA Invariance == Spec => []IInv
BY IInvInit, IInvStep, PTL DEF Spec

\* Between calls avilSize agrees with head and tail and is never 0: head = tail
\* means empty, for every capacity and every mix of message lengths.
THEOREM AccountingCorrect == Spec => []Accounting
<1>1. IInv => Accounting
  <2> SUFFICES ASSUME IInv, call = "none" PROVE avilSize = Size - Used /\ avilSize >= 1
    BY DEF Accounting
  <2>1. PICK first \in Cell, L \in 0 .. Size - 1 :
           tail = first /\ head = At(first, L) /\ avilSize = Size - L
    BY DEF IInv, Layout, IdleLayout
  <2>2. Used = L
    BY <2>1 DEF Used, At, Cell
  <2> QED BY <2>1, <2>2
<1> QED BY <1>1, Invariance, PTL

\* fifo_write never stops short inside buffer_add_Q.
THEOREM WritesComplete == Spec => []NoTruncatedWrite
<1>1. IInv => NoTruncatedWrite
  <2> SUFFICES ASSUME IInv, call = "buffer_add_Q", i < nbytes PROVE ~ Full
    BY DEF NoTruncatedWrite
  <2>1. PICK S \in SUBSET Nat, first \in Cell, L \in 0 .. Size - 1 : State(S, first, L)
    BY DEF IInv, State
  <2> QED BY <2>1, WriteFinished
<1> QED BY <1>1, Invariance, PTL

\* fifo_read never stops short inside buffer_remove_Q.
THEOREM RemovesComplete == Spec => []NoShortRemove
<1>1. IInv => NoShortRemove
  <2> SUFFICES ASSUME IInv, call = "buffer_remove_Q", i < nbytes PROVE tail # head
    BY DEF NoShortRemove
  <2>1. PICK S \in SUBSET Nat, first \in Cell, L \in 0 .. Size - 1 : Layout(S, first, L)
    BY DEF IInv
  <2>2. /\ head = At(first, L) /\ S \subseteq 0 .. L
        /\ \E m \in Message : AtFrame(S, first, 0, m)
    BY <2>1 DEF Layout, RemoveLayout, Frames
  <2>3. part \in {"header", "data"} /\ TypeInvariant
    BY DEF IInv, Control
  <2> QED BY <2>1, <2>2, <2>3, MoreToRead
<1> QED BY <1>1, Invariance, PTL

\* What a remove or a peek hands to its caller is the data of one message.
THEOREM MessagesWhole == Spec => []WholeMessage
<1>1. IInv => WholeMessage
  BY DEF IInv, DataWhole, WholeMessage
<1> QED BY <1>1, Invariance, PTL

-----------------------------------------------------------------------------
(* The queue of messages: offsets.  Offsets(q) is a recursive function; these *)
(* lemmas say what it is for every queue.                                     *)

\* A nonempty set of natural numbers has a least element, < being well founded.
LEMMA LeastNatural ==
    ASSUME NEW S \in SUBSET Nat, S # {}
    PROVE  \E m \in S : \A k \in S : m <= k
<1> DEFINE Less == OpToRel(<, Nat)
<1>1. IsWellFoundedOn(Less, Nat)
  BY NatLessThanWellFounded, Zenon
<1>2. \A k, m \in Nat : k < m => <<k, m>> \in Less
  BY DEF OpToRel
<1> HIDE DEF Less
<1>3. PICK m \in S : \A k \in S : ~ (<<k, m>> \in Less)
  BY <1>1, WFMin
<1>4. \A k \in S : ~ (k < m)
  BY <1>2, <1>3
<1> QED BY <1>4

\* f[k] bytes hold the frames of the first k of n messages of q.
AddsUp(q, n, f) ==
    f[0] = 0 /\ \A k \in 1 .. n : f[k] = f[k - 1] + FrameSize(q[k])

Sums(q, n, f) == f \in [0 .. n -> Nat] /\ AddsUp(q, n, f)

\* Such sums exist for every queue: a first length without them has none before.
LEMMA SumsExist ==
    ASSUME NEW q \in Seq(Message), NEW n \in 0 .. Len(q)
    PROVE  \E f : Sums(q, n, f)
<1> DEFINE D == {k \in 0 .. Len(q) : ~ \E f : Sums(q, k, f)}
<1>1. Len(q) \in Nat /\ \A k \in 1 .. Len(q) : q[k] \in Message
  BY LenProperties, ElementOfSeq
<1>2. CASE D = {}
  BY <1>2
<1>3. CASE D # {}
  <2>1. D \in SUBSET Nat
    BY <1>1
  <2>2. PICK k \in D : \A j \in D : k <= j
    BY <2>1, <1>3, LeastNatural
  <2>3. k \in 0 .. Len(q) /\ ~ \E f : Sums(q, k, f)
    BY <2>2
  <2>4. CASE k = 0
    <3>1. Sums(q, 0, [j \in 0 .. 0 |-> 0])
      BY DEF Sums, AddsUp
    <3> QED BY <3>1, <2>3, <2>4
  <2>5. CASE k # 0
    <3>1. k \in Nat /\ k - 1 \in 0 .. Len(q) /\ ~ (k <= k - 1) /\ k \in 1 .. Len(q)
      BY <2>3, <2>5, <1>1
    <3>2. PICK f : Sums(q, k - 1, f)
      BY <3>1, <2>2
    <3> DEFINE g == [j \in 0 .. k |-> IF j = k THEN f[k - 1] + FrameSize(q[k]) ELSE f[j]]
    <3>3. FrameSize(q[k]) \in Nat
      BY <3>1, <1>1, FrameSizeType
    <3>4. f \in [0 .. k - 1 -> Nat] /\ f[0] = 0
          /\ \A j \in 1 .. k - 1 : f[j] = f[j - 1] + FrameSize(q[j])
      BY <3>2 DEF Sums, AddsUp
    <3>5. g \in [0 .. k -> Nat] /\ g[0] = 0
      BY <3>1, <3>3, <3>4
    <3>6. ASSUME NEW j \in 1 .. k PROVE g[j] = g[j - 1] + FrameSize(q[j])
      <4>1. CASE j = k
        <5>1. k - 1 \in 0 .. k /\ k - 1 # k /\ k \in 0 .. k
          BY <3>1
        <5>2. g[k] = f[k - 1] + FrameSize(q[k]) /\ g[k - 1] = f[k - 1]
          BY <5>1
        <5> QED BY <5>2, <4>1
      <4>2. CASE j # k
        <5>1. j \in 0 .. k /\ j - 1 \in 0 .. k /\ j - 1 # k /\ j \in 1 .. k - 1
          BY <3>1, <4>2
        <5>2. g[j] = f[j] /\ g[j - 1] = f[j - 1]
          BY <5>1, <4>2
        <5> QED BY <5>1, <5>2, <3>4
      <4> QED BY <4>1, <4>2
    <3> HIDE DEF g
    <3>7. Sums(q, k, g)
      BY <3>5, <3>6 DEF Sums, AddsUp
    <3> QED BY <3>7, <2>3
  <2> QED BY <2>4, <2>5
<1> QED BY <1>2, <1>3

\* Two sums of the same sizes are equal, for a first difference has none before.
LEMMA SameSums ==
    ASSUME NEW q, NEW n \in Nat, NEW f, NEW g, AddsUp(q, n, f), AddsUp(q, n, g)
    PROVE  \A k \in 0 .. n : f[k] = g[k]
<1> DEFINE D == {k \in 0 .. n : f[k] # g[k]}
<1>0. f[0] = g[0]
  BY DEF AddsUp
<1>1. CASE D = {}
  BY <1>1
<1>2. CASE D # {}
  <2>1. D \in SUBSET Nat
    OBVIOUS
  <2>2. PICK m \in D : \A k \in D : m <= k
    BY <2>1, <1>2, LeastNatural
  <2>3. m \in 0 .. n /\ f[m] # g[m]
    BY <2>2
  <2>4. m \in 1 .. n /\ m - 1 \in 0 .. n /\ ~ (m <= m - 1)
    BY <2>3, <1>0
  <2>5. f[m - 1] = g[m - 1]
    BY <2>4, <2>2
  <2>6. /\ f[m] = f[m - 1] + FrameSize(q[m])
        /\ g[m] = g[m - 1] + FrameSize(q[m])
    BY <2>4 DEF AddsUp
  <2> QED BY <2>3, <2>5, <2>6
<1> QED BY <1>1, <1>2

\* Sums solve the equation that defines Offsets, and only they do.
LEMMA OffsetsAre ==
    ASSUME NEW q \in Seq(Message), NEW f, Sums(q, Len(q), f)
    PROVE  Offsets(q) = f
<1> DEFINE Solves(g) == g = [k \in 0 .. Len(q) |->
                               IF k = 0 THEN 0 ELSE g[k - 1] + FrameSize(q[k])]
           h == [k \in 0 .. Len(q) |-> IF k = 0 THEN 0 ELSE f[k - 1] + FrameSize(q[k])]
<1>1. Offsets(q) = CHOOSE g : Solves(g)
  BY DEF Offsets
<1>2. Len(q) \in Nat
  BY LenProperties
<1>3. f \in [0 .. Len(q) -> Nat] /\ f[0] = 0
      /\ \A k \in 1 .. Len(q) : f[k] = f[k - 1] + FrameSize(q[k])
  BY DEF Sums, AddsUp
<1>4. Solves(f)
  <2>1. ASSUME NEW k \in 0 .. Len(q) PROVE f[k] = h[k]
    <3>1. CASE k = 0
      BY <3>1, <1>3
    <3>2. CASE k # 0
      <4>1. k \in 1 .. Len(q)
        BY <3>2, <1>2
      <4> QED BY <3>2, <4>1, <1>3
    <3> QED BY <3>1, <3>2
  <2> QED BY <2>1, <1>3
<1>5. Solves(CHOOSE g : Solves(g))
  BY <1>4
<1>6. PICK g : g = Offsets(q)
  OBVIOUS
<1>7. Solves(g)
  BY <1>1, <1>5, <1>6
<1>8. AddsUp(q, Len(q), g)
  <2>1. 0 \in 0 .. Len(q) /\ \A k \in 1 .. Len(q) : k \in 0 .. Len(q) /\ k # 0
    BY <1>2
  <2> QED BY <2>1, <1>7 DEF AddsUp
<1>9. \A k \in 0 .. Len(q) : f[k] = g[k]
  <2>1. AddsUp(q, Len(q), f)
    BY DEF Sums
  <2> HIDE DEF Solves
  <2> QED BY <2>1, <1>2, <1>8, SameSums
<1>10. g \in [0 .. Len(q) -> Nat]
  <2>1. g = [k \in 0 .. Len(q) |-> g[k]]
    BY <1>7
  <2> HIDE DEF Solves
  <2> QED BY <2>1, <1>3, <1>9
<1> QED BY <1>3, <1>6, <1>9, <1>10

\* So Offsets(q) is the sums of q.
LEMMA OffsetsSums ==
    ASSUME NEW q \in Seq(Message)
    PROVE  Sums(q, Len(q), Offsets(q))
<1>1. Len(q) \in 0 .. Len(q)
  BY LenProperties
<1>2. PICK f : Sums(q, Len(q), f)
  BY <1>1, SumsExist
<1> QED BY <1>2, OffsetsAre

\* Each further message takes at least a header and one byte.
LEMMA OffsetsGrow ==
    ASSUME NEW q \in Seq(Message)
    PROVE  /\ \A j, k \in 0 .. Len(q) : j < k => Offsets(q)[j] < Offsets(q)[k]
           /\ \A k \in 0 .. Len(q) : k * (IntSize + 1) <= Offsets(q)[k]
<1> DEFINE D == {k \in 0 .. Len(q) : \E j \in 0 .. Len(q) :
                     j < k /\ ~ (Offsets(q)[j] < Offsets(q)[k])}
           E == {k \in 0 .. Len(q) : ~ (k * (IntSize + 1) <= Offsets(q)[k])}
<1> PICK used : used = Offsets(q)
  OBVIOUS
<1>1. /\ Len(q) \in Nat /\ used \in [0 .. Len(q) -> Nat] /\ used[0] = 0
      /\ \A k \in 1 .. Len(q) : used[k] = used[k - 1] + FrameSize(q[k])
  BY LenProperties, OffsetsSums DEF Sums, AddsUp
<1>2. \A k \in 1 .. Len(q) :
         FrameSize(q[k]) \in Nat /\ FrameSize(q[k]) >= IntSize + 1
  BY ElementOfSeq, FrameSizeType
<1>3. ASSUME NEW k \in 0 .. Len(q), k # 0
      PROVE  k \in 1 .. Len(q) /\ k - 1 \in 0 .. Len(q) /\ ~ (k <= k - 1)
  BY <1>1, <1>3
<1>4. ASSUME NEW j \in 0 .. Len(q), NEW k \in 0 .. Len(q), j < k
      PROVE  used[j] < used[k]
  <2>1. SUFFICES ASSUME D # {} PROVE FALSE
    BY <1>4
  <2>2. D \in SUBSET Nat
    BY <1>1
  <2>3. PICK b \in D : \A l \in D : b <= l
    BY <2>1, <2>2, LeastNatural
  <2>4. PICK a \in 0 .. Len(q) : a < b /\ ~ (used[a] < used[b])
    BY <2>3
  <2>5. b \in 0 .. Len(q) /\ b # 0 /\ a \in Nat /\ b \in Nat
    BY <2>3, <2>4
  <2>6. b \in 1 .. Len(q) /\ b - 1 \in 0 .. Len(q) /\ ~ (b <= b - 1)
    BY <2>5, <1>3
  <2>7. b - 1 \notin D
    BY <2>3, <2>6
  <2>8. used[a] <= used[b - 1]
    <3>1. used[a] \in Nat /\ used[b - 1] \in Nat
      BY <2>4, <2>6, <1>1
    <3>2. a < b - 1 => used[a] < used[b - 1]
      BY <2>4, <2>6, <2>7
    <3>3. a = b - 1 \/ a < b - 1
      BY <2>4, <2>5
    <3> QED BY <3>1, <3>2, <3>3
  <2>9. used[b] = used[b - 1] + FrameSize(q[b]) /\ FrameSize(q[b]) > 0
        /\ FrameSize(q[b]) \in Nat
    BY <2>6, <1>1, <1>2
  <2>10. used[b - 1] \in Nat /\ used[a] \in Nat
    BY <2>6, <2>4, <1>1
  <2> QED BY <2>4, <2>8, <2>9, <2>10
<1>5. ASSUME NEW k \in 0 .. Len(q) PROVE k * (IntSize + 1) <= used[k]
  <2>1. SUFFICES ASSUME E # {} PROVE FALSE
    BY <1>5
  <2>2. E \in SUBSET Nat
    BY <1>1
  <2>3. PICK b \in E : \A l \in E : b <= l
    BY <2>1, <2>2, LeastNatural
  <2>4. b \in 0 .. Len(q) /\ ~ (b * (IntSize + 1) <= used[b]) /\ b \in Nat
    BY <2>3
  <2>5. b # 0
    <3>1. 0 * (IntSize + 1) <= used[0]
      BY <1>1
    <3> QED BY <3>1, <2>4
  <2>6. b \in 1 .. Len(q) /\ b - 1 \in 0 .. Len(q) /\ ~ (b <= b - 1)
    BY <2>4, <2>5, <1>3
  <2>7. (b - 1) * (IntSize + 1) <= used[b - 1]
    BY <2>3, <2>6
  <2>8. used[b] = used[b - 1] + FrameSize(q[b]) /\ FrameSize(q[b]) >= IntSize + 1
        /\ FrameSize(q[b]) \in Nat /\ used[b - 1] \in Nat
    BY <2>6, <1>1, <1>2
  <2>9. b * (IntSize + 1) = (b - 1) * (IntSize + 1) + (IntSize + 1)
    BY <2>4
  <2>10. (b - 1) * (IntSize + 1) \in Int /\ IntSize + 1 \in Int
    BY <2>4
  <2> HIDE DEF E
  <2>11. PICK x \in Int : x = (b - 1) * (IntSize + 1)
    BY <2>10
  <2>12. x <= used[b - 1] /\ ~ (x + (IntSize + 1) <= used[b])
    BY <2>4, <2>7, <2>9, <2>11
  <2> QED BY <2>8, <2>12
<1> QED BY <1>4, <1>5

\* A message added takes its bytes after all the others.
LEMMA OffsetsAppend ==
    ASSUME NEW q \in Seq(Message), NEW m \in Message
    PROVE  /\ \A k \in 0 .. Len(q) : Offsets(Append(q, m))[k] = Offsets(q)[k]
           /\ Offsets(Append(q, m))[Len(q) + 1] = Offsets(q)[Len(q)] + FrameSize(m)
<1> PICK n \in Nat : n = Len(q)
  BY LenProperties
<1> PICK used : used = Offsets(q)
  OBVIOUS
<1> DEFINE u == [k \in 0 .. n + 1 |-> IF k <= n THEN used[k] ELSE used[n] + FrameSize(m)]
<1>1. /\ Len(Append(q, m)) = n + 1 /\ Append(q, m) \in Seq(Message)
      /\ (\A k \in 1 .. n : Append(q, m)[k] = q[k]) /\ Append(q, m)[n + 1] = m
  BY AppendProperties
<1>2. /\ used \in [0 .. n -> Nat] /\ used[0] = 0
      /\ \A k \in 1 .. n : used[k] = used[k - 1] + FrameSize(q[k])
  BY OffsetsSums DEF Sums, AddsUp
<1>3. FrameSize(m) \in Nat
  BY FrameSizeType
<1>4. u \in [0 .. n + 1 -> Nat] /\ u[0] = 0
  <2>1. used[n] + FrameSize(m) \in Nat
    <3>1. n \in 0 .. n
      OBVIOUS
    <3>2. used[n] \in Nat
      BY <3>1, <1>2
    <3> QED BY <3>2, <1>3
  <2>2. \A k \in 0 .. n + 1 : k <= n => used[k] \in Nat
    <3>1. \A k \in 0 .. n + 1 : k <= n => k \in 0 .. n
      OBVIOUS
    <3>2. \A k \in 0 .. n : used[k] \in Nat
      BY <1>2
    <3> QED BY <3>1, <3>2
  <2>3. \A k \in 0 .. n + 1 :
           (IF k <= n THEN used[k] ELSE used[n] + FrameSize(m)) \in Nat
    BY <2>1, <2>2
  <2>4. 0 \in 0 .. n + 1 /\ 0 <= n
    OBVIOUS
  <2> QED BY <2>3, <2>4, <1>2
<1>5. ASSUME NEW k \in 1 .. n + 1
      PROVE  u[k] = u[k - 1] + FrameSize(Append(q, m)[k])
  <2>1. CASE k <= n
    <3>1. k \in 1 .. n /\ k - 1 \in 0 .. n
      BY <2>1
    <3>2. u[k] = used[k] /\ u[k - 1] = used[k - 1]
      BY <3>1
    <3> QED BY <3>1, <3>2, <1>1, <1>2
  <2>2. CASE k = n + 1
    <3>1. n \in 0 .. n + 1 /\ n + 1 \in 0 .. n + 1 /\ ~ (n + 1 <= n) /\ n + 1 - 1 = n
      OBVIOUS
    <3>2. u[n + 1] = used[n] + FrameSize(m) /\ u[n] = used[n]
      BY <3>1
    <3> QED BY <3>1, <3>2, <2>2, <1>1
  <2> QED BY <2>1, <2>2
<1>6. (\A k \in 0 .. n : u[k] = used[k]) /\ u[n + 1] = used[n] + FrameSize(m)
  OBVIOUS
<1> HIDE DEF u
<1>7. Sums(Append(q, m), n + 1, u)
  BY <1>4, <1>5 DEF Sums, AddsUp
<1>8. Offsets(Append(q, m)) = u
  BY <1>1, <1>7, OffsetsAre
<1> QED BY <1>6, <1>8

\* A first message removed gives its bytes back; the others move up.
LEMMA OffsetsTail ==
    ASSUME NEW q \in Seq(Message), q # <<>>
    PROVE  \A k \in 0 .. Len(q) - 1 :
              Offsets(Tail(q))[k] = Offsets(q)[k + 1] - FrameSize(Head(q))
<1> PICK n \in Nat : n = Len(q)
  BY LenProperties
<1> PICK used : used = Offsets(q)
  OBVIOUS
<1> PICK s : s = FrameSize(Head(q))
  OBVIOUS
<1> DEFINE u == [k \in 0 .. n - 1 |-> used[k + 1] - s]
<1>1. /\ n > 0 /\ Len(Tail(q)) = n - 1 /\ Tail(q) \in Seq(Message)
      /\ (\A k \in 1 .. n - 1 : Tail(q)[k] = q[k + 1]) /\ Head(q) = q[1]
      /\ Head(q) \in Message
  BY HeadTailProperties, EmptySeq, LenProperties
<1>2. /\ used \in [0 .. n -> Nat] /\ used[0] = 0
      /\ \A k \in 1 .. n : used[k] = used[k - 1] + FrameSize(q[k])
  BY OffsetsSums DEF Sums, AddsUp
<1>3. s \in Nat
  BY <1>1, FrameSizeType
<1>4. used[1] = s
  <2>1. 1 \in 1 .. n /\ 1 - 1 = 0
    BY <1>1
  <2>2. used[1] = used[0] + FrameSize(q[1])
    BY <2>1, <1>2
  <2> QED BY <2>2, <1>1, <1>2, <1>3
<1>5. ASSUME NEW k \in 0 .. n - 1 PROVE used[k + 1] \in Nat /\ used[k + 1] >= s
  <2>1. 1 \in 0 .. n /\ k + 1 \in 0 .. n /\ (k + 1 = 1 \/ 1 < k + 1)
    BY <1>1
  <2>2. used[k + 1] \in Nat
    BY <2>1, <1>2
  <2>3. 1 < k + 1 => used[1] < used[k + 1]
    BY <2>1, OffsetsGrow
  <2> QED BY <2>1, <2>2, <2>3, <1>3, <1>4
<1>6. u \in [0 .. n - 1 -> Nat]
  <2>1. \A k \in 0 .. n - 1 : used[k + 1] - s \in Nat
    BY <1>3, <1>5
  <2> QED BY <2>1
<1>7. u[0] = 0
  <2>1. 0 \in 0 .. n - 1 /\ 0 + 1 = 1
    BY <1>1
  <2>2. u[0] = used[1] - s
    BY <2>1
  <2> QED BY <2>2, <1>3, <1>4
<1>8. ASSUME NEW k \in 1 .. n - 1 PROVE u[k] = u[k - 1] + FrameSize(Tail(q)[k])
  <2>1. k \in 0 .. n - 1 /\ k - 1 \in 0 .. n - 1 /\ k - 1 + 1 = k /\ k + 1 \in 1 .. n
        /\ k + 1 - 1 = k
    BY <1>1
  <2>2. u[k] = used[k + 1] - s /\ u[k - 1] = used[k] - s
    BY <2>1
  <2>3. used[k + 1] = used[k] + FrameSize(q[k + 1]) /\ Tail(q)[k] = q[k + 1]
    BY <2>1, <1>1, <1>2
  <2>4. used[k] \in Nat /\ FrameSize(q[k + 1]) \in Nat
    <3>1. k \in 0 .. n /\ q[k + 1] \in Message
      BY <2>1, ElementOfSeq
    <3> QED BY <3>1, <1>2, FrameSizeType
  <2> HIDE DEF u
  <2> QED BY <2>2, <2>3, <2>4, <1>3
<1>9. \A k \in 0 .. n - 1 : u[k] = used[k + 1] - s
  OBVIOUS
<1> HIDE DEF u
<1>10. Sums(Tail(q), n - 1, u)
  BY <1>6, <1>7, <1>8 DEF Sums, AddsUp
<1>11. Offsets(Tail(q)) = u
  BY <1>1, <1>10, OffsetsAre
<1> QED BY <1>9, <1>11

\* What the abstract queue counts is the sum of its frames.
LEMMA BytesAgree ==
    ASSUME NEW q \in Seq(Message)
    PROVE  Q!Bytes(q) = Offsets(q)[Len(q)]
<1> DEFINE Solves(g) == g = [k \in 0 .. Len(q) |->
                               IF k = 0 THEN 0 ELSE g[k - 1] + FrameSize(q[k])]
<1>1. Offsets(q) = CHOOSE g : Solves(g)
  BY DEF Offsets
<1>2. Q!Bytes(q) = (CHOOSE g : Solves(g))[Len(q)]
  BY DEF Q!Bytes, Q!Cost, FrameSize
<1> HIDE DEF Solves
<1> QED BY <1>1, <1>2

-----------------------------------------------------------------------------
(* The queue of messages: what a state of the ring stands for *)

\* A frame says which message it holds.
LEMMA FrameUnique ==
    ASSUME NEW first, NEW o \in Nat, NEW m \in Message, NEW r \in Message,
           HoldsFrame(first, o, m), HoldsFrame(first, o, r)
    PROVE  m = r
<1>1. 1 \in 1 .. DataSize[m] /\ 1 \in 1 .. DataSize[r]
  BY FrameSizeType
<1>2. /\ buf[At(first, o + IntSize + 1 - 1)] = <<m, 1>>
      /\ buf[At(first, o + IntSize + 1 - 1)] = <<r, 1>>
  BY <1>1 DEF HoldsFrame, HoldsData
<1> QED BY <1>2

\* As far as two queues reach, the same bytes hold the same messages.
LEMMA SameFrames ==
    ASSUME NEW p \in Seq(Message), NEW q \in Seq(Message), NEW first, NEW n,
           Laid(p, first, n), Laid(q, first, n)
    PROVE  \A k \in 0 .. Len(p) : k <= Len(q) =>
              Offsets(p)[k] = Offsets(q)[k] /\ (k > 0 => p[k] = q[k])
<1> DEFINE Same(k) == Offsets(p)[k] = Offsets(q)[k] /\ (k > 0 => p[k] = q[k])
           D == {k \in 0 .. Len(p) : k <= Len(q) /\ ~ Same(k)}
<1>1. Len(p) \in Nat /\ Len(q) \in Nat
  BY LenProperties
<1>2. /\ Offsets(p)[0] = 0 /\ Offsets(p) \in [0 .. Len(p) -> Nat]
      /\ \A k \in 1 .. Len(p) : Offsets(p)[k] = Offsets(p)[k - 1] + FrameSize(p[k])
      /\ Offsets(q)[0] = 0
      /\ \A k \in 1 .. Len(q) : Offsets(q)[k] = Offsets(q)[k - 1] + FrameSize(q[k])
  BY OffsetsSums DEF Sums, AddsUp
<1>3. SUFFICES ASSUME D # {} PROVE FALSE
  OBVIOUS
<1>4. D \in SUBSET Nat
  BY <1>1
<1>5. PICK k \in D : \A j \in D : k <= j
  BY <1>3, <1>4, LeastNatural
<1>6. k \in 0 .. Len(p) /\ k <= Len(q) /\ ~ Same(k)
  BY <1>5
<1>7. k # 0
  BY <1>2, <1>6
<1>8. /\ k \in 1 .. Len(p) /\ k \in 1 .. Len(q) /\ k - 1 \in 0 .. Len(p)
      /\ k - 1 <= Len(q) /\ ~ (k <= k - 1) /\ k > 0
  BY <1>1, <1>6, <1>7
<1>9. Same(k - 1)
  BY <1>5, <1>8
<1>10. Offsets(p)[k - 1] = Offsets(q)[k - 1] /\ Offsets(p)[k - 1] \in Nat
  BY <1>9, <1>8, <1>2
<1>11. /\ HoldsFrame(first, Offsets(p)[k - 1], p[k])
       /\ HoldsFrame(first, Offsets(q)[k - 1], q[k])
       /\ p[k] \in Message /\ q[k] \in Message
  BY <1>8, ElementOfSeq DEF Laid
<1>12. p[k] = q[k]
  BY <1>10, <1>11, FrameUnique
<1>13. Offsets(p)[k] = Offsets(q)[k]
  BY <1>2, <1>8, <1>10, <1>12
<1> QED BY <1>6, <1>12, <1>13

\* A shorter queue would leave bytes over.
LEMMA NotLonger ==
    ASSUME NEW p \in Seq(Message), NEW q \in Seq(Message), NEW first, NEW n,
           Laid(p, first, n), Laid(q, first, n)
    PROVE  Len(q) <= Len(p)
<1>1. Len(p) \in Nat /\ Len(q) \in Nat
  BY LenProperties
<1>2. SUFFICES ASSUME Len(p) < Len(q) PROVE FALSE
  BY <1>1
<1>3. Len(p) \in 0 .. Len(p) /\ Len(p) \in 0 .. Len(q) /\ Len(q) \in 0 .. Len(q)
      /\ Len(p) <= Len(q)
  BY <1>1, <1>2
<1>4. Offsets(p)[Len(p)] = Offsets(q)[Len(p)]
  BY <1>3, SameFrames
<1>5. Offsets(q)[Len(p)] < Offsets(q)[Len(q)]
  BY <1>2, <1>3, OffsetsGrow
<1>6. Offsets(q)[Len(q)] \in Nat
  BY <1>3, OffsetsSums DEF Sums
<1> QED BY <1>4, <1>5, <1>6 DEF Laid

\* The bytes of the ring hold one queue.
LEMMA LaidUnique ==
    ASSUME NEW p \in Seq(Message), NEW q \in Seq(Message), NEW first, NEW n,
           Laid(p, first, n), Laid(q, first, n)
    PROVE  p = q
<1>1. Len(p) \in Nat /\ Len(q) \in Nat /\ Len(p) <= Len(q) /\ Len(q) <= Len(p)
  BY LenProperties, NotLonger
<1>2. Len(p) = Len(q)
  BY <1>1
<1>3. ASSUME NEW k \in 1 .. Len(p) PROVE p[k] = q[k]
  <2>1. k \in 0 .. Len(p) /\ k <= Len(q) /\ k > 0
    BY <1>1, <1>2
  <2> QED BY <2>1, SameFrames
<1> QED BY <1>2, <1>3, SeqEqual

\* Going back undoes going on.
LEMMA BackAt ==
    ASSUME NEW c \in Cell, NEW k \in 0 .. Size - 1, NEW j \in 0 .. k
    PROVE  Back(At(c, k), j) = At(c, k - j)
BY DEF Back, At, Cell

\* The bytes from a cell to the cell L bytes on are L.
LEMMA Between ==
    ASSUME NEW c \in Cell, NEW L \in 0 .. Size - 1, NEW e, e = At(c, L)
    PROVE  (IF e >= c THEN e - c ELSE e - c + Size) = L
BY DEF At, Cell

\* The layout says where the running call started.
StartsRight == \A S, first, L : State(S, first, L) => start = first /\ Held = L

LEMMA Where == StartsRight
<1> SUFFICES ASSUME NEW S, NEW first, NEW L, State(S, first, L)
             PROVE  start = first /\ Held = L
  BY DEF StartsRight
<1>1. /\ first \in Cell /\ L \in 0 .. Size - 1 /\ S \subseteq 0 .. L /\ i \in Nat
      /\ IdleLayout(S, first, L) /\ AddLayout(S, first, L)
      /\ RemoveLayout(S, first, L) /\ TopLayout(S, first, L)
      /\ call \in {"none", "buffer_add_Q", "buffer_remove_Q", "buffer_top_message"}
  BY DEF State, Layout, Frames, TypeInvariant
<1>2. SUFFICES start = first /\ end = At(first, L)
  BY <1>1, Between DEF Held
<1>3. CASE call \in {"none", "buffer_top_message"}
  BY <1>1, <1>3 DEF start, end, IdleLayout, TopLayout
<1>4. CASE call = "buffer_add_Q"
  <2>1. /\ msg \in Message /\ part \in {"header", "data"}
        /\ tail = first /\ L + FrameSize(msg) < Size
    BY <1>1, <1>4 DEF AddLayout, State, Control
  <2>2. moved \in Nat /\ L + moved < Size /\ head = At(first, L + moved)
    <3>1. CASE part = "header"
      BY <1>1, <1>4, <2>1, <3>1, FrameSizeType DEF AddLayout, moved
    <3>2. CASE part = "data"
      <4>1. i <= DataSize[msg] /\ head = At(first, L + IntSize + i)
        BY <1>1, <1>4, <3>2 DEF AddLayout
      <4>2. moved = i + IntSize /\ L + moved = L + IntSize + i
        BY <1>1, <3>2 DEF moved
      <4> QED BY <1>1, <2>1, <4>1, <4>2, FrameSizeType
    <3> QED BY <2>1, <3>1, <3>2
  <2>3. L + moved \in 0 .. Size - 1 /\ moved \in 0 .. L + moved /\ L + moved - moved = L
    BY <1>1, <2>2
  <2>4. Back(head, moved) = At(first, L)
    BY <1>1, <2>2, <2>3, BackAt
  <2> QED BY <1>4, <2>1, <2>4 DEF start, end
<1>5. CASE call = "buffer_remove_Q"
  <2>1. /\ head = At(first, L) /\ part \in {"header", "data"}
        /\ \E m \in Message : AtFrame(S, first, 0, m)
    BY <1>1, <1>5 DEF RemoveLayout, State, Control
  <2>2. PICK m \in Message : AtFrame(S, first, 0, m)
    BY <2>1
  <2>3. 0 + FrameSize(m) \in 0 .. L
    BY <1>1, <2>2 DEF AtFrame
  <2>4. moved \in 0 .. Size - 1 /\ tail = At(first, moved)
    <3>1. CASE part = "header"
      BY <1>1, <2>2, <2>3, <3>1, FrameSizeType DEF AtFrame, moved
    <3>2. CASE part = "data"
      <4>1. i <= DataSize[m] /\ tail = At(first, 0 + IntSize + i)
        BY <2>2, <3>2 DEF AtFrame
      <4>2. moved = i + IntSize /\ moved = 0 + IntSize + i
        BY <1>1, <3>2 DEF moved
      <4> QED BY <1>1, <2>3, <4>1, <4>2, FrameSizeType
    <3> QED BY <2>1, <3>1, <3>2
  <2>5. moved \in 0 .. moved /\ moved - moved = 0
    BY <2>4
  <2>6. Back(tail, moved) = first
    BY <1>1, <2>4, <2>5, BackAt, AtZero
  <2> QED BY <1>5, <2>1, <2>6 DEF start, end
<1> QED BY <1>1, <1>3, <1>4, <1>5

\* What a peek that has read k messages of q has left with its caller: the last
\* of them, or nothing.
Shown(q, k) ==
    IF k = 0 \/ q = <<>> THEN <<>>
    ELSE DataBytes(q[IF k <= Len(q) THEN k ELSE Len(q)])

\* A peek that has read k messages of q stands in the next one, or at the end.
PeekAt(q, first, L, k) ==
    IF k < Len(q) THEN AtFrame(0 .. L, first, Offsets(q)[k], q[k + 1])
    ELSE i = 0 /\ dest = <<>> /\ tail = head

\* A peek reads message after message, and past the last one nothing.
Peeking(q, first, L) ==
    call = "buffer_top_message" =>
       \E k \in Nat :
          /\ round = k /\ data = Shown(q, k)
          /\ part = "restore" => k = index
          /\ part # "restore" => k < index /\ PeekAt(q, first, L, k)

\* The ring holds the messages of q, whatever call is running.
InRing(q) ==
    \E S \in SUBSET Nat, first \in Cell, L \in 0 .. Size - 1 :
       Layout(S, first, L) /\ Laid(q, first, L) /\ Peeking(q, first, L)

QueueInv ==
    /\ TypeInvariant /\ Control /\ DataWhole
    /\ \E q \in Seq(Message) : InRing(q)

\* Then q is what the refinement mapping finds there.
StoredRight ==
    \A q \in Seq(Message) : TypeInvariant /\ Control /\ InRing(q) => Stored = q

LEMMA StoredIs == StoredRight
<1> SUFFICES ASSUME NEW q \in Seq(Message), TypeInvariant, Control, InRing(q)
             PROVE  Stored = q
  BY DEF StoredRight
<1>1. PICK S \in SUBSET Nat, first \in Cell, L \in 0 .. Size - 1 :
         Layout(S, first, L) /\ Laid(q, first, L)
  BY DEF InRing
<1>2. start = first /\ Held = L
  BY <1>1, Where DEF State, StartsRight
<1>3. q \in Queues(L)
  <2>1. Len(q) \in Nat /\ Len(q) \in 0 .. Len(q) /\ q \in [1 .. Len(q) -> Message]
    BY LenProperties
  <2>2. Len(q) * (IntSize + 1) <= L
    BY <1>1, <2>1, OffsetsGrow DEF Laid
  <2>3. Len(q) <= Len(q) * (IntSize + 1)
    <3>1. \A k, n \in Nat : k <= k * (n + 1)
      OBVIOUS
    <3> QED BY <2>1, <3>1
  <2>4. Len(q) * (IntSize + 1) \in Nat
    BY <2>1
  <2>5. Len(q) \in 0 .. L
    BY <2>1, <2>2, <2>3, <2>4
  <2> QED BY <2>1, <2>2, <2>5 DEF Queues
<1>4. Queues(L) \subseteq Seq(Message)
  <2>1. \A k \in Nat : [1 .. k -> Message] \subseteq Seq(Message)
    BY SeqDef
  <2> QED BY <2>1 DEF Queues
<1>5. {p \in Queues(L) : Laid(p, first, L)} = {q}
  BY <1>1, <1>3, <1>4, LaidUnique
<1> QED BY <1>2, <1>5 DEF Stored

LEMMA StoredNext == StoredRight'
BY StoredIs, PTL

\* Every offset of a queue laid out is a number, and the next one a frame on.
LEMMA LaidOffsets ==
    ASSUME NEW q \in Seq(Message), NEW first, NEW L \in 0 .. Size - 1,
           Laid(q, first, L)
    PROVE  /\ Len(q) \in Nat /\ Offsets(q)[0] = 0 /\ Offsets(q)[Len(q)] = L
           /\ \A k \in 1 .. Len(q) :
                 /\ q[k] \in Message /\ Offsets(q)[k - 1] \in Nat
                 /\ Offsets(q)[k] = Offsets(q)[k - 1] + FrameSize(q[k])
                 /\ Offsets(q)[k] <= L /\ Offsets(q)[k] \in Nat
                 /\ HoldsFrame(first, Offsets(q)[k - 1], q[k])
<1>1. /\ Len(q) \in Nat /\ Offsets(q) \in [0 .. Len(q) -> Nat] /\ Offsets(q)[0] = 0
      /\ \A k \in 1 .. Len(q) : Offsets(q)[k] = Offsets(q)[k - 1] + FrameSize(q[k])
  BY LenProperties, OffsetsSums DEF Sums, AddsUp
<1>2. /\ Offsets(q)[Len(q)] = L
      /\ \A k \in 1 .. Len(q) : HoldsFrame(first, Offsets(q)[k - 1], q[k])
  BY DEF Laid
<1>3. ASSUME NEW k \in 1 .. Len(q)
      PROVE  /\ q[k] \in Message /\ Offsets(q)[k - 1] \in Nat
             /\ Offsets(q)[k] <= L /\ Offsets(q)[k] \in Nat
  <2>1. k \in 0 .. Len(q) /\ k - 1 \in 0 .. Len(q) /\ Len(q) \in 0 .. Len(q)
        /\ (k = Len(q) \/ k < Len(q))
    BY <1>1
  <2>2. Offsets(q)[k - 1] \in Nat /\ Offsets(q)[k] \in Nat
    BY <2>1, <1>1
  <2>3. k < Len(q) => Offsets(q)[k] < Offsets(q)[Len(q)]
    BY <2>1, OffsetsGrow
  <2> QED BY <2>1, <2>2, <2>3, <1>2, ElementOfSeq
<1> QED BY <1>1, <1>2, <1>3

\* A frame stays while its bytes do.
LEMMA HoldsBelow ==
    ASSUME NEW first, NEW L \in Nat, NEW o \in Nat, NEW m \in Message,
           o + FrameSize(m) <= L, HoldsFrame(first, o, m),
           \A k \in 0 .. L - 1 : buf'[At(first, k)] = buf[At(first, k)]
    PROVE  HoldsFrame(first, o, m)'
<1>1. ASSUME NEW j \in 1 .. IntSize
      PROVE  buf'[At(first, o + j - 1)] = <<DataSize[m], j>>
  <2>1. o + j - 1 \in 0 .. L - 1
    BY FrameSizeType
  <2> QED BY <2>1 DEF HoldsFrame, HoldsHeader
<1>2. ASSUME NEW j \in 1 .. DataSize[m]
      PROVE  buf'[At(first, o + IntSize + j - 1)] = <<m, j>>
  <2>1. o + IntSize + j - 1 \in 0 .. L - 1
    BY FrameSizeType
  <2> QED BY <2>1 DEF HoldsFrame, HoldsData
<1> QED BY <1>1, <1>2 DEF HoldsFrame, HoldsHeader, HoldsData

\* A queue stays while the bytes of its frames do.
LEMMA LaidBelow ==
    ASSUME NEW q \in Seq(Message), NEW first, NEW L \in 0 .. Size - 1,
           Laid(q, first, L),
           \A k \in 0 .. L - 1 : buf'[At(first, k)] = buf[At(first, k)]
    PROVE  Laid(q, first, L)'
<1>1. ASSUME NEW k \in 1 .. Len(q)
      PROVE  HoldsFrame(first, Offsets(q)[k - 1], q[k])'
  <2>1. PICK o \in Nat, m \in Message : o = Offsets(q)[k - 1] /\ m = q[k]
    BY LaidOffsets
  <2>2. o + FrameSize(m) <= L /\ HoldsFrame(first, o, m)
    BY <2>1, LaidOffsets
  <2>3. HoldsFrame(first, o, m)'
    BY <2>2, HoldsBelow
  <2> QED BY <2>1, <2>3
<1>2. \A k \in 1 .. Len(q) : HoldsFrame(first, Offsets(q)[k - 1], q[k])'
  BY <1>1
<1>3. Offsets(q)[Len(q)] = L
  BY DEF Laid
<1> QED BY <1>2, <1>3 DEF Laid

\* So it stays while the whole ring does.
LEMMA LaidKept ==
    ASSUME NEW q \in Seq(Message), NEW first, NEW L \in 0 .. Size - 1,
           Laid(q, first, L), UNCHANGED buf
    PROVE  Laid(q, first, L)'
BY LaidBelow

\* The frame written after the last one adds its message.
LEMMA LaidAppend ==
    ASSUME NEW q \in Seq(Message), NEW first, NEW L \in 0 .. Size - 1,
           Laid(q, first, L), NEW m \in Message, HoldsFrame(first, L, m)
    PROVE  Laid(Append(q, m), first, L + FrameSize(m))
<1> PICK n \in Nat : n = Len(q)
  BY LenProperties
<1> PICK p : p = Append(q, m)
  OBVIOUS
<1>1. /\ Len(p) = n + 1 /\ (\A k \in 1 .. n : p[k] = q[k]) /\ p[n + 1] = m
  BY AppendProperties
<1>2. /\ \A k \in 0 .. n : Offsets(p)[k] = Offsets(q)[k]
      /\ Offsets(p)[n + 1] = Offsets(q)[n] + FrameSize(m) /\ Offsets(q)[n] = L
  BY OffsetsAppend DEF Laid
<1>3. ASSUME NEW k \in 1 .. n + 1 PROVE HoldsFrame(first, Offsets(p)[k - 1], p[k])
  <2>1. CASE k = n + 1
    <3>1. n \in 0 .. n /\ n + 1 - 1 = n
      OBVIOUS
    <3>2. Offsets(p)[k - 1] = L /\ p[k] = m
      BY <3>1, <2>1, <1>1, <1>2
    <3> QED BY <3>2
  <2>2. CASE k # n + 1
    <3>1. k \in 1 .. n /\ k - 1 \in 0 .. n
      BY <2>2
    <3>2. Offsets(p)[k - 1] = Offsets(q)[k - 1] /\ p[k] = q[k]
      BY <3>1, <1>1, <1>2
    <3> QED BY <3>1, <3>2 DEF Laid
  <2> QED BY <2>1, <2>2
<1> QED BY <1>1, <1>2, <1>3 DEF Laid

\* Without the first frame the queue starts at the second.
LEMMA LaidTail ==
    ASSUME NEW q \in Seq(Message), NEW first \in Cell, NEW L \in 0 .. Size - 1,
           Laid(q, first, L), q # <<>>, NEW s \in Nat, s = FrameSize(Head(q))
    PROVE  Laid(Tail(q), At(first, s), L - s)
<1> PICK n \in Nat : n = Len(q)
  BY LenProperties
<1> PICK p : p = Tail(q)
  OBVIOUS
<1>1. n > 0 /\ Len(p) = n - 1 /\ (\A k \in 1 .. n - 1 : p[k] = q[k + 1])
  BY HeadTailProperties, EmptySeq, LenProperties
<1>2. \A k \in 0 .. n - 1 : Offsets(p)[k] = Offsets(q)[k + 1] - s
  BY OffsetsTail
<1>3. Offsets(p)[n - 1] = L - s
  <2>1. n - 1 \in 0 .. n - 1 /\ n - 1 + 1 = n
    BY <1>1
  <2> QED BY <2>1, <1>2 DEF Laid
<1>4. ASSUME NEW k \in 1 .. n - 1
      PROVE  HoldsFrame(At(first, s), Offsets(p)[k - 1], p[k])
  <2>1. k \in 1 .. n /\ k + 1 \in 1 .. n /\ k - 1 \in 0 .. n - 1 /\ k - 1 + 1 = k
        /\ k + 1 - 1 = k /\ 1 \in 1 .. n /\ 1 - 1 = 0
    BY <1>1
  <2>2. PICK o \in Nat, m \in Message : o = Offsets(q)[k] /\ m = q[k + 1]
    BY <2>1, LaidOffsets
  <2>3. o + FrameSize(m) <= L /\ HoldsFrame(first, o, m)
    <3>1. PICK j \in 1 .. n : j = k + 1 /\ j - 1 = k
      BY <2>1
    <3>2. /\ Offsets(q)[j] = Offsets(q)[j - 1] + FrameSize(q[j])
          /\ Offsets(q)[j] <= L
          /\ HoldsFrame(first, Offsets(q)[j - 1], q[j])
      BY LaidOffsets
    <3> QED BY <3>1, <3>2, <2>2
  <2>4. s <= o
    <3>1. Offsets(q)[1] = Offsets(q)[0] + FrameSize(q[1]) /\ Offsets(q)[0] = 0
          /\ Head(q) = q[1]
      <4>1. Head(q) = q[1]
        BY HeadTailProperties
      <4>2. Offsets(q)[1] = Offsets(q)[1 - 1] + FrameSize(q[1]) /\ Offsets(q)[0] = 0
        BY <2>1, LaidOffsets
      <4> QED BY <4>1, <4>2, <2>1
    <3>2. Offsets(q)[1] = s
      BY <3>1
    <3>3. k = 1 \/ 1 < k
      BY <2>1
    <3>4. 1 < k => Offsets(q)[1] < Offsets(q)[k]
      <4>1. 1 \in 0 .. n /\ k \in 0 .. n
        BY <2>1
      <4> QED BY <4>1, OffsetsGrow
    <3> QED BY <3>2, <3>3, <3>4, <2>2
  <2>5. PICK r \in Nat : r = o - s /\ s + r = o
    BY <2>4
  <2>6. s + r + FrameSize(m) <= Size - 1 /\ HoldsFrame(first, s + r, m)
    <3>1. HoldsFrame(first, s + r, m)
      BY ONLY <2>3, <2>5
    <3>2. s + r + FrameSize(m) = o + FrameSize(m) /\ L <= Size - 1 /\ L \in Nat
          /\ FrameSize(m) \in Nat
      BY <2>5, FrameSizeType
    <3> QED BY <3>1, <3>2, <2>3
  <2>7. HoldsFrame(At(first, s), r, m)
    BY <2>6, HoldsShift
  <2>8. Offsets(p)[k - 1] = r /\ p[k] = m
    BY <1>1, <1>2, <2>1, <2>2, <2>5
  <2> QED BY <2>7, <2>8
<1> QED BY <1>1, <1>3, <1>4 DEF Laid

\* A queue of frames that is not empty starts with the frame at its first cell.
LEMMA LaidFirst ==
    ASSUME NEW q \in Seq(Message), NEW first, NEW L \in 0 .. Size - 1,
           Laid(q, first, L), NEW m \in Message, HoldsFrame(first, 0, m), L > 0
    PROVE  q # <<>> /\ Head(q) = m
<1>1. q # <<>>
  <2> SUFFICES ASSUME q = <<>> PROVE FALSE
    OBVIOUS
  <2>1. Len(q) = 0
    OBVIOUS
  <2>2. Offsets(q)[0] = 0 /\ Offsets(q)[Len(q)] = L
    BY LaidOffsets
  <2> QED BY <2>1, <2>2
<1>2. Head(q) = q[1] /\ 1 \in 1 .. Len(q) /\ 1 - 1 = 0
  BY <1>1, HeadTailProperties, EmptySeq, LenProperties
<1>3. q[1] \in Message /\ Offsets(q)[0] = 0 /\ HoldsFrame(first, Offsets(q)[0], q[1])
  BY <1>2, LaidOffsets
<1> QED BY <1>1, <1>2, <1>3, FrameUnique

\* An empty queue takes no bytes, and only an empty queue does.
LEMMA LaidEmpty ==
    ASSUME NEW q \in Seq(Message), NEW first, NEW L \in 0 .. Size - 1,
           Laid(q, first, L)
    PROVE  q = <<>> <=> L = 0
<1>1. CASE q = <<>>
  <2>1. Len(q) = 0
    BY <1>1
  <2> QED BY ZenonT(60), <1>1, <2>1, LaidOffsets
<1>2. CASE q # <<>>
  <2>1. 0 \in 0 .. Len(q) /\ Len(q) \in 0 .. Len(q) /\ 0 < Len(q)
    BY <1>2, EmptySeq, LenProperties
  <2>2. Offsets(q)[0] < Offsets(q)[Len(q)]
    BY <2>1, OffsetsGrow
  <2> QED BY <1>2, <2>2, LaidOffsets
<1> QED BY <1>1, <1>2

-----------------------------------------------------------------------------
(* The queue of messages: the steps of the ring *)

\* fifo_write writes behind the messages stored.
LEMMA WriteBehind ==
    ASSUME NEW S, NEW first, NEW L, State(S, first, L), WriteByte
    PROVE  \A k \in 0 .. L - 1 : buf'[At(first, k)] = buf[At(first, k)]
<1> DEFINE h == L + i + (IF part = "data" THEN IntSize ELSE 0)
           x == <<IF part = "header" THEN DataSize[msg] ELSE msg, i + 1>>
<1>1. /\ msg \in Message /\ part \in {"header", "data"} /\ i \in Nat
      /\ L \in 0 .. Size - 1 /\ first \in Cell
      /\ buf \in [Cell -> Byte] /\ AddLayout(S, first, L)
  BY DEF State, Control, WriteByte, Layout, AddLayout, TypeInvariant
<1>2. /\ L + FrameSize(msg) < Size /\ i < nbytes
      /\ part = "header" => nbytes = IntSize
      /\ part = "data" => nbytes = DataSize[msg]
  BY <1>1 DEF WriteByte, AddLayout, nbytes
<1>3. h \in 0 .. Size - 1 /\ head = At(first, h) /\ L <= h
  BY <1>1, <1>2, FrameSizeType DEF AddLayout, WriteByte
<1>4. buf' = [buf EXCEPT ![head] = x]
  BY DEF WriteByte
<1>5. \A k \in 0 .. L - 1 : k \in 0 .. Size - 1 /\ h # k
  BY <1>1, <1>3
<1> HIDE DEF h, x
<1> QED BY <1>1, <1>3, <1>4, <1>5, WriteElsewhere

\* Nothing that a call does before it returns changes the queue.
LEMMA RingWrites ==
    ASSUME TypeInvariant, Control, NEW q \in Seq(Message), InRing(q), WriteByte
    PROVE  InRing(q)'
<1>1. PICK S \in SUBSET Nat, first \in Cell, L \in 0 .. Size - 1 :
         Layout(S, first, L) /\ Laid(q, first, L)
  BY DEF InRing
<1>2. State(S, first, L)
  BY <1>1 DEF State
<1>3. Layout(S, first, L)'
  BY <1>2, WriteByteStep
<1>4. Laid(q, first, L)'
  BY <1>1, <1>2, WriteBehind, LaidBelow
<1>5. Peeking(q, first, L)'
  BY DEF WriteByte, Peeking
<1> QED BY <1>3, <1>4, <1>5 DEF InRing, Cell

\* The start of an add or a remove, and a call that is refused.
LEMMA RingStarts ==
    ASSUME TypeInvariant, Control, NEW q \in Seq(Message), InRing(q),
           \/ \E m \in Message : AddCall(m) \/ AddError(m)
           \/ RemoveCall \/ RemoveError
    PROVE  InRing(q)'
<1>1. PICK S \in SUBSET Nat, first \in Cell, L \in 0 .. Size - 1 :
         Layout(S, first, L) /\ Laid(q, first, L)
  BY DEF InRing
<1>2. State(S, first, L)
  BY <1>1 DEF State
<1>3. Layout(S, first, L)'
  BY <1>2, AddStart, ReadStart
<1>4. UNCHANGED buf /\ call' # "buffer_top_message"
  BY DEF AddCall, AddError, RemoveCall, RemoveError, ring
<1>5. Laid(q, first, L)' /\ Peeking(q, first, L)'
  BY <1>1, <1>4, LaidKept DEF Peeking
<1> QED BY <1>3, <1>5 DEF InRing, Cell

\* A peek starts at the first message, if there is one.
LEMMA PeekStarts ==
    ASSUME TypeInvariant, Control, NEW q \in Seq(Message), InRing(q),
           NEW k \in 0 .. MaxIndex, TopCall(k)
    PROVE  InRing(q)'
<1>1. PICK S \in SUBSET Nat, first \in Cell, L \in 0 .. Size - 1 :
         Layout(S, first, L) /\ Laid(q, first, L)
  BY DEF InRing
<1>2. State(S, first, L)
  BY <1>1 DEF State
<1>3. Layout(S, first, L)'
  BY <1>2, ReadStart
<1>4. /\ UNCHANGED <<buf, head, tail, dest>> /\ i' = 0 /\ index' = k /\ round' = 0
      /\ data' = <<>> /\ part' = (IF k > 0 THEN "header" ELSE "restore")
      /\ dest = <<>> /\ tail = first /\ head = At(first, L)
  BY <1>1 DEF TopCall, ring, Control, Layout, IdleLayout
<1>5. Laid(q, first, L)'
  BY <1>1, <1>4, LaidKept
<1>6. Len(q) \in Nat
  BY LenProperties
<1>7. 0 < Len(q) => AtFrame(0 .. L, first, Offsets(q)[0], q[1])'
  <2> SUFFICES ASSUME 0 < Len(q) PROVE AtFrame(0 .. L, first, Offsets(q)[0], q[1])'
    OBVIOUS
  <2>1. PICK m : m = q[1]
    OBVIOUS
  <2>2. 1 \in 1 .. Len(q) /\ 1 - 1 = 0
    BY <1>6
  <2>3. m \in Message /\ Offsets(q)[0] = 0 /\ HoldsFrame(first, 0, m)
        /\ Offsets(q)[1] = 0 + FrameSize(m) /\ Offsets(q)[1] <= L
        /\ Offsets(q)[1] \in Nat
    BY <1>1, <2>1, <2>2, LaidOffsets
  <2>4. HoldsFrame(first, 0, m)'
    BY <1>4, <2>3, HoldsKept
  <2>5. 0 + FrameSize(m) \in 0 .. L
    BY <2>3
  <2>6. tail' = At(first, 0 + i')
    BY <1>4, AtZero
  <2>7. Copied(DataSize[m], i)'
    BY <1>4 DEF Copied
  <2>8. AtFrame(0 .. L, first, 0, m)'
    BY <1>4, <2>4, <2>5, <2>6, <2>7 DEF AtFrame
  <2> QED BY <2>1, <2>3, <2>8
<1>8. ~ (0 < Len(q)) => tail' = head'
  <2> SUFFICES ASSUME Len(q) = 0 PROVE tail' = head'
    BY <1>6
  <2>1. L = 0
    BY <1>1, LaidOffsets
  <2> QED BY <1>4, <2>1, AtZero
<1>9. Peeking(q, first, L)'
  <2>1. data' = Shown(q, 0)
    BY <1>4 DEF Shown
  <2>2. PeekAt(q, first, L, 0)'
    <3>1. 0 + 1 = 1
      OBVIOUS
    <3> QED BY <1>4, <1>7, <1>8, <3>1 DEF PeekAt
  <2> QED BY <1>4, <2>1, <2>2 DEF Peeking, Shown
<1> QED BY <1>3, <1>5, <1>9 DEF InRing, Cell

\* What a peek knows at a message.
LEMMA PeekHere ==
    ASSUME NEW q \in Seq(Message), NEW first, NEW L \in 0 .. Size - 1,
           Laid(q, first, L), NEW k \in Nat, k < Len(q)
    PROVE  \E o \in 0 .. L, m \in Message :
              /\ o = Offsets(q)[k] /\ m = q[k + 1] /\ o \in Nat
              /\ Offsets(q)[k + 1] = o + FrameSize(m) /\ o + FrameSize(m) <= L
              /\ HoldsFrame(first, o, m)
<1>1. PICK j \in 1 .. Len(q) : j = k + 1 /\ j - 1 = k
  BY LenProperties
<1>2. /\ q[j] \in Message /\ Offsets(q)[j - 1] \in Nat
      /\ Offsets(q)[j] = Offsets(q)[j - 1] + FrameSize(q[j])
      /\ Offsets(q)[j] <= L /\ HoldsFrame(first, Offsets(q)[j - 1], q[j])
  BY LaidOffsets
<1>3. PICK o \in Nat, m \in Message : o = Offsets(q)[k] /\ m = q[k + 1]
  BY <1>1, <1>2
<1>4. /\ Offsets(q)[k + 1] = o + FrameSize(m) /\ o + FrameSize(m) <= L
      /\ HoldsFrame(first, o, m)
  BY <1>1, <1>2, <1>3
<1>5. o \in 0 .. L
  BY <1>4, FrameSizeType
<1> QED BY <1>3, <1>4, <1>5

\* A byte read leaves the reader in its message.
LEMMA PeekReads ==
    ASSUME TypeInvariant, Control, NEW q \in Seq(Message), InRing(q), ReadByte
    PROVE  InRing(q)'
<1>1. PICK S \in SUBSET Nat, first \in Cell, L \in 0 .. Size - 1 :
         Layout(S, first, L) /\ Laid(q, first, L) /\ Peeking(q, first, L)
  BY DEF InRing
<1>2. State(S, first, L)
  BY <1>1 DEF State
<1>3. Layout(S, first, L)'
  BY <1>2, ReadByteStep
<1>4. Laid(q, first, L)'
  BY <1>1, LaidKept DEF ReadByte
<1>5. UNCHANGED <<call, part, round, index, data>> /\ tail # head
      /\ part \in {"header", "data"}
  BY DEF ReadByte, Reading, peek
<1>6. CASE call = "buffer_top_message"
  <2>1. PICK k \in Nat : /\ round = k /\ data = Shown(q, k) /\ k < index
                         /\ PeekAt(q, first, L, k)
    BY <1>1, <1>5, <1>6 DEF Peeking
  <2>2. k < Len(q)
    BY <1>5, <2>1 DEF PeekAt
  <2>3. PICK o \in 0 .. L, m \in Message : o = Offsets(q)[k] /\ m = q[k + 1] /\ o \in Nat
    BY <1>1, <2>2, PeekHere
  <2>4. AtFrame(0 .. L, first, o, m)
    BY <2>1, <2>2, <2>3 DEF PeekAt
  <2>5. 0 .. L \in SUBSET Nat /\ 0 .. L \subseteq 0 .. L
    OBVIOUS
  <2>6. AtFrame(0 .. L, first, o, m)'
    BY <1>6, <2>3, <2>4, <2>5, AtFrameReadByte
  <2>7. PeekAt(q, first, L, k)'
    BY <2>2, <2>3, <2>6 DEF PeekAt
  <2>8. data' = Shown(q, k) /\ round' = k /\ k < index' /\ part' # "restore"
    BY <1>5, <2>1
  <2>9. Peeking(q, first, L)'
    BY <2>7, <2>8 DEF Peeking, Shown
  <2> QED BY <1>3, <1>4, <2>9 DEF InRing, Cell
<1>7. CASE call # "buffer_top_message"
  BY <1>3, <1>4, <1>5, <1>7 DEF InRing, Cell, Peeking
<1> QED BY <1>6, <1>7

\* A peek behind the last message reads nothing and goes on counting.
LEMMA PeekPast ==
    ASSUME NEW q \in Seq(Message), NEW first, NEW L, NEW k \in Nat,
           TypeInvariant, ReadReturn, call = "buffer_top_message",
           round = k, data = Shown(q, k), k < index,
           ~ (k < Len(q)), PeekAt(q, first, L, k)
    PROVE  Peeking(q, first, L)'
<1>1. i = 0 /\ dest = <<>> /\ tail = head /\ part \in {"header", "data"}
      /\ Len(q) \in Nat /\ index \in Nat
  BY LenProperties DEF PeekAt, ReadReturn, Reading, TypeInvariant
<1>2. PICK got \in Int : AfterRead(got)
  <2>1. nbytes \in Int
    BY <1>1 DEF nbytes, TypeInvariant
  <2> QED BY <1>1, <2>1 DEF ReadReturn
<1>3. UNCHANGED <<head, tail, index, call>> /\ i' = 0 /\ dest' = <<>> /\ data' = data
  BY <1>1, <1>2 DEF AfterRead, ReadReturn
<1>4. CASE part = "header"
  <2>1. part' = "data" /\ round' = k
    BY <1>2, <1>4 DEF AfterRead
  <2>2. PeekAt(q, first, L, k)'
    BY <1>1, <1>3 DEF PeekAt
  <2>3. data' = Shown(q, k) /\ k < index'
    BY <1>3
  <2> QED BY <2>1, <2>2, <2>3 DEF Peeking, Shown
<1>5. CASE part = "data"
  <2>1. round' = k + 1 /\ part' = (IF k + 1 < index THEN "header" ELSE "restore")
    BY <1>2, <1>5 DEF AfterRead
  <2>2. ~ (k + 1 < Len(q)) /\ k + 1 \in Nat
    BY <1>1
  <2>3. PeekAt(q, first, L, k + 1)'
    BY <1>1, <1>3, <2>2 DEF PeekAt
  <2>4. Shown(q, k) = Shown(q, k + 1)
    <3>1. CASE q = <<>>
      BY <3>1 DEF Shown
    <3>2. CASE q # <<>>
      <4>1. Len(q) > 0
        BY <3>2, EmptySeq, LenProperties
      <4>2. /\ k # 0 /\ k + 1 # 0 /\ ~ (k + 1 <= Len(q))
            /\ (IF k <= Len(q) THEN k ELSE Len(q)) = Len(q)
        BY <1>1, <4>1
      <4> QED BY <3>2, <4>2 DEF Shown
    <3> QED BY <3>1, <3>2
  <2>5. data' = Shown(q, k + 1)
    BY <1>3, <2>4
  <2>6. /\ part' = "restore" => k + 1 = index'
        /\ part' # "restore" => k + 1 < index'
    BY <1>1, <1>3, <2>1
  <2> QED BY <2>1, <2>2, <2>3, <2>5, <2>6 DEF Peeking, Shown
<1> QED BY <1>1, <1>4, <1>5

\* A peek that has read a header goes on to the data, one that has read a message
\* to the next one.
LEMMA PeekInside ==
    ASSUME NEW q \in Seq(Message), NEW first \in Cell, NEW L \in 0 .. Size - 1,
           NEW k \in Nat, TypeInvariant, Laid(q, first, L), Laid(q, first, L)',
           head = At(first, L), ReadReturn, call = "buffer_top_message",
           round = k, data = Shown(q, k), k < index,
           k < Len(q), PeekAt(q, first, L, k)
    PROVE  Peeking(q, first, L)'
<1>1. PICK o \in 0 .. L, m \in Message :
         /\ o = Offsets(q)[k] /\ m = q[k + 1] /\ o \in Nat
         /\ Offsets(q)[k + 1] = o + FrameSize(m) /\ o + FrameSize(m) <= L
         /\ HoldsFrame(first, o, m)
  BY PeekHere
<1>2. AtFrame(0 .. L, first, o, m)
  BY <1>1 DEF PeekAt
<1>3. 0 .. L \in SUBSET Nat /\ 0 .. L \subseteq 0 .. L /\ part \in {"header", "data"}
      /\ call # "buffer_add_Q"
  BY DEF ReadReturn, Reading
<1>4. i < nbytes => tail # head
  BY <1>1, <1>2, <1>3, MoreToRead
<1>5. ~ (i < nbytes)
  BY <1>4 DEF ReadReturn
<1>6. CASE part = "header"
  <2>1. /\ AtFrame(0 .. L, first, o, m)' /\ part' = "data"
        /\ UNCHANGED <<call, data>>
    BY <1>1, <1>2, <1>3, <1>5, <1>6, HeaderReturn
  <2>2. round' = k /\ index' = index
    BY <1>3, <1>5, <1>6 DEF ReadReturn, AfterRead
  <2>3. PeekAt(q, first, L, k)'
    BY <1>1, <2>1 DEF PeekAt
  <2>4. data' = Shown(q, k)
    BY <2>1
  <2> QED BY <2>1, <2>2, <2>3, <2>4 DEF Peeking, Shown
<1>7. CASE part = "data"
  <2>1. /\ tail = At(first, o + FrameSize(m)) /\ data' = DataBytes(m)
        /\ AfterRead(DataSize[m]) /\ UNCHANGED <<head, tail, buf>>
    BY <1>1, <1>2, <1>3, <1>5, <1>7, DataReturn
  <2>2. /\ i' = 0 /\ dest' = <<>> /\ round' = k + 1 /\ UNCHANGED <<call, index>>
        /\ part' = (IF k + 1 < index THEN "header" ELSE "restore")
    BY <1>7, <2>1 DEF AfterRead
  <2>3. Len(q) \in Nat /\ index \in Nat /\ k + 1 \in Nat
    BY LenProperties DEF TypeInvariant
  <2>4. Shown(q, k + 1) = DataBytes(m)
    <3>1. k + 1 # 0 /\ k + 1 <= Len(q) /\ q # <<>>
      BY <2>3, EmptySeq
    <3> QED BY <1>1, <3>1 DEF Shown
  <2>5. /\ part' = "restore" => k + 1 = index'
        /\ part' # "restore" => k + 1 < index' /\ part' = "header"
    BY <2>2, <2>3
  <2>6. part' = "header" => PeekAt(q, first, L, k + 1)'
    <3>1. CASE k + 1 < Len(q)
      <4>1. PICK p \in 0 .. L, r \in Message :
               /\ p = Offsets(q)[k + 1] /\ r = q[k + 1 + 1] /\ p \in Nat
               /\ p + FrameSize(r) <= L /\ HoldsFrame(first, p, r)
        BY <2>3, <3>1, PeekHere
      <4>2. HoldsFrame(first, p, r)' /\ p + FrameSize(r) \in 0 .. L
        <5>1. HoldsFrame(first, p, r)'
          BY <2>1, <4>1, HoldsKept
        <5>2. p + FrameSize(r) \in 0 .. L
          <6>1. FrameSize(r) \in Nat
            BY FrameSizeType
          <6>2. p \in Nat /\ p + FrameSize(r) <= L
            BY <4>1
          <6> QED BY <6>1, <6>2
        <5> QED BY <5>1, <5>2
      <4>3. tail' = At(first, p + i')
        <5>1. p = o + FrameSize(m) /\ p + 0 = p
          BY <1>1, <4>1
        <5> QED BY <2>1, <2>2, <5>1
      <4>4. Copied(DataSize[r], i)'
        BY <2>2 DEF Copied
      <4>5. part' = "header" => AtFrame(0 .. L, first, p, r)'
        BY <2>2, <4>2, <4>3, <4>4 DEF AtFrame
      <4> QED BY <3>1, <4>1, <4>5 DEF PeekAt
    <3>2. CASE ~ (k + 1 < Len(q))
      <4>1. k + 1 = Len(q)
        BY <2>3, <3>2
      <4>2. o + FrameSize(m) = L
        BY <1>1, <4>1 DEF Laid
      <4>3. tail' = head'
        BY <2>1, <4>2
      <4> QED BY <2>2, <3>2, <4>3 DEF PeekAt
    <3> QED BY <3>1, <3>2
  <2>7. data' = Shown(q, k + 1)
    BY <2>1, <2>4
  <2> QED BY <2>2, <2>3, <2>5, <2>6, <2>7 DEF Peeking, Shown
<1> QED BY <1>3, <1>6, <1>7

\* The end of a fifo_read inside a peek.
LEMMA PeekReturns ==
    ASSUME TypeInvariant, Control, DataWhole, NEW q \in Seq(Message), InRing(q),
           ReadReturn, call = "buffer_top_message"
    PROVE  InRing(q)'
<1>1. PICK S \in SUBSET Nat, first \in Cell, L \in 0 .. Size - 1 :
         Layout(S, first, L) /\ Laid(q, first, L) /\ Peeking(q, first, L)
  BY DEF InRing
<1>2. State(S, first, L)
  BY <1>1 DEF State
<1>3. Layout(S, first, L)'
  BY <1>2, TopReturnStep
<1>4. Laid(q, first, L)'
  BY <1>1, LaidKept DEF ReadReturn
<1>5. part # "restore"
  BY DEF ReadReturn, Reading
<1>6. PICK k \in Nat : /\ round = k /\ data = Shown(q, k) /\ k < index
                       /\ PeekAt(q, first, L, k)
  BY <1>1, <1>5 DEF Peeking
<1>7. head = At(first, L)
  BY <1>1 DEF Layout, TopLayout
<1>8. Peeking(q, first, L)'
  BY <1>1, <1>4, <1>6, <1>7, PeekPast, PeekInside
<1> QED BY <1>3, <1>4, <1>8 DEF InRing, Cell

\* The peek puts back what it moved.
LEMMA PeekRestores ==
    ASSUME TypeInvariant, Control, NEW q \in Seq(Message), InRing(q), TopRestore
    PROVE  InRing(q)'
<1>1. PICK S \in SUBSET Nat, first \in Cell, L \in 0 .. Size - 1 :
         Layout(S, first, L) /\ Laid(q, first, L)
  BY DEF InRing
<1>2. State(S, first, L)
  BY <1>1 DEF State
<1>3. Layout(S, first, L)'
  BY <1>2, TopRestoreStep
<1>4. Laid(q, first, L)' /\ Peeking(q, first, L)'
  BY <1>1, LaidKept DEF TopRestore, Return, Peeking
<1> QED BY <1>3, <1>4 DEF InRing, Cell

\* fifo_write returns: buffer_add_Q goes on to the data, or its message is stored.
LEMMA AddReturns ==
    ASSUME TypeInvariant, Control, NEW q \in Seq(Message), InRing(q), WriteReturn,
           NEW m \in Message, m = msg
    PROVE  /\ part = "header" => InRing(q)'
           /\ part = "data" => InRing(Append(q, m))'
<1>1. PICK S \in SUBSET Nat, first \in Cell, L \in 0 .. Size - 1 :
         Layout(S, first, L) /\ Laid(q, first, L)
  BY DEF InRing
<1>2. State(S, first, L)
  BY <1>1 DEF State
<1>3. PICK T \in SUBSET Nat, K \in 0 .. Size - 1 : Layout(T, first, K)'
  BY <1>2, WriteReturnStep
<1>4. /\ msg \in Message /\ call = "buffer_add_Q" /\ i \in Nat
      /\ L + FrameSize(msg) < Size /\ AddLayout(S, first, L)
      /\ ~ (i < nbytes) /\ UNCHANGED <<head, tail, buf>>
  BY <1>1, <1>2, WriteFinished
     DEF WriteReturn, Control, Layout, AddLayout, TypeInvariant
<1>5. call' # "buffer_top_message"
  BY <1>4 DEF WriteReturn, AfterWrite, Return
<1>6. ASSUME part = "header" PROVE InRing(q)'
  <2>1. /\ call' = "buffer_add_Q" /\ part' = "data" /\ i' = 0 /\ msg' = msg
        /\ head' = At(first, L + IntSize)
    BY SMTT(30), <1>4, <1>6 DEF WriteReturn, AfterWrite, AddLayout, nbytes
  <2>2. K + FrameSize(msg) < Size /\ head' = At(first, K + IntSize + 0)
    BY <1>3, <2>1 DEF Layout, AddLayout
  <2>3. K = L
    <3>1. /\ L + IntSize \in 0 .. Size - 1 /\ K + IntSize + 0 \in 0 .. Size - 1
      BY <1>4, <2>2, FrameSizeType
    <3>2. L + IntSize = K + IntSize + 0
      BY <2>1, <2>2, <3>1, AtInjective
    <3> QED BY <3>2
  <2>4. Laid(q, first, L)'
    BY <1>1, <1>4, LaidKept
  <2> QED BY <1>3, <1>5, <2>3, <2>4 DEF InRing, Cell, Peeking
<1>7. ASSUME part = "data" PROVE InRing(Append(q, m))'
  <2>1. call' = "none" /\ i = DataSize[msg]
    BY <1>4, <1>7 DEF WriteReturn, AfterWrite, Return, AddLayout, nbytes
  <2>2. HoldsFrame(first, L, m) /\ head = At(first, L + IntSize + DataSize[m])
    BY <1>4, <1>7, <2>1 DEF AddLayout, HoldsFrame
  <2>3. head' = At(first, K)
    BY <1>3, <2>1 DEF Layout, IdleLayout
  <2>4. PICK n \in 0 .. Size - 1 : n = L + FrameSize(m) /\ n = L + IntSize + DataSize[m]
    BY <1>4, FrameSizeType
  <2>5. K = n
    BY <1>4, <2>2, <2>3, <2>4, AtInjective
  <2>6. Laid(Append(q, m), first, n)
    BY <1>1, <2>2, <2>4, LaidAppend
  <2>7. Append(q, m) \in Seq(Message)
    BY AppendProperties
  <2>8. Laid(Append(q, m), first, n)'
    BY <1>4, <2>6, <2>7, LaidKept
  <2>9. InRing(Append(q, m))'
    BY <1>3, <1>5, <2>5, <2>8 DEF InRing, Cell, Peeking
  <2> QED BY <2>9
<1> QED BY <1>6, <1>7

\* fifo_read returns: buffer_remove_Q goes on to the data, or its message, the
\* first, is gone and in the caller's hands.
LEMMA RemoveReturns ==
    ASSUME TypeInvariant, Control, DataWhole, NEW q \in Seq(Message), InRing(q),
           ReadReturn, call = "buffer_remove_Q"
    PROVE  /\ part = "header" => InRing(q)' /\ UNCHANGED <<call, status>>
           /\ part = "data" => /\ q # <<>> /\ InRing(Tail(q))'
                               /\ data' = DataBytes(Head(q))
                               /\ call' = "none" /\ status' = "BUFFER_SUCCESS"
<1>1. PICK S \in SUBSET Nat, first \in Cell, L \in 0 .. Size - 1 :
         Layout(S, first, L) /\ Laid(q, first, L)
  BY DEF InRing
<1>2. State(S, first, L)
  BY <1>1 DEF State
<1>3. PICK T \in SUBSET Nat, f \in Cell, K \in 0 .. Size - 1 : Layout(T, f, K)'
  BY <1>2, RemoveReturnStep
<1>4. /\ S \subseteq 0 .. L /\ 0 \in S /\ head = At(first, L)
      /\ part \in {"header", "data"}
      /\ \E m \in Message : AtFrame(S, first, 0, m)
  BY <1>1 DEF Layout, Frames, RemoveLayout, Control
<1>5. PICK m \in Message : AtFrame(S, first, 0, m)
  BY <1>4
<1>6. ~ (i < nbytes)
  <2>1. i < nbytes => tail # head
    BY <1>4, <1>5, MoreToRead
  <2> QED BY <2>1 DEF ReadReturn
<1>7. HoldsFrame(first, 0, m) /\ 0 + FrameSize(m) \in 0 .. L
  BY <1>4, <1>5 DEF AtFrame
<1>8. L > 0
  BY <1>7, FrameSizeType
<1>9. q # <<>> /\ Head(q) = m
  BY <1>1, <1>7, <1>8, LaidFirst
<1>10. Laid(q, first, L)'
  BY <1>1, LaidKept DEF ReadReturn
<1>11. ASSUME part = "header" PROVE InRing(q)' /\ UNCHANGED <<call, status>>
  <2>1. /\ AtFrame(S, first, 0, m)' /\ part' = "data" /\ avilSize' = avilSize + IntSize
        /\ UNCHANGED <<head, tail, buf, call, data>>
    BY <1>4, <1>5, <1>6, <1>11, HeaderReturn
  <2>2. UNCHANGED status
    BY <1>6, <1>11 DEF ReadReturn, AfterRead
  <2>3. Frames(S, first, L)'
    BY <1>1, <2>1, FramesKept DEF Layout
  <2>4. avilSize = Size - L
    BY <1>1, <1>11 DEF Layout, RemoveLayout
  <2>5. RemoveLayout(S, first, L)'
    BY <1>4, <2>1, <2>4 DEF RemoveLayout
  <2>6. Layout(S, first, L)' /\ Peeking(q, first, L)'
    BY <2>1, <2>3, <2>5 DEF Layout, IdleLayout, AddLayout, TopLayout, Peeking
  <2> QED BY <1>10, <2>1, <2>2, <2>6 DEF InRing, Cell
<1>12. ASSUME part = "data"
       PROVE  /\ InRing(Tail(q))' /\ data' = DataBytes(Head(q))
              /\ call' = "none" /\ status' = "BUFFER_SUCCESS"
  <2>1. /\ tail = At(first, 0 + FrameSize(m)) /\ data' = DataBytes(m)
        /\ AfterRead(DataSize[m]) /\ UNCHANGED <<head, tail, buf>>
    BY <1>4, <1>5, <1>6, <1>12, DataReturn
  <2>2. call' = "none" /\ status' = "BUFFER_SUCCESS"
    BY <1>12, <2>1 DEF AfterRead, Return
  <2>3. tail' = f /\ head' = At(f, K)
    BY <1>3, <2>2 DEF Layout, IdleLayout
  <2>4. PICK n \in Nat : n = FrameSize(m) /\ n = 0 + FrameSize(m) /\ n \in 0 .. L
    BY <1>7, FrameSizeType
  <2>5. f = At(first, n)
    BY <2>1, <2>3, <2>4
  <2>6. PICK k \in 0 .. Size - 1 : k = L - n /\ n + k = L
    BY <2>4
  <2>7. At(f, k) = At(first, L)
    <3>1. n \in 0 .. Size - 1 /\ n + k < Size
      BY SMTT(30), <2>4, <2>6
    <3> QED BY <2>5, <2>6, <3>1, AtAt
  <2>8. K = k
    BY <1>4, <2>1, <2>3, <2>7, AtInjective
  <2>9. Laid(Tail(q), f, k)
    BY <1>1, <1>9, <2>4, <2>5, <2>6, LaidTail
  <2>10. Tail(q) \in Seq(Message)
    BY <1>9, HeadTailProperties
  <2>11. Laid(Tail(q), f, k)'
    BY <2>1, <2>9, <2>10, LaidKept
  <2>12. Peeking(Tail(q), f, k)'
    BY <2>2 DEF Peeking
  <2> QED BY <1>3, <1>9, <2>1, <2>2, <2>8, <2>11, <2>12 DEF InRing, Cell
<1> QED BY <1>9, <1>11, <1>12

-----------------------------------------------------------------------------
(* The queue of messages: the ring implements it *)

\* The data of a message is its own.
LEMMA OneMessage ==
    ASSUME NEW m \in Message
    PROVE  /\ {r \in Message : DataBytes(m) = DataBytes(r)} = {m}
           /\ DataBytes(m) # <<>>
<1>1. ASSUME NEW r \in Message, DataBytes(m) = DataBytes(r) PROVE r = m
  <2>1. 1 \in 1 .. DataSize[m] /\ 1 \in 1 .. DataSize[r]
    BY FrameSizeType
  <2>2. DataBytes(m)[1] = <<m, 1>> /\ DataBytes(r)[1] = <<r, 1>>
    BY <2>1 DEF DataBytes
  <2> QED BY <2>2, <1>1
<1>2. DataBytes(m) # <<>>
  <2>1. 1 \in DOMAIN DataBytes(m)
    BY FrameSizeType DEF DataBytes
  <2>2. DOMAIN <<>> = {}
    OBVIOUS
  <2> QED BY <2>1, <2>2
<1> QED BY <1>1, <1>2

\* What is delivered when a call has returned.
LEMMA DeliveredNext ==
    ASSUME NEW m \in Message, call' = "none", data' = DataBytes(m)
    PROVE  Delivered' = m
<1>1. /\ {r \in Message : DataBytes(m) = DataBytes(r)} = {m}
      /\ DataBytes(m) # <<>>
  BY OneMessage
<1>2. {m} # {} /\ (CHOOSE r \in {m} : TRUE) = m
  OBVIOUS
<1>3. MessageOf(DataBytes(m)) = m
  BY <1>1, <1>2 DEF MessageOf
<1> QED BY <1>1, <1>3 DEF Delivered

\* Between calls the code's two tests of avilSize are the tests of the queue.
LEMMA TestsAgree ==
    ASSUME TypeInvariant, NEW q \in Seq(Message), InRing(q), Stored = q,
           call = "none"
    PROVE  /\ \A m \in Message : Q!Fits(m) <=> RoomFor(m)
           /\ q = <<>> <=> avilSize >= Size
<1>1. PICK S \in SUBSET Nat, first \in Cell, L \in 0 .. Size - 1 :
         Layout(S, first, L) /\ Laid(q, first, L)
  BY DEF InRing
<1>2. avilSize = Size - L /\ L \in Nat
  BY <1>1 DEF Layout, IdleLayout
<1>3. Q!Bytes(q) = L
  BY <1>1, BytesAgree DEF Laid
<1>4. ASSUME NEW m \in Message PROVE Q!Fits(m) <=> RoomFor(m)
  <2>1. Q!Fits(m) <=> L + (IntSize + DataSize[m]) < Size
    BY <1>3 DEF Q!Fits, Q!Cost
  <2>2. RoomFor(m) <=> Size - L > IntSize + DataSize[m]
    BY <1>2 DEF RoomFor, FrameSize
  <2> QED BY <2>1, <2>2, <1>2, FrameSizeType
<1>5. q = <<>> <=> L = 0
  BY <1>1, LaidEmpty
<1> QED BY <1>2, <1>4, <1>5

QueueMoves == [Q!Next]_(Q!vars)

\* A step inside a call is none of the queue.
LEMMA QueueStays ==
    ASSUME NEW q, Stored = q, Stored' = q, UNCHANGED <<call, msg, index, status>>,
           UNCHANGED data \/ call # "none"
    PROVE  QueueMoves
<1>1. Delivered' = Delivered
  BY DEF Delivered
<1>2. Argument' = Argument
  BY DEF Argument
<1> QED BY <1>1, <1>2 DEF QueueMoves, Q!vars

\* A call that starts.
LEMMA QueueStarts ==
    ASSUME NEW q, Stored = q, Stored' = q, call = "none", status' = "none",
           NEW op, call' = op, op # "none", NEW a, Argument' = a
    PROVE  Q!Start(op, a)
<1>1. Delivered' = "nothing"
  BY DEF Delivered
<1> QED BY <1>1 DEF Q!Start, Q!Nothing

\* A call that is refused.
LEMMA QueueFails ==
    ASSUME NEW q, Stored = q, Stored' = q, call = "none", status' = "BUFFER_ERROR",
           call' = call, data' = <<>>
    PROVE  Q!Fail
<1>1. Delivered' = "nothing"
  BY DEF Delivered
<1>2. Argument = 0 /\ Argument' = 0
  BY DEF Argument
<1> QED BY <1>1, <1>2 DEF Q!Fail, Q!Nothing

\* A call that returns.
LEMMA QueueFinishes ==
    ASSUME call # "none", call' = "none", status' = "BUFFER_SUCCESS"
    PROVE  Q!Finish
<1>1. Argument' = 0
  BY DEF Argument
<1> QED BY <1>1 DEF Q!Finish

\* What a peek leaves with its caller is what the queue shows.
LEMMA PeekShows ==
    ASSUME TypeInvariant, NEW q \in Seq(Message), InRing(q), Stored = q, Stored' = q,
           TopRestore
    PROVE  Q!FinishTop
<1>1. /\ call = "buffer_top_message" /\ part = "restore" /\ call' = "none"
      /\ status' = "BUFFER_SUCCESS" /\ data' = data
  BY DEF TopRestore, Return
<1>2. PICK k \in Nat : k = index /\ data = Shown(q, k)
  BY <1>1 DEF InRing, Peeking
<1>3. Argument = k
  BY <1>1, <1>2 DEF Argument
<1>4. Len(q) \in Nat
  BY LenProperties
<1> DEFINE last == IF k <= Len(q) THEN k ELSE Len(q)
<1>5. Delivered' = (IF last = 0 THEN "nothing" ELSE q[last])
  <2>1. CASE k = 0 \/ q = <<>>
    <3>1. last = 0
      BY <1>4, <2>1
    <3>2. data' = <<>>
      BY <1>1, <1>2, <2>1 DEF Shown
    <3>3. Delivered' = "nothing"
      BY <3>2 DEF Delivered
    <3> QED BY <3>1, <3>3
  <2>2. CASE ~ (k = 0 \/ q = <<>>)
    <3>1. Len(q) > 0
      BY <2>2, EmptySeq, LenProperties
    <3>2. last \in 1 .. Len(q) /\ last # 0
      BY <1>4, <2>2, <3>1
    <3>3. q[last] \in Message
      BY <3>2, ElementOfSeq
    <3>4. data' = DataBytes(q[last])
      BY <1>1, <1>2, <2>2 DEF Shown
    <3>5. Delivered' = q[last]
      BY <1>1, <3>3, <3>4, DeliveredNext
    <3> QED BY <3>2, <3>5
  <2> QED BY <2>1, <2>2
<1>6. Q!Finish
  BY <1>1, QueueFinishes
<1> QED BY <1>1, <1>3, <1>5, <1>6 DEF Q!FinishTop, Q!Nothing

\* An empty ring holds the empty queue.
LEMMA EmptyInRing ==
    ASSUME Init
    PROVE  TypeInvariant /\ Control /\ DataWhole /\ <<>> \in Seq(Message) /\ InRing(<<>>)
<1>1. TypeInvariant /\ Control /\ DataWhole
  BY TypeInit DEF Init, DataWhole
<1>2. 0 \in Cell /\ At(0, 0) = 0 /\ 0 \in 0 .. Size - 1 /\ {0} \in SUBSET Nat
  BY DEF Cell, At
<1>3. Layout({0}, 0, 0)
  <2>1. Frames({0}, 0, 0)
    BY DEF Frames
  <2> QED BY <1>2, <2>1 DEF Layout, IdleLayout, AddLayout, RemoveLayout, TopLayout, Init
<1>4. <<>> \in Seq(Message) /\ Laid(<<>>, 0, 0)
  <2>1. <<>> \in Seq(Message) /\ Len(<<>>) = 0
    BY EmptySeq
  <2>2. Offsets(<<>>)[0] = 0
    BY <2>1, OffsetsSums DEF Sums, AddsUp
  <2>3. \A k \in 1 .. 0 : HoldsFrame(0, Offsets(<<>>)[k - 1], <<>>[k])
    OBVIOUS
  <2> QED BY <2>1, <2>2, <2>3 DEF Laid
<1>5. Peeking(<<>>, 0, 0)
  BY DEF Peeking, Init
<1>6. InRing(<<>>)
  BY <1>2, <1>3, <1>4, <1>5 DEF InRing
<1> QED BY <1>1, <1>4, <1>6

LEMMA QueueInvInit == Init => QueueInv
BY EmptyInRing DEF QueueInv

\* A step that changes nothing.
LEMMA RingStutters ==
    ASSUME NEW q \in Seq(Message), InRing(q),
           UNCHANGED <<head, tail, avilSize, buf, call, part, i, msg, index, round,
                       move_bytes, TAIL, HEAD, actual_data_size, dest, data, status>>
    PROVE  InRing(q)'
<1>1. PICK S \in SUBSET Nat, first \in Cell, L \in 0 .. Size - 1 :
         Layout(S, first, L) /\ Laid(q, first, L) /\ Peeking(q, first, L)
  BY DEF InRing
<1>2. Layout(S, first, L)' /\ Laid(q, first, L)'
  BY <1>1, LayoutKept, LaidKept
<1>3. Peeking(q, first, L)'
  <2>1. \A T, o, m : AtFrame(T, first, o, m) => AtFrame(T, first, o, m)'
    BY HoldsKept DEF AtFrame, Copied
  <2>2. \A k \in Nat : PeekAt(q, first, L, k) => PeekAt(q, first, L, k)'
    BY <2>1 DEF PeekAt
  <2> QED BY <1>1, <2>2 DEF Peeking, Shown
<1> QED BY <1>2, <1>3 DEF InRing, Cell

\* The queue an action leaves in the ring, and the step of the queue it is.
LEMMA QueueStep ==
    ASSUME QueueInv, [Next]_vars
    PROVE  QueueInv' /\ QueueMoves
<1>1. /\ TypeInvariant /\ Control /\ DataWhole
      /\ TypeInvariant' /\ Control' /\ DataWhole'
  <2>1. IInv
    BY DEF QueueInv, InRing, IInv
  <2>2. IInv'
    BY <2>1, IInvStep
  <2> QED BY <2>1, <2>2 DEF IInv
<1>2. PICK q \in Seq(Message) : InRing(q)
  BY DEF QueueInv
<1>3. Stored = q
  BY <1>1, <1>2, StoredIs DEF StoredRight
<1>4. ASSUME NEW r \in Seq(Message), InRing(r)' PROVE Stored' = r /\ QueueInv'
  BY <1>1, <1>4, StoredNext DEF StoredRight, QueueInv
<1>5. ASSUME Q!Next PROVE QueueMoves
  BY <1>5 DEF QueueMoves
<1>6. call = "none" =>
         /\ \A m \in Message : Q!Fits(m) <=> RoomFor(m)
         /\ q = <<>> <=> avilSize >= Size
  BY <1>1, <1>2, <1>3, TestsAgree
<1> DEFINE Good == QueueInv' /\ QueueMoves
<1>7. ASSUME NEW m \in Message, AddCall(m) PROVE Good
  <2>1. Stored' = q /\ QueueInv'
    BY <1>1, <1>2, <1>4, <1>7, RingStarts
  <2>2. /\ call = "none" /\ RoomFor(m) /\ call' = "buffer_add_Q" /\ msg' = m
        /\ status' = "none"
    BY <1>7 DEF AddCall
  <2>3. Argument' = m
    BY <2>2 DEF Argument
  <2>4. Q!Start("buffer_add_Q", m)
    BY <1>3, <2>1, <2>2, <2>3, QueueStarts
  <2>5. Q!StartAdd(m)
    BY <1>6, <2>2, <2>4 DEF Q!StartAdd
  <2>6. Q!Next
    BY <2>5 DEF Q!Next
  <2> QED BY <1>5, <2>1, <2>6
<1>8. ASSUME NEW m \in Message, AddError(m) PROVE Good
  <2>1. Stored' = q /\ QueueInv'
    BY <1>1, <1>2, <1>4, <1>8, RingStarts
  <2>2. /\ call = "none" /\ ~ RoomFor(m) /\ call' = call /\ data' = <<>>
        /\ status' = "BUFFER_ERROR"
    BY <1>8 DEF AddError
  <2>3. Q!Fail
    BY <1>3, <2>1, <2>2, QueueFails
  <2>4. Q!FailAdd(m)
    BY <1>6, <2>2, <2>3 DEF Q!FailAdd
  <2>5. Q!Next
    BY <2>4 DEF Q!Next
  <2> QED BY <1>5, <2>1, <2>5
<1>9. ASSUME WriteByte PROVE Good
  <2>1. Stored' = q /\ QueueInv'
    BY <1>1, <1>2, <1>4, <1>9, RingWrites
  <2>2. UNCHANGED <<call, msg, index, status, data>>
    BY <1>9 DEF WriteByte, peek
  <2> QED BY <1>3, <2>1, <2>2, QueueStays
<1>10. ASSUME WriteReturn PROVE Good
  <2>1. PICK m \in Message : m = msg
    BY <1>1, <1>10 DEF WriteReturn, Control
  <2>2. call = "buffer_add_Q" /\ part \in {"header", "data"}
    BY <1>1, <1>10 DEF WriteReturn, Control
  <2>3. CASE part = "header"
    <3>1. Stored' = q /\ QueueInv'
      BY <1>1, <1>2, <1>4, <1>10, <2>1, <2>3, AddReturns
    <3>2. UNCHANGED <<call, msg, index, status, data>>
      BY <1>10, <2>3 DEF WriteReturn, AfterWrite, peek
    <3> QED BY <1>3, <3>1, <3>2, QueueStays
  <2>4. CASE part = "data"
    <3>1. Append(q, m) \in Seq(Message)
      BY AppendProperties
    <3>2. InRing(Append(q, m))'
      BY <1>1, <1>2, <1>10, <2>1, <2>4, AddReturns
    <3>3. Stored' = Append(q, m) /\ QueueInv'
      BY <1>4, <3>1, <3>2
    <3>4. call' = "none" /\ status' = "BUFFER_SUCCESS" /\ data' = data
      BY <1>10, <2>4 DEF WriteReturn, AfterWrite, Return
    <3>5. Q!Finish /\ Argument = m
      BY <2>1, <2>2, <3>4, QueueFinishes DEF Argument
    <3>6. Delivered' = "nothing"
      <4>1. data = <<>>
        BY <1>1, <2>2 DEF Control
      <4> QED BY <3>4, <4>1 DEF Delivered
    <3>7. Q!FinishAdd
      BY <1>3, <2>2, <3>3, <3>5, <3>6 DEF Q!FinishAdd, Q!Nothing
    <3> QED BY <1>5, <3>3, <3>7 DEF Q!Next
  <2> QED BY <2>2, <2>3, <2>4
<1>11. ASSUME RemoveCall PROVE Good
  <2>1. Stored' = q /\ QueueInv'
    BY <1>1, <1>2, <1>4, <1>11, RingStarts
  <2>2. /\ call = "none" /\ avilSize < Size /\ call' = "buffer_remove_Q"
        /\ status' = "none"
    BY <1>11 DEF RemoveCall
  <2>3. Argument' = 0
    BY <2>2 DEF Argument
  <2>4. Q!Start("buffer_remove_Q", 0)
    BY <1>3, <2>1, <2>2, <2>3, QueueStarts
  <2>5. q # <<>>
    BY <1>1, <1>6, <2>2 DEF TypeInvariant
  <2>6. Q!StartRemove
    BY <1>3, <2>4, <2>5 DEF Q!StartRemove
  <2> QED BY <1>5, <2>1, <2>6 DEF Q!Next
<1>12. ASSUME RemoveError PROVE Good
  <2>1. Stored' = q /\ QueueInv'
    BY <1>1, <1>2, <1>4, <1>12, RingStarts
  <2>2. /\ call = "none" /\ avilSize >= Size /\ call' = call /\ data' = <<>>
        /\ status' = "BUFFER_ERROR"
    BY <1>12 DEF RemoveError
  <2>3. Q!Fail
    BY <1>3, <2>1, <2>2, QueueFails
  <2>4. Q!FailRemove
    BY <1>3, <1>6, <2>2, <2>3 DEF Q!FailRemove
  <2> QED BY <1>5, <2>1, <2>4 DEF Q!Next
<1>13. ASSUME NEW k \in 0 .. MaxIndex, TopCall(k) PROVE Good
  <2>1. Stored' = q /\ QueueInv'
    BY <1>1, <1>2, <1>4, <1>13, PeekStarts
  <2>2. /\ call = "none" /\ call' = "buffer_top_message" /\ index' = k
        /\ status' = "none"
    BY <1>13 DEF TopCall
  <2>3. Argument' = k
    BY <2>2 DEF Argument
  <2>4. Q!Start("buffer_top_message", k)
    BY <1>3, <2>1, <2>2, <2>3, QueueStarts
  <2>5. Q!StartTop(k)
    BY <2>4 DEF Q!StartTop
  <2>6. Q!Next
    BY <2>5 DEF Q!Next
  <2> QED BY <1>5, <2>1, <2>6
<1>14. ASSUME ReadByte PROVE Good
  <2>1. Stored' = q /\ QueueInv'
    BY <1>1, <1>2, <1>4, <1>14, PeekReads
  <2>2. UNCHANGED <<call, msg, index, status, data>>
    BY <1>14 DEF ReadByte, peek
  <2> QED BY <1>3, <2>1, <2>2, QueueStays
<1>15. ASSUME ReadReturn, call = "buffer_remove_Q" PROVE Good
  <2>1. part \in {"header", "data"}
    BY <1>15 DEF ReadReturn, Reading
  <2>2. CASE part = "header"
    <3>1. InRing(q)' /\ UNCHANGED <<call, status>>
      BY <1>1, <1>2, <1>15, <2>2, RemoveReturns
    <3>2. Stored' = q /\ QueueInv'
      BY <1>4, <3>1
    <3>3. UNCHANGED <<msg, index>>
      BY <1>15, <2>2 DEF ReadReturn, AfterRead
    <3> QED BY <1>3, <1>15, <3>1, <3>2, <3>3, QueueStays
  <2>3. CASE part = "data"
    <3>1. /\ q # <<>> /\ InRing(Tail(q))' /\ data' = DataBytes(Head(q))
          /\ call' = "none" /\ status' = "BUFFER_SUCCESS"
      BY <1>1, <1>2, <1>15, <2>3, RemoveReturns
    <3>2. Tail(q) \in Seq(Message) /\ Head(q) \in Message
      BY <3>1, HeadTailProperties
    <3>3. Stored' = Tail(q) /\ QueueInv'
      BY <1>4, <3>1, <3>2
    <3>4. Delivered' = Head(q)
      BY <3>1, <3>2, DeliveredNext
    <3>5. Q!Finish
      BY <1>15, <3>1, QueueFinishes
    <3>6. Q!FinishRemove
      BY <1>3, <1>15, <3>3, <3>4, <3>5 DEF Q!FinishRemove
    <3> QED BY <1>5, <3>3, <3>6 DEF Q!Next
  <2> QED BY <2>1, <2>2, <2>3
<1>16. ASSUME ReadReturn, call = "buffer_top_message" PROVE Good
  <2>1. Stored' = q /\ QueueInv'
    BY <1>1, <1>2, <1>4, <1>16, PeekReturns
  <2>2. UNCHANGED <<call, msg, index, status>>
    BY <1>16 DEF ReadReturn, AfterRead
  <2> QED BY <1>3, <1>16, <2>1, <2>2, QueueStays
<1>17. ASSUME TopRestore PROVE Good
  <2>1. Stored' = q /\ QueueInv'
    BY <1>1, <1>2, <1>4, <1>17, PeekRestores
  <2>2. Q!FinishTop
    BY <1>1, <1>2, <1>3, <1>17, <2>1, PeekShows
  <2> QED BY <1>5, <2>1, <2>2 DEF Q!Next
<1>18. ASSUME UNCHANGED vars PROVE Good
  <2>1. UNCHANGED <<head, tail, avilSize, buf, call, part, i, msg, index, round,
                    move_bytes, TAIL, HEAD, actual_data_size, dest, data, status>>
    BY <1>18 DEF vars, ring, peek
  <2>2. InRing(q)'
    BY <1>1, <1>2, <2>1, RingStutters
  <2>3. Stored' = q /\ QueueInv'
    BY <1>4, <2>2
  <2> QED BY <1>3, <2>1, <2>3, QueueStays
<1> QED
  BY <1>7, <1>8, <1>9, <1>10, <1>11, <1>12, <1>13, <1>14, <1>15, <1>16, <1>17, <1>18
  DEF Next, ReadReturn, Reading

\* The ring of que.c under the calls of buffer.c implements a first-in first-out
\* queue of whole messages, for every capacity, header size and set of messages:
\* every call takes effect in the step that returns, an add fails exactly when the
\* message does not fit, a remove exactly when the queue is empty and otherwise
\* hands out the oldest message, and a peek changes nothing.
THEOREM QueueImplemented == Spec => ImplementsMsgQueue
<1>1. Init => Q!Init
  <2> SUFFICES ASSUME Init PROVE Q!Init
    OBVIOUS
  <2>1. TypeInvariant /\ Control /\ <<>> \in Seq(Message) /\ InRing(<<>>)
    BY EmptyInRing
  <2>2. Stored = <<>>
    BY <2>1, StoredIs DEF StoredRight
  <2>3. call = "none" /\ data = <<>> /\ status = "none"
    BY DEF Init
  <2>4. Delivered = "nothing" /\ Argument = 0
    BY <2>3 DEF Delivered, Argument
  <2> QED BY <2>2, <2>3, <2>4 DEF Q!Init, Q!Nothing
<1>2. QueueInv /\ [Next]_vars => QueueInv' /\ [Q!Next]_(Q!vars)
  BY QueueStep DEF QueueMoves
<1> QED BY <1>1, <1>2, QueueInvInit, PTL DEF Spec, ImplementsMsgQueue, Q!Spec

=============================================================================
