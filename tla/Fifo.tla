-------------------------------- MODULE Fifo --------------------------------
(***************************************************************************)
(* The byte ring of project 4 (que.c) under the three calls that use it    *)
(* (buffer.c): buffer_add_Q, buffer_remove_Q and buffer_top_message.  A    *)
(* message is stored as a frame: IntSize bytes that hold the length of its *)
(* data, then the data itself.  The loops of fifo_read and fifo_write move *)
(* one byte per step; the calls run one at a time, which is what chmutex   *)
(* and the drivers' use of the peek provide (see Buffer.tla).              *)
(***************************************************************************)
EXTENDS Integers, Sequences

CONSTANTS Size,        \* capacity passed to fifo_init
          IntSize,     \* sizeof(int), the length of a frame's header
          Message,     \* the strings the callers store
          DataSize,    \* DataSize[m] = strlen(m) + 1
          Garbage,     \* what an int that nobody wrote may hold
          NoMsg,       \* no message
          MaxIndex     \* largest index a caller peeks at

ASSUME SizeAssumption == Size \in Nat \ {0} /\ IntSize \in Nat \ {0}
ASSUME MessageAssumption == DataSize \in [Message -> Nat \ {0}] /\ NoMsg \notin Message
ASSUME GarbageAssumption == Garbage \subseteq Int /\ Garbage # {} /\ MaxIndex \in Nat

VARIABLES
    head, tail, avilSize, buf,  \* fifo_t
    call,                       \* the buffer.c function that is running
    part,                       \* which of its fifo calls: "header" or "data"
    i,                          \* the loop counter of fifo_read / fifo_write
    msg,                        \* the message buffer_add_Q stores
    index, round,               \* buffer_top_message: argument, loop counter
    move_bytes, TAIL, HEAD,     \* buffer_top_message: its other locals
    actual_data_size,           \* the length a reader decoded
    dest,                       \* bytes the running fifo_read has copied
    data,                       \* the bytes left in the buffer the caller supplied
    status                      \* what the last call returned

ring    == <<head, tail, avilSize, buf>>
peek    == <<index, round, move_bytes, TAIL, HEAD>>
vars    == <<ring, call, part, i, msg, peek, actual_data_size, dest, data, status>>

Cell      == 0 .. Size - 1
DataSizes == {DataSize[m] : m \in Message}

\* A byte is the j-th byte of an int or of a message's data.
IntBytes(n)  == [j \in 1 .. IntSize |-> <<n, j>>]
DataBytes(m) == [j \in 1 .. DataSize[m] |-> <<m, j>>]
Unwritten    == <<0, 0>>

\* Mutant: tests for the wrap before the increment.
SuccLate(c) == IF c = Size THEN 0 ELSE c + 1

Succ(c)  == IF c + 1 = Size THEN 0 ELSE c + 1
FrameSize(m) == IntSize + DataSize[m]

-----------------------------------------------------------------------------

Init ==
    /\ head = 0 /\ tail = 0 /\ avilSize = Size
    /\ buf = [c \in Cell |-> Unwritten]
    /\ call = "none" /\ part = "none" /\ i = 0 /\ msg = NoMsg
    /\ index = 0 /\ round = 0 /\ move_bytes = 0 /\ TAIL = 0 /\ HEAD = 0
    /\ actual_data_size = 0 /\ dest = <<>> /\ data = <<>>
    /\ status = "none"

\* The locals of a call die when it returns.
Return(s) ==
    /\ call' = "none" /\ part' = "none" /\ i' = 0 /\ msg' = NoMsg
    /\ index' = 0 /\ round' = 0 /\ move_bytes' = 0 /\ TAIL' = 0 /\ HEAD' = 0
    /\ actual_data_size' = 0 /\ dest' = <<>>
    /\ status' = s

\* The number of bytes the running fifo call was asked to move.
nbytes == IF part = "header" THEN IntSize
          ELSE IF call = "buffer_add_Q" THEN DataSize[msg]
          ELSE actual_data_size

-----------------------------------------------------------------------------
(* buffer_add_Q and fifo_write *)

\* Mutants: let a frame fill the last byte; forget the header.
RoomToTheBrim(m) == avilSize >= FrameSize(m)
RoomForData(m) == avilSize > DataSize[m]

RoomFor(m) == avilSize > FrameSize(m)

AddCall(m) ==
    /\ call = "none"
    /\ RoomFor(m)
    /\ call' = "buffer_add_Q" /\ part' = "header" /\ msg' = m /\ i' = 0
    /\ status' = "none" /\ data' = <<>>
    /\ UNCHANGED <<ring, peek, actual_data_size, dest>>

AddError(m) ==
    /\ call = "none"
    /\ ~ RoomFor(m)
    /\ status' = "BUFFER_ERROR" /\ data' = <<>>
    /\ UNCHANGED <<ring, call, part, i, msg, peek, actual_data_size, dest>>

Full == \/ head + 1 = tail
        \/ head + 1 = Size /\ tail = 0

\* Mutant: the header says strlen(data), without the closing 0.
WriteByteStrlen ==
    /\ call = "buffer_add_Q" /\ i < nbytes /\ ~ Full
    /\ buf' = [buf EXCEPT ![head] =
                  <<IF part = "header" THEN DataSize[msg] - 1 ELSE msg, i + 1>>]
    /\ head' = Succ(head)
    /\ i' = i + 1
    /\ UNCHANGED <<tail, avilSize, call, part, msg, peek, actual_data_size,
                   dest, data, status>>

WriteByte ==
    /\ call = "buffer_add_Q" /\ i < nbytes /\ ~ Full
    /\ buf' = [buf EXCEPT ![head] =
                  <<IF part = "header" THEN DataSize[msg] ELSE msg, i + 1>>]
    /\ head' = Succ(head)
    /\ i' = i + 1
    /\ UNCHANGED <<tail, avilSize, call, part, msg, peek, actual_data_size,
                   dest, data, status>>

\* buffer_add_Q ignores what fifo_write returns: a short write goes on too.
AfterWrite ==
    \/ /\ part = "header"
       /\ part' = "data" /\ i' = 0
       /\ UNCHANGED <<call, msg, peek, actual_data_size, dest, status>>
    \/ /\ part = "data"
       /\ Return("BUFFER_SUCCESS")

\* fifo_write returns: all bytes written, or "no more room", when avilSize is
\* not updated.
WriteReturn ==
    /\ call = "buffer_add_Q" /\ ~ (i < nbytes /\ ~ Full)
    /\ avilSize' = IF i < nbytes THEN avilSize ELSE avilSize - nbytes
    /\ AfterWrite
    /\ UNCHANGED <<head, tail, buf, data>>

-----------------------------------------------------------------------------
(* buffer_remove_Q, buffer_top_message and fifo_read *)

Reading == call \in {"buffer_remove_Q", "buffer_top_message"}
           /\ part \in {"header", "data"}

RemoveCall ==
    /\ call = "none"
    /\ avilSize < Size
    /\ call' = "buffer_remove_Q" /\ part' = "header" /\ i' = 0
    /\ actual_data_size' \in Garbage
    /\ status' = "none" /\ data' = <<>>
    /\ UNCHANGED <<ring, msg, peek, dest>>

RemoveError ==
    /\ call = "none"
    /\ avilSize >= Size
    /\ status' = "BUFFER_ERROR" /\ data' = <<>>
    /\ UNCHANGED <<ring, call, part, i, msg, peek, actual_data_size, dest>>

TopCall(k) ==
    /\ call = "none"
    /\ call' = "buffer_top_message" /\ i' = 0
    /\ part' = IF k > 0 THEN "header" ELSE "restore"
    /\ index' = k /\ round' = 0
    /\ move_bytes' = 0 /\ TAIL' = tail /\ HEAD' = head
    /\ actual_data_size' \in Garbage
    /\ status' = "none" /\ data' = <<>>
    /\ UNCHANGED <<ring, msg, dest>>

ReadByte ==
    /\ Reading /\ i < nbytes /\ tail # head
    /\ dest' = Append(dest, buf[tail])
    /\ tail' = Succ(tail)
    /\ i' = i + 1
    /\ UNCHANGED <<head, avilSize, buf, call, part, msg, peek,
                   actual_data_size, data, status>>

\* The int in actual_data_size once fifo_read copied dest into it: a whole
\* header, nothing at all (the int keeps its value), or a torn one.
Decoded ==
    LET known == {n \in DataSizes : dest = IntBytes(n)}
    IN  CASE dest = <<>>  -> {actual_data_size}
          [] known # {}   -> known
          [] OTHER        -> Garbage

\* got is what fifo_read returns; only the peek looks at it.
AfterRead(got) ==
    /\ i' = 0 /\ dest' = <<>>
    /\ \/ /\ part = "header"
          /\ part' = "data"
          /\ actual_data_size' \in Decoded
          /\ move_bytes' = move_bytes + got
          /\ UNCHANGED <<call, msg, index, round, TAIL, HEAD, data, status>>
       \/ /\ part = "data" /\ call = "buffer_top_message"
          /\ data' = IF dest = <<>> THEN data ELSE dest
          /\ move_bytes' = move_bytes + got
          /\ round' = round + 1
          /\ part' = IF round + 1 < index THEN "header" ELSE "restore"
          /\ UNCHANGED <<call, msg, index, TAIL, HEAD, actual_data_size, status>>
       \/ /\ part = "data" /\ call = "buffer_remove_Q"
          /\ data' = IF dest = <<>> THEN data ELSE dest
          /\ Return("BUFFER_SUCCESS")

\* fifo_read returns: all bytes read, or the ring ran empty, when avilSize is
\* not updated.
ReadReturn ==
    /\ Reading /\ ~ (i < nbytes /\ tail # head)
    /\ IF i < nbytes
       THEN avilSize' = avilSize /\ AfterRead(i)
       ELSE avilSize' = avilSize + nbytes /\ AfterRead(nbytes)
    /\ UNCHANGED <<head, tail, buf>>

\* Mutants: put back the indices but not the size, or the size but not tail.
TopRestoreIndices ==
    /\ call = "buffer_top_message" /\ part = "restore"
    /\ tail' = TAIL /\ head' = HEAD
    /\ Return("BUFFER_SUCCESS")
    /\ UNCHANGED <<avilSize, buf, data>>
TopRestoreSize ==
    /\ call = "buffer_top_message" /\ part = "restore"
    /\ avilSize' = avilSize - move_bytes
    /\ head' = HEAD
    /\ Return("BUFFER_SUCCESS")
    /\ UNCHANGED <<tail, buf, data>>

TopRestore ==
    /\ call = "buffer_top_message" /\ part = "restore"
    /\ avilSize' = avilSize - move_bytes
    /\ tail' = TAIL /\ head' = HEAD
    /\ Return("BUFFER_SUCCESS")
    /\ UNCHANGED <<buf, data>>

-----------------------------------------------------------------------------

Next ==
    \/ \E m \in Message : AddCall(m) \/ AddError(m)
    \/ WriteByte \/ WriteReturn
    \/ RemoveCall \/ RemoveError
    \/ \E k \in 0 .. MaxIndex : TopCall(k)
    \/ ReadByte \/ ReadReturn
    \/ TopRestore

Spec == Init /\ [][Next]_vars

-----------------------------------------------------------------------------
(* Properties *)

Byte == (Int \X Nat) \cup (Message \X Nat)

\* Every field keeps the type and range its C declaration and its use give it.
TypeInvariant ==
    /\ head \in Cell /\ tail \in Cell /\ avilSize \in Int
    /\ buf \in [Cell -> Byte]
    /\ call \in {"none", "buffer_add_Q", "buffer_remove_Q", "buffer_top_message"}
    /\ part \in {"none", "header", "data", "restore"}
    /\ i \in Nat /\ index \in Nat /\ round \in Nat
    /\ msg \in Message \cup {NoMsg}
    /\ move_bytes \in Int /\ actual_data_size \in Int
    /\ TAIL \in Cell /\ HEAD \in Cell
    /\ dest \in Seq(Byte) /\ data \in Seq(Byte)
    /\ status \in {"none", "BUFFER_SUCCESS", "BUFFER_ERROR"}

\* The bytes between tail and head.
Used == IF head >= tail THEN head - tail ELSE head - tail + Size

\* Between calls avilSize, which fifo_write and fifo_read update once per call
\* and the peek puts back by subtraction, agrees with the two indices that move
\* byte by byte; and it never reaches 0, so that head = tail always means an
\* empty ring to fifo_read and never a full one.
Accounting ==
    call = "none" => avilSize = Size - Used /\ avilSize >= 1

\* The early return of fifo_write, whose result buffer_add_Q ignores, never
\* happens: what buffer_add_Q admitted fits, byte for byte.
NoTruncatedWrite ==
    call = "buffer_add_Q" /\ i < nbytes => ~ Full

\* buffer_remove_Q, which ignores what fifo_read returns, never runs into the
\* end of the ring in the middle of a message.
NoShortRemove ==
    call = "buffer_remove_Q" /\ i < nbytes => tail # head

\* A successful remove leaves the caller with the data of a message, whole and
\* in order, however the frame was split at the end of the array.
WholeMessage ==
    call = "none" /\ data # <<>> => \E m \in Message : data = DataBytes(m)
=============================================================================
