----------------------------- MODULE FifoQueue -----------------------------
(***************************************************************************)
(* How the byte ring of Fifo.tla implements the queue of whole messages of *)
(* MsgQueue.tla.  A state of the ring stands for the messages whose frames *)
(* fill the bytes between the tail at which the running call started and   *)
(* the head at which it started.                                           *)
(***************************************************************************)
EXTENDS Fifo

\* The cells k bytes after and k bytes before cell c.
At(c, k)   == IF c + k >= Size THEN c + k - Size ELSE c + k
Back(c, k) == IF c >= k THEN c - k ELSE c - k + Size

\* The bytes of the frame of m lie from offset o after cell first on: the first
\* n of its header, the first n of its data, all of them.
HoldsHeader(first, o, m, n) ==
    \A j \in 1 .. n : buf[At(first, o + j - 1)] = <<DataSize[m], j>>

HoldsData(first, o, m, n) ==
    \A j \in 1 .. n : buf[At(first, o + IntSize + j - 1)] = <<m, j>>

HoldsFrame(first, o, m) ==
    HoldsHeader(first, o, m, IntSize) /\ HoldsData(first, o, m, DataSize[m])

-----------------------------------------------------------------------------

\* The bytes the running call has moved, and where head and tail were before.
moved == i + (IF part = "data" THEN IntSize ELSE 0)
start == CASE call = "buffer_top_message" -> TAIL
           [] call = "buffer_remove_Q"    -> Back(tail, moved)
           [] OTHER                       -> tail
end   == IF call = "buffer_add_Q" THEN Back(head, moved) ELSE head
Held  == IF end >= start THEN end - start ELSE end - start + Size

\* Offsets(q)[k]: the bytes that the frames of the first k messages of q take.
Offsets(q) ==
    LET used[k \in 0 .. Len(q)] ==
          IF k = 0 THEN 0 ELSE used[k - 1] + FrameSize(q[k])
    IN  used

\* The frames of q fill the n bytes from first on.
Laid(q, first, n) ==
    /\ Offsets(q)[Len(q)] = n
    /\ \A k \in 1 .. Len(q) : HoldsFrame(first, Offsets(q)[k - 1], q[k])

\* A frame has at least one byte of data.
Queues(n) ==
    UNION {[1 .. k -> Message] : k \in {j \in 0 .. n : j * (IntSize + 1) <= n}}

Stored ==
    LET whole == {q \in Queues(Held) : Laid(q, start, Held)}
    IN  IF whole = {} THEN <<"torn">> ELSE CHOOSE q \in whole : TRUE

\* The message whose data a caller has.
MessageOf(d) ==
    LET whole == {m \in Message : d = DataBytes(m)}
    IN  IF whole = {} THEN "torn" ELSE CHOOSE m \in whole : TRUE

Delivered == IF call # "none" \/ data = <<>> THEN "nothing" ELSE MessageOf(data)

Argument == CASE call = "buffer_add_Q"       -> msg
              [] call = "buffer_top_message" -> index
              [] OTHER                       -> 0

Q == INSTANCE MsgQueue WITH queue <- Stored, arg <- Argument,
                            delivered <- Delivered

\* The ring implements the queue of whole messages: what is added is removed
\* in order, nothing is lost, invented or torn, a call fails exactly when the
\* queue is empty or the message does not fit, and a peek changes nothing.
ImplementsMsgQueue == Q!Spec
=============================================================================
