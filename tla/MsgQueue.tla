------------------------------ MODULE MsgQueue ------------------------------
(***************************************************************************)
(* What the ring of que.c and buffer.c promises its callers: a first-in    *)
(* first-out queue of whole messages in Size bytes, where a message costs  *)
(* IntSize bytes on top of its data and one byte always stays free.  A     *)
(* call starts, and takes effect in one step when it returns.              *)
(***************************************************************************)
EXTENDS Integers, Sequences

CONSTANTS Size, IntSize, Message, DataSize, MaxIndex

VARIABLES
    queue,      \* the messages stored, oldest first
    call,       \* the running call, or "none"
    arg,        \* its argument: a message, an index, or 0
    status,     \* what the last call returned
    delivered   \* the message the last reading call left with the caller

vars == <<queue, call, arg, status, delivered>>

Nothing == "nothing"    \* no message, or no particular one

\* What a message costs, and what the messages of q cost together.
Cost(m)  == IntSize + DataSize[m]
Bytes(q) ==
    LET first[k \in 0 .. Len(q)] == IF k = 0 THEN 0 ELSE first[k - 1] + Cost(q[k])
    IN  first[Len(q)]
Fits(m)  == Bytes(queue) + Cost(m) < Size

Init ==
    /\ queue = <<>> /\ call = "none" /\ arg = 0
    /\ status = "none" /\ delivered = Nothing

Start(op, a) ==
    /\ call = "none"
    /\ call' = op /\ arg' = a
    /\ status' = "none" /\ delivered' = Nothing
    /\ UNCHANGED queue

Fail ==
    /\ call = "none"
    /\ status' = "BUFFER_ERROR" /\ delivered' = Nothing
    /\ UNCHANGED <<queue, call, arg>>

Finish ==
    /\ call # "none"
    /\ call' = "none" /\ arg' = 0
    /\ status' = "BUFFER_SUCCESS"

StartAdd(m) == Fits(m) /\ Start("buffer_add_Q", m)
FailAdd(m)  == ~ Fits(m) /\ Fail
FinishAdd ==
    /\ call = "buffer_add_Q" /\ Finish
    /\ queue' = Append(queue, arg) /\ delivered' = Nothing

StartRemove == queue # <<>> /\ Start("buffer_remove_Q", 0)
FailRemove  == queue = <<>> /\ Fail
FinishRemove ==
    /\ call = "buffer_remove_Q" /\ Finish
    /\ queue' = Tail(queue) /\ delivered' = Head(queue)

\* A peek reads the messages up to its index and leaves them in place.  Past
\* the end it delivers the last message; of an empty queue, none.
StartTop(k) == Start("buffer_top_message", k)
FinishTop ==
    /\ call = "buffer_top_message" /\ Finish
    /\ LET last == IF arg <= Len(queue) THEN arg ELSE Len(queue)
       IN  delivered' = IF last = 0 THEN Nothing ELSE queue[last]
    /\ UNCHANGED queue

Next ==
    \/ \E m \in Message : StartAdd(m) \/ FailAdd(m)
    \/ FinishAdd
    \/ StartRemove \/ FailRemove \/ FinishRemove
    \/ \E k \in 0 .. MaxIndex : StartTop(k)
    \/ FinishTop

Spec == Init /\ [][Next]_vars
=============================================================================
