------------------------------- MODULE Channel -------------------------------
(***************************************************************************)
(* What helper.h promises: a bounded first-in first-out channel that can   *)
(* be closed.  A call takes effect in one step between its start and its   *)
(* return.  Threads, mutex, wait sets and signals do not appear here.      *)
(***************************************************************************)
EXTENDS Integers, Sequences

CONSTANTS Thread, Message, NoMsg, MsgSize, Special, Size

VARIABLES
    chan,   \* the messages in transit, oldest first
    open,
    req,    \* the call each thread is blocked in, or "none"
    val,    \* the message a thread sends or has received
    res     \* what its last call returned

vars == <<chan, open, req, val, res>>

\* What the messages of q take up.
Bytes(q) ==
    LET first[k \in 0 .. Len(q)] == IF k = 0 THEN 0 ELSE first[k - 1] + MsgSize[q[k]]
    IN  first[Len(q)]
Room(m)  == Bytes(chan) + MsgSize[m] < Size

Init ==
    /\ chan = <<>> /\ open = TRUE
    /\ req = [t \in Thread |-> "none"]
    /\ val = [t \in Thread |-> NoMsg]
    /\ res = [t \in Thread |-> "none"]

Begin(t, op) ==
    /\ req[t] = "none"
    /\ req' = [req EXCEPT ![t] = op]
    /\ res' = [res EXCEPT ![t] = "none"]
    /\ UNCHANGED <<chan, open>>

End(t, op, status) ==
    /\ req[t] = op
    /\ req' = [req EXCEPT ![t] = "none"]
    /\ res' = [res EXCEPT ![t] = status]

BeginSend(t, m) == Begin(t, "send") /\ val' = [val EXCEPT ![t] = m]
BeginReceive(t) == Begin(t, "receive") /\ val' = [val EXCEPT ![t] = NoMsg]
BeginClose(t)   == Begin(t, "close") /\ UNCHANGED val

Send(t) ==
    /\ End(t, "send", "BUFFER_SUCCESS")
    /\ open /\ Room(val[t])
    /\ chan' = Append(chan, val[t])
    /\ UNCHANGED <<open, val>>

Receive(t) ==
    /\ open /\ chan # <<>>
    /\ End(t, "receive", IF Head(chan) \in Special
                         THEN "BUFFER_SPECIAL_MESSSAGE" ELSE "BUFFER_SUCCESS")
    /\ val' = [val EXCEPT ![t] = Head(chan)]
    /\ chan' = Tail(chan)
    /\ UNCHANGED open

Refuse(t) ==
    /\ ~ open
    /\ \E op \in {"send", "receive", "close"} : End(t, op, "CLOSED_ERROR")
    /\ UNCHANGED <<chan, open, val>>

Close(t) ==
    /\ open
    /\ End(t, "close", "BUFFER_SUCCESS")
    /\ open' = FALSE
    /\ UNCHANGED <<chan, val>>

Next ==
    \E t \in Thread :
        \/ \E m \in Message : BeginSend(t, m)
        \/ BeginReceive(t)
        \/ BeginClose(t)
        \/ Send(t) \/ Receive(t) \/ Refuse(t) \/ Close(t)

Spec == Init /\ [][Next]_vars
=============================================================================
