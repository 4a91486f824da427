------------------------------- MODULE Buffer -------------------------------
(***************************************************************************)
(* The blocking channel of project 4 (helper.c): buffer_send,              *)
(* buffer_receive and buffer_close as threads execute them, one step per   *)
(* access to state that other threads can reach.  isopen is read once      *)
(* without the mutex before it is read under it; a wait gives up chmutex   *)
(* and joins a wait set in one step; a signal takes at most one thread out *)
(* of a wait set, and that thread must take chmutex again.  The ring is    *)
(* the queue of whole messages that Fifo.tla implements, with the space    *)
(* counter avilSize on which the code decides.                             *)
(***************************************************************************)
EXTENDS Integers, Sequences, FiniteSets

CONSTANTS
    Sender, Receiver, Closer,  \* the threads that call each function
    Message,                   \* the strings that are sent
    MsgSize,                   \* get_msg_size: header and data, in bytes
    Special,                   \* the messages equal to "splmsg"
    Size,                      \* the capacity passed to buffer_create
    MaxCloses,                 \* bound on the calls of buffer_close
    Spurious,                  \* whether a wait may end without a signal
    NoMsg, NoThread

Thread == Sender \cup Receiver \cup Closer

ASSUME ThreadAssumption ==
    IsFiniteSet(Sender) /\ IsFiniteSet(Receiver) /\ NoThread \notin Thread
ASSUME MessageAssumption ==
    /\ MsgSize \in [Message -> Nat \ {0}] /\ Special \subseteq Message
    /\ NoMsg \notin Message
ASSUME SizeAssumption ==
    Size \in Nat \ {0} /\ MaxCloses \in Nat /\ Spurious \in BOOLEAN

VARIABLES
    isopen, queue, avilSize,   \* state_t: the flag and the ring
    chmutex,                   \* the thread that holds it, or NoThread
    chconsend, chconrec,       \* the threads asleep on each condition
    pc,                        \* where each thread is
    msg,                       \* what each thread sends or has received
    ret,                       \* what each thread's last call returned
    closes                     \* calls of buffer_close so far

vars == <<isopen, queue, avilSize, chmutex, chconsend, chconrec, pc, msg, ret, closes>>
ring == <<queue, avilSize>>
cond == <<chconsend, chconrec>>

Init ==    \* buffer_create
    /\ isopen = TRUE /\ queue = <<>> /\ avilSize = Size
    /\ chmutex = NoThread /\ chconsend = {} /\ chconrec = {}
    /\ pc = [t \in Thread |-> "idle"]
    /\ msg = [t \in Thread |-> NoMsg]
    /\ ret = [t \in Thread |-> "none"]
    /\ closes = 0

Goto(t, l) == pc' = [pc EXCEPT ![t] = l]
Status(t, s) == ret' = [ret EXCEPT ![t] = s]

Acquire(t) == chmutex = NoThread /\ chmutex' = t
Release(t) == chmutex = t /\ chmutex' = NoThread

\* pthread_cond_signal: the value of wait set c afterwards.
Signalled(c) == IF c = {} THEN {c} ELSE {c \ {t} : t \in c}

\* fifo_avail_size(...) > msg_size
Fits(m) == avilSize > MsgSize[m]

-----------------------------------------------------------------------------
(* buffer_send *)

SendCall(t, m) ==
    /\ pc[t] = "idle"
    /\ Goto(t, "s_open") /\ msg' = [msg EXCEPT ![t] = m] /\ Status(t, "none")
    /\ UNCHANGED <<isopen, ring, chmutex, cond, closes>>

SendOpen(t) ==      \* the test of isopen before the lock
    /\ pc[t] = "s_open"
    /\ IF isopen THEN Goto(t, "s_lock") /\ UNCHANGED ret
                 ELSE Goto(t, "idle") /\ Status(t, "CLOSED_ERROR")
    /\ UNCHANGED <<isopen, ring, chmutex, cond, msg, closes>>

SendLock(t) ==      \* the first lock, or the one that ends a wait
    /\ pc[t] = "s_lock" \/ (pc[t] = "s_wait" /\ t \notin chconsend)
    /\ Acquire(t)
    /\ Goto(t, "s_test")
    /\ UNCHANGED <<isopen, ring, cond, msg, ret, closes>>

\* Mutant: waits on the receivers' condition.
SendWaitWrongCond(t) ==
    /\ pc[t] = "s_test" /\ ~ Fits(msg[t]) /\ isopen
    /\ Release(t) /\ chconrec' = chconrec \cup {t}
    /\ Goto(t, "s_wait")
    /\ UNCHANGED <<isopen, ring, chconsend, msg, ret, closes>>

SendWait(t) ==
    /\ pc[t] = "s_test" /\ ~ Fits(msg[t]) /\ isopen
    /\ Release(t) /\ chconsend' = chconsend \cup {t}
    /\ Goto(t, "s_wait")
    /\ UNCHANGED <<isopen, ring, chconrec, msg, ret, closes>>

\* buffer_add_Q tests the space again and, without room, stores nothing;
\* buffer_send does not look at its result.
buffer_add_Q(m) ==
    IF Fits(m)
    THEN queue' = Append(queue, m) /\ avilSize' = avilSize - MsgSize[m]
    ELSE UNCHANGED ring

\* Mutants: store without a signal; signal only when the queue was empty; store
\* although the buffer was closed.
SendGoSilent(t) ==
    /\ pc[t] = "s_test" /\ ~ (~ Fits(msg[t]) /\ isopen)
    /\ IF Fits(msg[t]) /\ isopen
       THEN buffer_add_Q(msg[t]) /\ Status(t, "BUFFER_SUCCESS")
       ELSE Status(t, "CLOSED_ERROR") /\ UNCHANGED ring
    /\ Goto(t, "s_unlock")
    /\ UNCHANGED <<isopen, chmutex, cond, msg, closes>>
SendGoFirst(t) ==
    /\ pc[t] = "s_test" /\ ~ (~ Fits(msg[t]) /\ isopen)
    /\ IF Fits(msg[t]) /\ isopen
       THEN /\ buffer_add_Q(msg[t]) /\ Status(t, "BUFFER_SUCCESS")
            /\ chconrec' \in IF queue = <<>> THEN Signalled(chconrec) ELSE {chconrec}
       ELSE Status(t, "CLOSED_ERROR") /\ UNCHANGED <<ring, chconrec>>
    /\ Goto(t, "s_unlock")
    /\ UNCHANGED <<isopen, chmutex, chconsend, msg, closes>>
SendGoClosed(t) ==
    /\ pc[t] = "s_test" /\ ~ (~ Fits(msg[t]) /\ isopen)
    /\ IF Fits(msg[t])
       THEN /\ buffer_add_Q(msg[t])
            /\ chconrec' \in Signalled(chconrec)
            /\ Status(t, "BUFFER_SUCCESS")
       ELSE Status(t, "CLOSED_ERROR") /\ UNCHANGED <<ring, chconrec>>
    /\ Goto(t, "s_unlock")
    /\ UNCHANGED <<isopen, chmutex, chconsend, msg, closes>>

SendGo(t) ==
    /\ pc[t] = "s_test" /\ ~ (~ Fits(msg[t]) /\ isopen)
    /\ IF Fits(msg[t]) /\ isopen
       THEN /\ buffer_add_Q(msg[t])
            /\ chconrec' \in Signalled(chconrec)
            /\ Status(t, "BUFFER_SUCCESS")
       ELSE Status(t, "CLOSED_ERROR") /\ UNCHANGED <<ring, chconrec>>
    /\ Goto(t, "s_unlock")
    /\ UNCHANGED <<isopen, chmutex, chconsend, msg, closes>>

SendUnlock(t) ==
    /\ pc[t] = "s_unlock"
    /\ Release(t) /\ Goto(t, "idle")
    /\ UNCHANGED <<isopen, ring, cond, msg, ret, closes>>

-----------------------------------------------------------------------------
(* buffer_receive *)

ReceiveCall(t) ==
    /\ pc[t] = "idle"
    /\ Goto(t, "r_open") /\ msg' = [msg EXCEPT ![t] = NoMsg] /\ Status(t, "none")
    /\ UNCHANGED <<isopen, ring, chmutex, cond, closes>>

ReceiveOpen(t) ==
    /\ pc[t] = "r_open"
    /\ IF isopen THEN Goto(t, "r_lock") /\ UNCHANGED ret
                 ELSE Goto(t, "idle") /\ Status(t, "CLOSED_ERROR")
    /\ UNCHANGED <<isopen, ring, chmutex, cond, msg, closes>>

ReceiveLock(t) ==
    /\ pc[t] = "r_lock" \/ (pc[t] = "r_wait" /\ t \notin chconrec)
    /\ Acquire(t)
    /\ Goto(t, "r_test")
    /\ UNCHANGED <<isopen, ring, cond, msg, ret, closes>>

ReceiveWait(t) ==
    /\ pc[t] = "r_test" /\ avilSize >= Size /\ isopen
    /\ Release(t) /\ chconrec' = chconrec \cup {t}
    /\ Goto(t, "r_wait")
    /\ UNCHANGED <<isopen, ring, chconsend, msg, ret, closes>>

\* Mutant: no sender is signalled.
ReceiveGoSilent(t) ==
    /\ pc[t] = "r_test" /\ avilSize < Size /\ isopen
    /\ queue' = Tail(queue) /\ avilSize' = avilSize + MsgSize[Head(queue)]
    /\ msg' = [msg EXCEPT ![t] = Head(queue)]
    /\ Goto(t, "r_unlock") /\ Status(t, "BUFFER_SUCCESS")
    /\ UNCHANGED <<isopen, chmutex, cond, closes>>

\* For "splmsg" the mutex is released before the senders are signalled.
ReceiveGo(t) ==
    /\ pc[t] = "r_test" /\ avilSize < Size /\ isopen
    /\ queue' = Tail(queue) /\ avilSize' = avilSize + MsgSize[Head(queue)]
    /\ msg' = [msg EXCEPT ![t] = Head(queue)]
    /\ IF Head(queue) \in Special
       THEN /\ Goto(t, "r_unlock_signal") /\ UNCHANGED chconsend
            /\ Status(t, "BUFFER_SPECIAL_MESSSAGE")
       ELSE /\ Goto(t, "r_unlock") /\ chconsend' \in Signalled(chconsend)
            /\ Status(t, "BUFFER_SUCCESS")
    /\ UNCHANGED <<isopen, chmutex, chconrec, closes>>

ReceiveClosed(t) ==
    /\ pc[t] = "r_test" /\ ~ isopen
    /\ Status(t, "CLOSED_ERROR") /\ Goto(t, "r_unlock")
    /\ UNCHANGED <<isopen, ring, chmutex, cond, msg, closes>>

ReceiveUnlock(t) ==
    /\ pc[t] \in {"r_unlock", "r_unlock_signal"}
    /\ Release(t)
    /\ Goto(t, IF pc[t] = "r_unlock" THEN "idle" ELSE "r_signal")
    /\ UNCHANGED <<isopen, ring, cond, msg, ret, closes>>

\* Mutant: "splmsg" is received without a signal.
ReceiveSignalNone(t) ==
    /\ pc[t] = "r_signal"
    /\ Goto(t, "idle")
    /\ UNCHANGED <<isopen, ring, chmutex, cond, msg, ret, closes>>

ReceiveSignal(t) ==
    /\ pc[t] = "r_signal"
    /\ chconsend' \in Signalled(chconsend)
    /\ Goto(t, "idle")
    /\ UNCHANGED <<isopen, ring, chmutex, chconrec, msg, ret, closes>>

-----------------------------------------------------------------------------
(* buffer_close *)

CloseCall(t) ==
    /\ pc[t] = "idle" /\ closes < MaxCloses
    /\ closes' = closes + 1
    /\ Goto(t, "c_lock") /\ Status(t, "none")
    /\ UNCHANGED <<isopen, ring, chmutex, cond, msg>>

CloseLock(t) ==
    /\ pc[t] = "c_lock"
    /\ Acquire(t) /\ Goto(t, "c_test")
    /\ UNCHANGED <<isopen, ring, cond, msg, ret, closes>>

\* Mutants: isopen is not tested; only the receivers are woken.
CloseGoTwice(t) ==
    /\ pc[t] = "c_test"
    /\ chconsend' = {} /\ chconrec' = {} /\ isopen' = FALSE
    /\ Status(t, "BUFFER_SUCCESS")
    /\ Goto(t, "c_unlock")
    /\ UNCHANGED <<ring, chmutex, msg, closes>>
CloseGoReceivers(t) ==
    /\ pc[t] = "c_test"
    /\ IF isopen
       THEN /\ chconrec' = {} /\ isopen' = FALSE /\ UNCHANGED chconsend
            /\ Status(t, "BUFFER_SUCCESS")
       ELSE /\ UNCHANGED <<isopen, cond>>
            /\ Status(t, "CLOSED_ERROR")
    /\ Goto(t, "c_unlock")
    /\ UNCHANGED <<ring, chmutex, msg, closes>>

CloseGo(t) ==
    /\ pc[t] = "c_test"
    /\ IF isopen
       THEN /\ chconsend' = {} /\ chconrec' = {} /\ isopen' = FALSE
            /\ Status(t, "BUFFER_SUCCESS")
       ELSE /\ UNCHANGED <<isopen, cond>>
            /\ Status(t, "CLOSED_ERROR")
    /\ Goto(t, "c_unlock")
    /\ UNCHANGED <<ring, chmutex, msg, closes>>

CloseUnlock(t) ==
    /\ pc[t] = "c_unlock"
    /\ Release(t) /\ Goto(t, "idle")
    /\ UNCHANGED <<isopen, ring, cond, msg, ret, closes>>

-----------------------------------------------------------------------------
\* pthread_cond_wait may return without a signal.
SpuriousWakeup(t) ==
    /\ Spurious
    /\ t \in chconsend \cup chconrec
    /\ chconsend' = chconsend \ {t} /\ chconrec' = chconrec \ {t}
    /\ UNCHANGED <<isopen, ring, chmutex, pc, msg, ret, closes>>

\* The steps inside a call: a thread that is scheduled takes them.
SendStep(t) ==
    \/ SendOpen(t) \/ SendLock(t) \/ SendWait(t) \/ SendGo(t) \/ SendUnlock(t)
ReceiveStep(t) ==
    \/ ReceiveOpen(t) \/ ReceiveLock(t) \/ ReceiveWait(t) \/ ReceiveGo(t)
    \/ ReceiveClosed(t) \/ ReceiveUnlock(t) \/ ReceiveSignal(t)
CloseStep(t) ==
    \/ CloseLock(t) \/ CloseGo(t) \/ CloseUnlock(t)

ThreadStep(t) == SendStep(t) \/ ReceiveStep(t) \/ CloseStep(t)

Next ==
    \/ \E t \in Sender, m \in Message : SendCall(t, m)
    \/ \E t \in Receiver : ReceiveCall(t)
    \/ \E t \in Closer : CloseCall(t)
    \/ \E t \in Thread : ThreadStep(t) \/ SpuriousWakeup(t)

Spec == Init /\ [][Next]_vars

\* The scheduler runs every thread that can run.  Nobody is obliged to call.
Fairness == \A t \in Thread : WF_vars(ThreadStep(t))

\* Waits that end by themselves do so finitely often.
NoSpuriousWakeup == \A t \in Thread : ~ SpuriousWakeup(t)
FairSpec == Spec /\ Fairness /\ <>[][NoSpuriousWakeup]_vars

-----------------------------------------------------------------------------
(* Properties *)

SendPCs    == {"s_open", "s_lock", "s_wait", "s_test", "s_unlock"}
ReceivePCs == {"r_open", "r_lock", "r_wait", "r_test", "r_unlock",
               "r_unlock_signal", "r_signal"}
ClosePCs   == {"c_lock", "c_test", "c_unlock"}

\* Every variable has its type, and only threads that wait are in a wait set.
TypeInvariant ==
    /\ isopen \in BOOLEAN /\ queue \in Seq(Message) /\ avilSize \in Int
    /\ chmutex \in Thread \cup {NoThread}
    /\ pc \in [Thread -> {"idle"} \cup SendPCs \cup ReceivePCs \cup ClosePCs]
    /\ msg \in [Thread -> Message \cup {NoMsg}]
    /\ ret \in [Thread -> {"none", "BUFFER_SUCCESS", "CLOSED_ERROR",
                           "BUFFER_SPECIAL_MESSSAGE"}]
    /\ closes \in 0 .. MaxCloses
    /\ chconsend \subseteq {t \in Sender : pc[t] = "s_wait"}
    /\ chconrec  \subseteq {t \in Receiver : pc[t] = "r_wait"}

\* The receivers, and the senders, that will test the ring (again) without
\* anybody's help: they hold the mutex, or their wait is over.
ComingReceivers ==
    {t \in Receiver : pc[t] = "r_test" \/ (pc[t] = "r_wait" /\ t \notin chconrec)}
ComingSenders ==
    {t \in Sender : pc[t] = "s_test" \/ (pc[t] = "s_wait" /\ t \notin chconsend)}

\* A signal to the senders that is still to come: buffer_receive has taken
\* "splmsg" out and released the mutex, but not yet called cond_signal.
LateSignals == {t \in Receiver : pc[t] \in {"r_unlock_signal", "r_signal"}}

\* No wakeup of a receiver is lost: while one sleeps on an open buffer, every
\* stored message has a receiver on its way to it.  One cond_signal per
\* buffer_send, sent to whoever sleeps, barging receivers and waits that end
\* by themselves do not break this.
NoLostMessage ==
    isopen /\ chconrec # {} => Len(queue) <= Cardinality(ComingReceivers)

\* Senders never sleep for good on an open buffer: while one sleeps there is a
\* message whose receive will signal, a signal under way, or a sender awake.
\* (Needs that every message fits into the empty buffer.)
SleepingSenderHasHope ==
    isopen /\ chconsend # {} =>
        queue # <<>> \/ ComingSenders # {} \/ LateSignals # {}

\* A sender does not keep sleeping while its message fits ("In case the buffer
\* is full, the function waits till the buffer has space to write the new
\* data", helper.c:24): some sender is awake, or about to be signalled.
NoStrandedSender ==
    isopen /\ (\E t \in chconsend : Fits(msg[t])) =>
        ComingSenders # {} \/ LateSignals # {}

\* Nobody sleeps on a closed buffer: neither a thread that slept when
\* buffer_close broadcast, nor one that read isopen before the close and takes
\* the mutex after it.
NoSleeperAfterClose == ~ isopen => chconsend = {} /\ chconrec = {}

\* buffer_close makes every blocked call return (helper.c:102).
ClosedCallsReturn ==
    \A t \in Thread : (~ isopen /\ pc[t] # "idle") ~> (pc[t] = "idle")

\* A stored message and a receiver inside buffer_receive: some receive
\* completes, unless the buffer is closed first.
BacklogDrains ==
    (queue # <<>> /\ \E t \in Receiver : pc[t] \in {"r_open", "r_lock", "r_wait"})
        ~> (~ isopen \/ \E t \in Receiver : pc[t] \in {"r_unlock", "r_unlock_signal"})
=============================================================================
