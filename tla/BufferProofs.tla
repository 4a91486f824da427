---------------------------- MODULE BufferProofs ----------------------------
(***************************************************************************)
(* Proofs about Buffer.tla for any number of threads, any capacity, any    *)
(* messages and any pattern of calls and spurious wakeups.  The runs of    *)
(* MCBuffer check the same properties on small instances.                  *)
(***************************************************************************)
EXTENDS BufferChannel, FiniteSetTheorems, SequenceTheorems, TLAPS

USE ThreadAssumption, MessageAssumption, SizeAssumption

-----------------------------------------------------------------------------
(* The inductive invariant. *)

\* Where a thread holds chmutex.
LockedPCs == {"s_test", "s_unlock", "r_test", "r_unlock", "r_unlock_signal",
              "c_test", "c_unlock"}

Mutex == \A t \in Thread : pc[t] \in LockedPCs <=> chmutex = t

\* A thread runs the functions it calls, and a sender has a message.
Roles ==
    \A t \in Thread :
        /\ pc[t] \in SendPCs => t \in Sender /\ msg[t] \in Message
        /\ pc[t] \in ReceivePCs => t \in Receiver

\* used[k] bytes hold the first k messages of q; a bytes are free.
Offsets(q, a, used) ==
    /\ used \in [0 .. Len(q) -> Int]
    /\ used[0] = 0
    /\ \A k \in 1 .. Len(q) : used[k] = used[k-1] + MsgSize[q[k]]
    /\ \A j, k \in 0 .. Len(q) : j < k => used[j] < used[k]
    /\ a = Size - used[Len(q)]

\* avilSize counts exactly the bytes the stored messages leave free.
Space == \E used : Offsets(queue, avilSize, used)

IInv == TypeInvariant /\ Mutex /\ Roles /\ Space /\ NoSleeperAfterClose

PCs == {"idle"} \cup SendPCs \cup ReceivePCs \cup ClosePCs

-----------------------------------------------------------------------------
(* The ring *)

\* A message sent takes its bytes from the free ones, after all the others.
LEMMA OffsetsAppend ==
    ASSUME NEW q \in Seq(Message), NEW a \in Int, NEW used, Offsets(q, a, used),
           NEW m \in Message
    PROVE  \E u : Offsets(Append(q, m), a - MsgSize[m], u)
<1> DEFINE n == Len(q)
           u == [k \in 0 .. n + 1 |-> IF k <= n THEN used[k] ELSE used[n] + MsgSize[m]]
<1>1. n \in Nat /\ Len(Append(q, m)) = n + 1
      /\ (\A k \in 1 .. n : Append(q, m)[k] = q[k]) /\ Append(q, m)[n + 1] = m
  BY AppendProperties
<1>2. used \in [0 .. n -> Int] /\ used[0] = 0 /\ a = Size - used[n]
      /\ (\A k \in 1 .. n : used[k] = used[k-1] + MsgSize[q[k]])
      /\ (\A j, k \in 0 .. n : j < k => used[j] < used[k])
  BY DEF Offsets
<1>3. MsgSize[m] \in Nat /\ MsgSize[m] > 0
  OBVIOUS
<1>4. u \in [0 .. n + 1 -> Int] /\ u[0] = 0
  BY <1>1, <1>2, <1>3
<1>5. ASSUME NEW k \in 1 .. n + 1 PROVE u[k] = u[k-1] + MsgSize[Append(q, m)[k]]
  <2>1. CASE k <= n
    <3>1. k \in 1 .. n /\ k - 1 \in 0 .. n
      BY <2>1, <1>1
    <3>2. u[k] = used[k] /\ u[k-1] = used[k-1]
      BY <3>1, <1>1
    <3> QED BY <3>1, <3>2, <1>1, <1>2
  <2>2. CASE k = n + 1
    <3>1. u[k] = used[n] + MsgSize[m] /\ u[k-1] = used[n]
      BY <2>2, <1>1
    <3> QED BY <3>1, <2>2, <1>1
  <2> QED BY <2>1, <2>2, <1>1
<1>6. ASSUME NEW j \in 0 .. n + 1, NEW k \in 0 .. n + 1, j < k PROVE u[j] < u[k]
  <2>1. CASE k <= n
    BY <2>1, <1>1, <1>2, <1>6
  <2>2. CASE k = n + 1
    <3>1. j \in 0 .. n /\ u[j] = used[j] /\ u[k] = used[n] + MsgSize[m]
      BY <2>2, <1>1, <1>6
    <3> HIDE DEF u, n
    <3>2. n \in 0 .. n /\ (j = n \/ j < n)
      BY <3>1, <1>1
    <3>3. used[j] \in Int /\ used[n] \in Int
      BY <3>1, <3>2, <1>2
    <3>4. used[j] <= used[n]
      BY <3>1, <3>2, <3>3, <1>2
    <3> QED BY <3>1, <3>3, <3>4, <1>3
  <2> QED BY <2>1, <2>2, <1>1
<1>7. a - MsgSize[m] = Size - u[n + 1]
  <2>1. u[n + 1] = used[n] + MsgSize[m] /\ used[n] \in Int
    BY <1>1, <1>2
  <2> QED BY <2>1, <1>2, <1>3
<1> HIDE DEF u
<1>8. Offsets(Append(q, m), a - MsgSize[m], u)
  BY <1>1, <1>4, <1>5, <1>6, <1>7 DEF Offsets
<1> QED BY <1>8

\* The first message removed gives its bytes back; the others move up.
LEMMA OffsetsTail ==
    ASSUME NEW q \in Seq(Message), NEW a \in Int, NEW used, Offsets(q, a, used),
           q # <<>>
    PROVE  \E u : Offsets(Tail(q), a + MsgSize[Head(q)], u)
<1> DEFINE n == Len(q)
           s == MsgSize[Head(q)]
           u == [k \in 0 .. n - 1 |-> used[k + 1] - s]
<1>1. n \in Nat \ {0} /\ Len(Tail(q)) = n - 1
      /\ (\A k \in 1 .. n - 1 : Tail(q)[k] = q[k + 1]) /\ Head(q) = q[1]
      /\ Head(q) \in Message
  BY HeadTailProperties, EmptySeq, LenProperties
<1>2. used \in [0 .. n -> Int] /\ used[0] = 0 /\ a = Size - used[n]
      /\ (\A k \in 1 .. n : used[k] = used[k-1] + MsgSize[q[k]])
      /\ (\A j, k \in 0 .. n : j < k => used[j] < used[k])
  BY DEF Offsets
<1>3. s \in Nat /\ s > 0
  BY <1>1
<1>4. u \in [0 .. n - 1 -> Int] /\ u[0] = 0
  <2>1. used[1] = used[0] + MsgSize[q[1]]
    BY <1>1, <1>2
  <2>2. used[1] = s
    BY <2>1, <1>1, <1>2, <1>3
  <2> QED BY <2>2, <1>1, <1>2, <1>3
<1>5. ASSUME NEW k \in 1 .. n - 1 PROVE u[k] = u[k-1] + MsgSize[Tail(q)[k]]
  <2>1. k + 1 \in 1 .. n /\ k \in 0 .. n - 1 /\ k - 1 \in 0 .. n - 1 /\ k - 1 + 1 = k
        /\ k + 1 - 1 = k /\ k \in 0 .. n
    BY <1>1
  <2>2. used[k + 1] = used[k] + MsgSize[q[k + 1]]
    BY <2>1, <1>2
  <2>3. u[k] = used[k + 1] - s /\ u[k - 1] = used[k] - s
    BY <2>1
  <2>4. used[k] \in Int /\ MsgSize[q[k + 1]] \in Int /\ Tail(q)[k] = q[k + 1]
    <3>1. q[k + 1] \in Message
      BY <2>1, ElementOfSeq
    <3>2. MsgSize[q[k + 1]] \in Int
      BY <3>1
    <3>3. used[k] \in Int
      <4> HIDE DEF n, s, u
      <4> QED BY <2>1, <1>2
    <3>4. Tail(q)[k] = q[k + 1]
      BY <1>1
    <3> QED BY <3>2, <3>3, <3>4
  <2> HIDE DEF u, s
  <2> QED BY <2>2, <2>3, <2>4, <1>3
<1>6. ASSUME NEW j \in 0 .. n - 1, NEW k \in 0 .. n - 1, j < k PROVE u[j] < u[k]
  <2>1. j + 1 \in 0 .. n /\ k + 1 \in 0 .. n /\ j + 1 < k + 1
    BY <1>1, <1>6
  <2>2. used[j + 1] < used[k + 1] /\ used[j + 1] \in Int /\ used[k + 1] \in Int
    BY <2>1, <1>2
  <2> QED BY <2>2, <1>3
<1>7. a + s = Size - u[n - 1]
  <2>1. u[n - 1] = used[n] - s /\ used[n] \in Int
    <3>1. n - 1 \in 0 .. n - 1 /\ n - 1 + 1 = n /\ n \in 0 .. n
      BY <1>1
    <3>2. u[n - 1] = used[n] - s
      BY <3>1
    <3>3. used[n] \in Int
      <4> HIDE DEF n, s, u
      <4> QED BY <3>1, <1>2
    <3> QED BY <3>2, <3>3
  <2> QED BY <2>1, <1>2, <1>3
<1> HIDE DEF u
<1>8. Offsets(Tail(q), a + s, u)
  BY <1>1, <1>4, <1>5, <1>6, <1>7 DEF Offsets
<1> QED BY <1>8

\* avilSize < Size is the code's test for a message in the ring.
LEMMA EmptyRing ==
    ASSUME queue \in Seq(Message), Space
    PROVE  avilSize >= Size <=> queue = <<>>
<1>1. PICK used : Offsets(queue, avilSize, used)
  BY DEF Space
<1>2. Len(queue) \in Nat /\ (Len(queue) = 0 <=> queue = <<>>)
  BY EmptySeq, LenProperties
<1>3. CASE queue = <<>>
  BY <1>1, <1>2, <1>3 DEF Offsets
<1>4. CASE queue # <<>>
  <2>1. used[0] < used[Len(queue)] /\ used[0] = 0 /\ used[Len(queue)] \in Int
        /\ avilSize = Size - used[Len(queue)]
    BY <1>1, <1>2, <1>4 DEF Offsets
  <2> QED BY <2>1, <1>4
<1> QED BY <1>3, <1>4

-----------------------------------------------------------------------------
(* The invariant is inductive, one conjunct after the other. *)

\* The invariant holds after buffer_create.
LEMMA InvInit == Init => IInv
<1> SUFFICES ASSUME Init PROVE IInv
  OBVIOUS
<1>1. TypeInvariant
  BY EmptySeq DEF Init, TypeInvariant, SendPCs, ReceivePCs, ClosePCs
<1>2. Mutex /\ Roles /\ NoSleeperAfterClose
  BY DEF Init, Mutex, Roles, NoSleeperAfterClose, LockedPCs, SendPCs, ReceivePCs
<1>3. Offsets(queue, avilSize, [k \in 0 .. 0 |-> 0])
  BY EmptySeq DEF Init, Offsets
<1> QED BY <1>1, <1>2, <1>3 DEF IInv, Space

Statuses == {"none", "BUFFER_SUCCESS", "CLOSED_ERROR", "BUFFER_SPECIAL_MESSSAGE"}

\* The common part of a step that is no wait: one thread moves on, which did
\* not sleep, and nobody falls asleep.
LEMMA TypeMove ==
    ASSUME TypeInvariant, NEW t \in Thread, NEW l \in PCs, Goto(t, l),
           pc[t] \notin {"s_wait", "r_wait"},
           chconsend' \subseteq chconsend, chconrec' \subseteq chconrec,
           isopen' \in BOOLEAN, queue' \in Seq(Message), avilSize' \in Int,
           chmutex' \in Thread \cup {NoThread}, closes' \in 0 .. MaxCloses,
           msg' \in [Thread -> Message \cup {NoMsg}], ret' \in [Thread -> Statuses]
    PROVE  TypeInvariant'
<1>1. pc' \in [Thread -> PCs]
  BY DEF TypeInvariant, Goto, PCs
<1>2. \A x \in Thread : pc[x] \in {"s_wait", "r_wait"} => pc'[x] = pc[x]
  BY DEF TypeInvariant, Goto
<1>3. /\ chconsend \subseteq {x \in Sender : pc[x] = "s_wait"}
      /\ chconrec \subseteq {x \in Receiver : pc[x] = "r_wait"}
  BY DEF TypeInvariant
<1>4. /\ chconsend' \subseteq {x \in Sender : pc'[x] = "s_wait"}
      /\ chconrec' \subseteq {x \in Receiver : pc'[x] = "r_wait"}
  BY <1>2, <1>3 DEF Thread
<1> QED BY <1>1, <1>4 DEF TypeInvariant, PCs, Statuses

\* Every step keeps the types; a receive never takes from an empty ring.
LEMMA TypeStep == IInv /\ [Next]_vars => TypeInvariant'
<1> SUFFICES ASSUME IInv, [Next]_vars PROVE TypeInvariant'
  OBVIOUS
<1> USE DEF IInv, TypeInvariant, Roles, SendPCs, ReceivePCs, ClosePCs, ring, cond
<1>1. ASSUME NEW t \in Sender, NEW m \in Message, SendCall(t, m) PROVE TypeInvariant'
  BY <1>1 DEF SendCall, Goto, Status, Thread
<1>2. ASSUME NEW t \in Receiver, ReceiveCall(t) PROVE TypeInvariant'
  BY <1>2 DEF ReceiveCall, Goto, Status, Thread
<1>3. ASSUME NEW t \in Closer, CloseCall(t) PROVE TypeInvariant'
  BY <1>3 DEF CloseCall, Goto, Status, Thread
<1>4. ASSUME NEW t \in Thread, SendOpen(t) PROVE TypeInvariant'
  <2>1. \E x \in PCs : Goto(t, x)
    BY <1>4 DEF SendOpen, PCs
  <2>2. ret' \in [Thread -> Statuses]
    BY <1>4 DEF SendOpen, Status, Statuses
  <2>3. pc[t] = "s_open" /\ UNCHANGED <<isopen, ring, chmutex, cond, msg, closes>>
    BY <1>4 DEF SendOpen
  <2> QED BY <2>1, <2>2, <2>3, TypeMove
<1>5. ASSUME NEW t \in Thread, SendLock(t) PROVE TypeInvariant'
  BY <1>5 DEF SendLock, Goto, Status, Acquire
<1>6. ASSUME NEW t \in Thread, SendWait(t) PROVE TypeInvariant'
  BY <1>6 DEF SendWait, Goto, Status, Release
<1>7. ASSUME NEW t \in Thread, SendGo(t) PROVE TypeInvariant'
  <2>1. msg[t] \in Message
    BY <1>7 DEF SendGo
  <2>2. Append(queue, msg[t]) \in Seq(Message) /\ avilSize - MsgSize[msg[t]] \in Int
    BY <2>1, AppendProperties
  <2>3. queue' \in Seq(Message) /\ avilSize' \in Int
    BY <1>7, <2>2 DEF SendGo, buffer_add_Q
  <2>4. chconrec' \subseteq chconrec
    BY <1>7 DEF SendGo, Signalled
  <2>5. ret' \in [Thread -> Statuses]
    BY <1>7 DEF SendGo, Status, Statuses
  <2>6. pc[t] = "s_test" /\ Goto(t, "s_unlock") /\ "s_unlock" \in PCs
        /\ UNCHANGED <<isopen, chmutex, chconsend, msg, closes>>
    BY <1>7 DEF SendGo, PCs
  <2> QED BY <2>3, <2>4, <2>5, <2>6, TypeMove
<1>8. ASSUME NEW t \in Thread, SendUnlock(t) PROVE TypeInvariant'
  BY <1>8 DEF SendUnlock, Goto, Status, Release
<1>9. ASSUME NEW t \in Thread, ReceiveOpen(t) PROVE TypeInvariant'
  <2>1. \E x \in PCs : Goto(t, x)
    BY <1>9 DEF ReceiveOpen, PCs
  <2>2. ret' \in [Thread -> Statuses]
    BY <1>9 DEF ReceiveOpen, Status, Statuses
  <2>3. pc[t] = "r_open" /\ UNCHANGED <<isopen, ring, chmutex, cond, msg, closes>>
    BY <1>9 DEF ReceiveOpen
  <2> QED BY <2>1, <2>2, <2>3, TypeMove
<1>10. ASSUME NEW t \in Thread, ReceiveLock(t) PROVE TypeInvariant'
  BY <1>10 DEF ReceiveLock, Goto, Status, Acquire
<1>11. ASSUME NEW t \in Thread, ReceiveWait(t) PROVE TypeInvariant'
  BY <1>11 DEF ReceiveWait, Goto, Status, Release
<1>12. ASSUME NEW t \in Thread, ReceiveGo(t) PROVE TypeInvariant'
  <2>1. queue # <<>>
    BY <1>12, EmptyRing DEF ReceiveGo
  <2>2. Tail(queue) \in Seq(Message) /\ Head(queue) \in Message
    BY <2>1, HeadTailProperties
  <2>3. queue' \in Seq(Message) /\ avilSize' \in Int
        /\ msg' \in [Thread -> Message \cup {NoMsg}]
    BY <1>12, <2>2 DEF ReceiveGo
  <2>4. chconsend' \subseteq chconsend
    BY <1>12 DEF ReceiveGo, Signalled
  <2>5. ret' \in [Thread -> Statuses]
    BY <1>12 DEF ReceiveGo, Status, Statuses
  <2>6. \E x \in PCs : Goto(t, x)
    BY <1>12 DEF ReceiveGo, PCs
  <2>7. pc[t] = "r_test" /\ UNCHANGED <<isopen, chmutex, chconrec, closes>>
    BY <1>12 DEF ReceiveGo
  <2> QED BY <2>3, <2>4, <2>5, <2>6, <2>7, TypeMove
<1>13. ASSUME NEW t \in Thread, ReceiveClosed(t) PROVE TypeInvariant'
  BY <1>13 DEF ReceiveClosed, Goto, Status
<1>14. ASSUME NEW t \in Thread, ReceiveUnlock(t) PROVE TypeInvariant'
  BY <1>14 DEF ReceiveUnlock, Goto, Status, Release
<1>15. ASSUME NEW t \in Thread, ReceiveSignal(t) PROVE TypeInvariant'
  BY <1>15 DEF ReceiveSignal, Goto, Status, Signalled
<1>16. ASSUME NEW t \in Thread, CloseLock(t) PROVE TypeInvariant'
  BY <1>16 DEF CloseLock, Goto, Status, Acquire
<1>17. ASSUME NEW t \in Thread, CloseGo(t) PROVE TypeInvariant'
  <2>1. /\ isopen' \in BOOLEAN /\ chconsend' \subseteq chconsend
        /\ chconrec' \subseteq chconrec
    BY <1>17 DEF CloseGo
  <2>2. ret' \in [Thread -> Statuses]
    BY <1>17 DEF CloseGo, Status, Statuses
  <2>3. pc[t] = "c_test" /\ Goto(t, "c_unlock") /\ "c_unlock" \in PCs
        /\ UNCHANGED <<ring, chmutex, msg, closes>>
    BY <1>17 DEF CloseGo, PCs
  <2> QED BY <2>1, <2>2, <2>3, TypeMove
<1>18. ASSUME NEW t \in Thread, CloseUnlock(t) PROVE TypeInvariant'
  BY <1>18 DEF CloseUnlock, Goto, Status, Release
<1>19. ASSUME NEW t \in Thread, SpuriousWakeup(t) PROVE TypeInvariant'
  BY <1>19 DEF SpuriousWakeup
<1>20. CASE UNCHANGED vars
  BY <1>20 DEF vars
<1> QED BY <1>1, <1>2, <1>3, <1>4, <1>5, <1>6, <1>7, <1>8, <1>9, <1>10,
          <1>11, <1>12, <1>13, <1>14, <1>15, <1>16, <1>17, <1>18, <1>19,
          <1>20
       DEF Next, ThreadStep, SendStep, ReceiveStep, CloseStep

\* chmutex names the one thread that is past a lock.
LEMMA MutexStep == IInv /\ [Next]_vars => Mutex'
<1> SUFFICES ASSUME IInv, [Next]_vars PROVE Mutex'
  OBVIOUS
<1> USE DEF IInv, TypeInvariant, Mutex, LockedPCs, SendPCs, ReceivePCs, ClosePCs, ring, cond
<1>1. ASSUME NEW t \in Sender, NEW m \in Message, SendCall(t, m) PROVE Mutex'
  BY <1>1 DEF SendCall, Goto, Status, Thread
<1>2. ASSUME NEW t \in Receiver, ReceiveCall(t) PROVE Mutex'
  BY <1>2 DEF ReceiveCall, Goto, Status, Thread
<1>3. ASSUME NEW t \in Closer, CloseCall(t) PROVE Mutex'
  BY <1>3 DEF CloseCall, Goto, Status, Thread
<1>4. ASSUME NEW t \in Thread, SendOpen(t) PROVE Mutex'
  BY <1>4 DEF SendOpen, Goto, Status
<1>5. ASSUME NEW t \in Thread, SendLock(t) PROVE Mutex'
  BY <1>5 DEF SendLock, Goto, Status, Acquire
<1>6. ASSUME NEW t \in Thread, SendWait(t) PROVE Mutex'
  BY <1>6 DEF SendWait, Goto, Status, Release
<1>7. ASSUME NEW t \in Thread, SendGo(t) PROVE Mutex'
  BY <1>7 DEF SendGo, Goto, Status, buffer_add_Q, Fits, Signalled
<1>8. ASSUME NEW t \in Thread, SendUnlock(t) PROVE Mutex'
  BY <1>8 DEF SendUnlock, Goto, Status, Release
<1>9. ASSUME NEW t \in Thread, ReceiveOpen(t) PROVE Mutex'
  BY <1>9 DEF ReceiveOpen, Goto, Status
<1>10. ASSUME NEW t \in Thread, ReceiveLock(t) PROVE Mutex'
  BY <1>10 DEF ReceiveLock, Goto, Status, Acquire
<1>11. ASSUME NEW t \in Thread, ReceiveWait(t) PROVE Mutex'
  BY <1>11 DEF ReceiveWait, Goto, Status, Release
<1>12. ASSUME NEW t \in Thread, ReceiveGo(t) PROVE Mutex'
  BY <1>12 DEF ReceiveGo, Goto, Status, Signalled
<1>13. ASSUME NEW t \in Thread, ReceiveClosed(t) PROVE Mutex'
  BY <1>13 DEF ReceiveClosed, Goto, Status
<1>14. ASSUME NEW t \in Thread, ReceiveUnlock(t) PROVE Mutex'
  BY <1>14 DEF ReceiveUnlock, Goto, Status, Release
<1>15. ASSUME NEW t \in Thread, ReceiveSignal(t) PROVE Mutex'
  BY <1>15 DEF ReceiveSignal, Goto, Status, Signalled
<1>16. ASSUME NEW t \in Thread, CloseLock(t) PROVE Mutex'
  BY <1>16 DEF CloseLock, Goto, Status, Acquire
<1>17. ASSUME NEW t \in Thread, CloseGo(t) PROVE Mutex'
  BY <1>17 DEF CloseGo, Goto, Status
<1>18. ASSUME NEW t \in Thread, CloseUnlock(t) PROVE Mutex'
  BY <1>18 DEF CloseUnlock, Goto, Status, Release
<1>19. ASSUME NEW t \in Thread, SpuriousWakeup(t) PROVE Mutex'
  BY <1>19 DEF SpuriousWakeup
<1>20. CASE UNCHANGED vars
  BY <1>20 DEF vars
<1> QED BY <1>1, <1>2, <1>3, <1>4, <1>5, <1>6, <1>7, <1>8, <1>9, <1>10,
          <1>11, <1>12, <1>13, <1>14, <1>15, <1>16, <1>17, <1>18, <1>19,
          <1>20
       DEF Next, ThreadStep, SendStep, ReceiveStep, CloseStep

\* Nobody goes to sleep once the buffer is closed.
LEMMA NoSleeperStep == IInv /\ [Next]_vars => NoSleeperAfterClose'
<1> SUFFICES ASSUME IInv, [Next]_vars PROVE NoSleeperAfterClose'
  OBVIOUS
<1> USE DEF IInv, NoSleeperAfterClose, ring, cond
<1>1. ASSUME NEW t \in Sender, NEW m \in Message, SendCall(t, m) PROVE NoSleeperAfterClose'
  BY <1>1 DEF SendCall, Goto, Status, Thread
<1>2. ASSUME NEW t \in Receiver, ReceiveCall(t) PROVE NoSleeperAfterClose'
  BY <1>2 DEF ReceiveCall, Goto, Status, Thread
<1>3. ASSUME NEW t \in Closer, CloseCall(t) PROVE NoSleeperAfterClose'
  BY <1>3 DEF CloseCall, Goto, Status, Thread
<1>4. ASSUME NEW t \in Thread, SendOpen(t) PROVE NoSleeperAfterClose'
  BY <1>4 DEF SendOpen, Goto, Status
<1>5. ASSUME NEW t \in Thread, SendLock(t) PROVE NoSleeperAfterClose'
  BY <1>5 DEF SendLock, Goto, Status, Acquire
<1>6. ASSUME NEW t \in Thread, SendWait(t) PROVE NoSleeperAfterClose'
  BY <1>6 DEF SendWait, Goto, Status, Release
<1>7. ASSUME NEW t \in Thread, SendGo(t) PROVE NoSleeperAfterClose'
  BY <1>7 DEF SendGo, Goto, Status, buffer_add_Q, Fits, Signalled
<1>8. ASSUME NEW t \in Thread, SendUnlock(t) PROVE NoSleeperAfterClose'
  BY <1>8 DEF SendUnlock, Goto, Status, Release
<1>9. ASSUME NEW t \in Thread, ReceiveOpen(t) PROVE NoSleeperAfterClose'
  BY <1>9 DEF ReceiveOpen, Goto, Status
<1>10. ASSUME NEW t \in Thread, ReceiveLock(t) PROVE NoSleeperAfterClose'
  BY <1>10 DEF ReceiveLock, Goto, Status, Acquire
<1>11. ASSUME NEW t \in Thread, ReceiveWait(t) PROVE NoSleeperAfterClose'
  BY <1>11 DEF ReceiveWait, Goto, Status, Release
<1>12. ASSUME NEW t \in Thread, ReceiveGo(t) PROVE NoSleeperAfterClose'
  BY <1>12 DEF ReceiveGo, Goto, Status, Signalled
<1>13. ASSUME NEW t \in Thread, ReceiveClosed(t) PROVE NoSleeperAfterClose'
  BY <1>13 DEF ReceiveClosed, Goto, Status
<1>14. ASSUME NEW t \in Thread, ReceiveUnlock(t) PROVE NoSleeperAfterClose'
  BY <1>14 DEF ReceiveUnlock, Goto, Status, Release
<1>15. ASSUME NEW t \in Thread, ReceiveSignal(t) PROVE NoSleeperAfterClose'
  BY <1>15 DEF ReceiveSignal, Goto, Status, Signalled
<1>16. ASSUME NEW t \in Thread, CloseLock(t) PROVE NoSleeperAfterClose'
  BY <1>16 DEF CloseLock, Goto, Status, Acquire
<1>17. ASSUME NEW t \in Thread, CloseGo(t) PROVE NoSleeperAfterClose'
  BY <1>17 DEF CloseGo, Goto, Status
<1>18. ASSUME NEW t \in Thread, CloseUnlock(t) PROVE NoSleeperAfterClose'
  BY <1>18 DEF CloseUnlock, Goto, Status, Release
<1>19. ASSUME NEW t \in Thread, SpuriousWakeup(t) PROVE NoSleeperAfterClose'
  BY <1>19 DEF SpuriousWakeup
<1>20. CASE UNCHANGED vars
  BY <1>20 DEF vars
<1> QED BY <1>1, <1>2, <1>3, <1>4, <1>5, <1>6, <1>7, <1>8, <1>9, <1>10,
          <1>11, <1>12, <1>13, <1>14, <1>15, <1>16, <1>17, <1>18, <1>19,
          <1>20
       DEF Next, ThreadStep, SendStep, ReceiveStep, CloseStep

\* Threads stay inside the functions they call.
LEMMA RolesStep == IInv /\ [Next]_vars => Roles'
<1> SUFFICES ASSUME IInv, [Next]_vars PROVE Roles'
  OBVIOUS
<1> USE DEF IInv, TypeInvariant, Roles, SendPCs, ReceivePCs, ClosePCs, ring, cond
<1>1. ASSUME NEW t \in Sender, NEW m \in Message, SendCall(t, m) PROVE Roles'
  BY <1>1 DEF SendCall, Goto, Status, Thread
<1>2. ASSUME NEW t \in Receiver, ReceiveCall(t) PROVE Roles'
  BY <1>2 DEF ReceiveCall, Goto, Status, Thread
<1>3. ASSUME NEW t \in Closer, CloseCall(t) PROVE Roles'
  BY <1>3 DEF CloseCall, Goto, Status, Thread
<1>4. ASSUME NEW t \in Thread, SendOpen(t) PROVE Roles'
  BY <1>4 DEF SendOpen, Goto, Status
<1>5. ASSUME NEW t \in Thread, SendLock(t) PROVE Roles'
  BY <1>5 DEF SendLock, Goto, Status, Acquire
<1>6. ASSUME NEW t \in Thread, SendWait(t) PROVE Roles'
  BY <1>6 DEF SendWait, Goto, Status, Release
<1>7. ASSUME NEW t \in Thread, SendGo(t) PROVE Roles'
  BY <1>7 DEF SendGo, Goto, Status, buffer_add_Q, Fits, Signalled
<1>8. ASSUME NEW t \in Thread, SendUnlock(t) PROVE Roles'
  BY <1>8 DEF SendUnlock, Goto, Status, Release
<1>9. ASSUME NEW t \in Thread, ReceiveOpen(t) PROVE Roles'
  BY <1>9 DEF ReceiveOpen, Goto, Status
<1>10. ASSUME NEW t \in Thread, ReceiveLock(t) PROVE Roles'
  BY <1>10 DEF ReceiveLock, Goto, Status, Acquire
<1>11. ASSUME NEW t \in Thread, ReceiveWait(t) PROVE Roles'
  BY <1>11 DEF ReceiveWait, Goto, Status, Release
<1>12. ASSUME NEW t \in Thread, ReceiveGo(t) PROVE Roles'
  BY <1>12 DEF ReceiveGo, Goto, Status, Signalled
<1>13. ASSUME NEW t \in Thread, ReceiveClosed(t) PROVE Roles'
  BY <1>13 DEF ReceiveClosed, Goto, Status
<1>14. ASSUME NEW t \in Thread, ReceiveUnlock(t) PROVE Roles'
  BY <1>14 DEF ReceiveUnlock, Goto, Status, Release
<1>15. ASSUME NEW t \in Thread, ReceiveSignal(t) PROVE Roles'
  BY <1>15 DEF ReceiveSignal, Goto, Status, Signalled
<1>16. ASSUME NEW t \in Thread, CloseLock(t) PROVE Roles'
  BY <1>16 DEF CloseLock, Goto, Status, Acquire
<1>17. ASSUME NEW t \in Thread, CloseGo(t) PROVE Roles'
  BY <1>17 DEF CloseGo, Goto, Status
<1>18. ASSUME NEW t \in Thread, CloseUnlock(t) PROVE Roles'
  BY <1>18 DEF CloseUnlock, Goto, Status, Release
<1>19. ASSUME NEW t \in Thread, SpuriousWakeup(t) PROVE Roles'
  BY <1>19 DEF SpuriousWakeup
<1>20. CASE UNCHANGED vars
  BY <1>20 DEF vars
<1> QED BY <1>1, <1>2, <1>3, <1>4, <1>5, <1>6, <1>7, <1>8, <1>9, <1>10,
          <1>11, <1>12, <1>13, <1>14, <1>15, <1>16, <1>17, <1>18, <1>19,
          <1>20
       DEF Next, ThreadStep, SendStep, ReceiveStep, CloseStep

\* Only a send and a receive touch the ring, and both count what they move.
LEMMA SpaceStep == IInv /\ [Next]_vars => Space'
<1> SUFFICES ASSUME IInv, [Next]_vars PROVE Space'
  OBVIOUS
<1>1. PICK used : Offsets(queue, avilSize, used)
  BY DEF IInv, Space
<1>2. queue \in Seq(Message) /\ avilSize \in Int
  BY DEF IInv, TypeInvariant
<1>3. ASSUME NEW t \in Thread, SendGo(t) PROVE Space'
  <2>1. msg[t] \in Message
    BY <1>3 DEF SendGo, IInv, Roles, SendPCs
  <2>2. CASE UNCHANGED ring
    BY <1>1, <2>2 DEF Space, ring
  <2>3. CASE queue' = Append(queue, msg[t]) /\ avilSize' = avilSize - MsgSize[msg[t]]
    BY <1>1, <1>2, <2>1, <2>3, OffsetsAppend DEF Space
  <2> QED BY <1>3, <2>2, <2>3 DEF SendGo, buffer_add_Q
<1>4. ASSUME NEW t \in Thread, ReceiveGo(t) PROVE Space'
  <2>1. queue # <<>>
    BY <1>2, <1>4, EmptyRing DEF ReceiveGo, IInv
  <2>2. queue' = Tail(queue) /\ avilSize' = avilSize + MsgSize[Head(queue)]
    BY <1>4 DEF ReceiveGo
  <2> QED BY <1>1, <1>2, <2>1, <2>2, OffsetsTail DEF Space
<1>5. CASE UNCHANGED ring
  BY <1>1, <1>5 DEF Space, ring
<1>6. UNCHANGED ring \/ \E t \in Thread : SendGo(t) \/ ReceiveGo(t)
  BY DEF Next, vars, ring, SendCall, ReceiveCall, CloseCall, ThreadStep, SendStep, SendOpen,
     SendLock, SendWait, SendUnlock, ReceiveStep, ReceiveOpen, ReceiveLock,
     ReceiveWait, ReceiveClosed, ReceiveUnlock, ReceiveSignal, CloseStep,
     CloseLock, CloseGo, CloseUnlock, SpuriousWakeup
<1> QED BY <1>3, <1>4, <1>5, <1>6

\* Every action keeps the invariant.
LEMMA InvStep == IInv /\ [Next]_vars => IInv'
BY TypeStep, MutexStep, RolesStep, SpaceStep, NoSleeperStep DEF IInv

\* IInv holds in every reachable state.
LEMMA Invariance == Spec => []IInv
BY InvInit, InvStep, PTL DEF Spec

\* The types hold for every instance; in particular buffer_receive never
\* removes from an empty ring, which avilSize < size must exclude.
THEOREM TypeCorrect == Spec => []TypeInvariant
<1>1. IInv => TypeInvariant
  BY DEF IInv
<1> QED BY <1>1, Invariance, PTL

\* No call of buffer_send or buffer_receive is left asleep by buffer_close,
\* whatever the calls in flight when it ran.
THEOREM ClosedWakesAll == Spec => []NoSleeperAfterClose
<1>1. IInv => NoSleeperAfterClose
  BY DEF IInv
<1> QED BY <1>1, Invariance, PTL

-----------------------------------------------------------------------------
(* Senders: somebody will wake a sleeping sender *)

\* Every message fits into the empty buffer.
MessagesFit == \A m \in Message : MsgSize[m] < Size

\* Nobody sleeps after buffer_create.
LEMMA HopeInit == Init => SleepingSenderHasHope
BY DEF Init, SleepingSenderHasHope

\* A sender only falls asleep while a message is stored, and whoever takes the
\* last message out signals, at once or after the unlock.
LEMMA HopeStep ==
    ASSUME IInv, MessagesFit, SleepingSenderHasHope, [Next]_vars
    PROVE  SleepingSenderHasHope'
<1> USE DEF IInv, TypeInvariant, Roles, SleepingSenderHasHope, ComingSenders, LateSignals, SendPCs, ReceivePCs, ring, cond
<1>1. ASSUME NEW t \in Sender, NEW m \in Message, SendCall(t, m) PROVE SleepingSenderHasHope'
  BY <1>1 DEF SendCall, Goto, Status, Thread
<1>2. ASSUME NEW t \in Receiver, ReceiveCall(t) PROVE SleepingSenderHasHope'
  BY <1>2 DEF ReceiveCall, Goto, Status, Thread
<1>3. ASSUME NEW t \in Closer, CloseCall(t) PROVE SleepingSenderHasHope'
  BY <1>3 DEF CloseCall, Goto, Status, Thread
<1>4. ASSUME NEW t \in Thread, SendOpen(t) PROVE SleepingSenderHasHope'
  <2>1. \E x \in {"s_lock", "idle"} : pc' = [pc EXCEPT ![t] = x]
    BY <1>4 DEF SendOpen, Goto
  <2>2. pc[t] = "s_open" /\ UNCHANGED <<isopen, queue, chconsend, chconrec>>
    BY <1>4 DEF SendOpen
  <2> QED BY <2>1, <2>2
<1>5. ASSUME NEW t \in Thread, SendLock(t) PROVE SleepingSenderHasHope'
  BY <1>5 DEF SendLock, Goto, Status, Acquire
<1>6. ASSUME NEW t \in Thread, SendWait(t) PROVE SleepingSenderHasHope'
  <2>1. msg[t] \in Message /\ avilSize <= MsgSize[msg[t]]
    BY <1>6 DEF SendWait, Fits
  <2>2. avilSize < Size
    BY <2>1 DEF MessagesFit
  <2>3. queue' # <<>>
    BY <1>6, <2>2, EmptyRing DEF SendWait
  <2> QED BY <2>3
<1>7. ASSUME NEW t \in Thread, SendGo(t) PROVE SleepingSenderHasHope'
  <2>1. CASE ~ isopen
    BY <1>7, <2>1 DEF SendGo
  <2>2. CASE isopen
    <3>1. msg[t] \in Message /\ Fits(msg[t])
      BY <1>7, <2>2 DEF SendGo
    <3>2. queue' = Append(queue, msg[t])
      BY <1>7, <2>2, <3>1 DEF SendGo, buffer_add_Q
    <3>3. queue' # <<>>
      BY <3>1, <3>2, AppendProperties
    <3> QED BY <3>3
  <2> QED BY <2>1, <2>2
<1>8. ASSUME NEW t \in Thread, SendUnlock(t) PROVE SleepingSenderHasHope'
  BY <1>8 DEF SendUnlock, Goto, Status, Release
<1>9. ASSUME NEW t \in Thread, ReceiveOpen(t) PROVE SleepingSenderHasHope'
  <2>1. \E x \in {"r_lock", "idle"} : pc' = [pc EXCEPT ![t] = x]
    BY <1>9 DEF ReceiveOpen, Goto
  <2>2. pc[t] = "r_open" /\ UNCHANGED <<isopen, queue, chconsend, chconrec>>
    BY <1>9 DEF ReceiveOpen
  <2> QED BY <2>1, <2>2
<1>10. ASSUME NEW t \in Thread, ReceiveLock(t) PROVE SleepingSenderHasHope'
  BY <1>10 DEF ReceiveLock, Goto, Status, Acquire
<1>11. ASSUME NEW t \in Thread, ReceiveWait(t) PROVE SleepingSenderHasHope'
  BY <1>11 DEF ReceiveWait, Goto, Status, Release
<1>12. ASSUME NEW t \in Thread, ReceiveGo(t) PROVE SleepingSenderHasHope'
  <2>1. CASE Head(queue) \in Special
    <3>1. t \in LateSignals'
      BY <1>12, <2>1 DEF ReceiveGo, Goto
    <3> QED BY <3>1
  <2>2. CASE Head(queue) \notin Special
    <3>1. pc'[t] = "r_unlock" /\ \A x \in Thread \ {t} : pc'[x] = pc[x]
      BY <1>12, <2>2 DEF ReceiveGo, Goto
    <3>2. chconsend' \in Signalled(chconsend) /\ pc[t] = "r_test"
      BY <1>12, <2>2 DEF ReceiveGo
    <3>3. CASE chconsend = {}
      BY <3>2, <3>3 DEF Signalled
    <3>4. CASE chconsend # {}
      <4>1. PICK x \in chconsend : chconsend' = chconsend \ {x}
        BY <3>2, <3>4 DEF Signalled
      <4>2. x \in ComingSenders'
        BY <3>1, <3>2, <4>1 DEF Thread
      <4> QED BY <4>2
    <3> QED BY <3>3, <3>4
  <2> QED BY <2>1, <2>2
<1>13. ASSUME NEW t \in Thread, ReceiveClosed(t) PROVE SleepingSenderHasHope'
  BY <1>13 DEF ReceiveClosed, Goto, Status
<1>14. ASSUME NEW t \in Thread, ReceiveUnlock(t) PROVE SleepingSenderHasHope'
  BY <1>14 DEF ReceiveUnlock, Goto, Status, Release
<1>15. ASSUME NEW t \in Thread, ReceiveSignal(t) PROVE SleepingSenderHasHope'
  <2>1. pc'[t] = "idle" /\ \A x \in Thread \ {t} : pc'[x] = pc[x]
    BY <1>15 DEF ReceiveSignal, Goto
  <2>2. chconsend' \in Signalled(chconsend) /\ pc[t] = "r_signal"
    BY <1>15 DEF ReceiveSignal
  <2>3. CASE chconsend = {}
    BY <2>2, <2>3 DEF Signalled
  <2>4. CASE chconsend # {}
    <3>1. PICK x \in chconsend : chconsend' = chconsend \ {x}
      BY <2>2, <2>4 DEF Signalled
    <3>2. x \in ComingSenders'
      BY <2>1, <2>2, <3>1 DEF Thread
    <3> QED BY <3>2
  <2> QED BY <2>3, <2>4
<1>16. ASSUME NEW t \in Thread, CloseLock(t) PROVE SleepingSenderHasHope'
  BY <1>16 DEF CloseLock, Goto, Status, Acquire
<1>17. ASSUME NEW t \in Thread, CloseGo(t) PROVE SleepingSenderHasHope'
  BY <1>17 DEF CloseGo, Goto, Status
<1>18. ASSUME NEW t \in Thread, CloseUnlock(t) PROVE SleepingSenderHasHope'
  BY <1>18 DEF CloseUnlock, Goto, Status, Release
<1>19. ASSUME NEW t \in Thread, SpuriousWakeup(t) PROVE SleepingSenderHasHope'
  BY <1>19 DEF SpuriousWakeup
<1>20. CASE UNCHANGED vars
  BY <1>20 DEF vars
<1> QED BY <1>1, <1>2, <1>3, <1>4, <1>5, <1>6, <1>7, <1>8, <1>9, <1>10,
          <1>11, <1>12, <1>13, <1>14, <1>15, <1>16, <1>17, <1>18, <1>19,
          <1>20
       DEF Next, ThreadStep, SendStep, ReceiveStep, CloseStep

\* On an open buffer no sender sleeps without a message left whose receive
\* signals, a signal under way or a sender awake, if every message fits.
THEOREM SenderHope == ASSUME MessagesFit PROVE Spec => []SleepingSenderHasHope
<1>1. IInv /\ SleepingSenderHasHope /\ [Next]_vars => SleepingSenderHasHope'
  BY HopeStep
<1> QED BY <1>1, HopeInit, Invariance, PTL DEF Spec

-----------------------------------------------------------------------------
(* Receivers: no wakeup is lost *)

\* ComingReceivers can be counted, being some of the receivers.
LEMMA ComingFinite == IsFiniteSet(ComingReceivers) /\ Cardinality(ComingReceivers) \in Nat
BY FS_Subset, FS_CardinalityType DEF ComingReceivers

\* A step that moves nothing in or out of the ring and turns no receiver away
\* from it.
LEMMA LostKept ==
    ASSUME TypeInvariant, NoLostMessage, isopen, chconrec # {}, queue' = queue,
           ComingReceivers \subseteq ComingReceivers', IsFiniteSet(ComingReceivers')
    PROVE  NoLostMessage'
<1>1. Len(queue) \in Nat /\ Len(queue) <= Cardinality(ComingReceivers)
  BY LenProperties DEF NoLostMessage, TypeInvariant
<1>2. Cardinality(ComingReceivers) <= Cardinality(ComingReceivers')
  BY FS_Subset
<1>3. Cardinality(ComingReceivers) \in Nat /\ Cardinality(ComingReceivers') \in Nat
  BY ComingFinite, FS_CardinalityType
<1>4. Len(queue') <= Cardinality(ComingReceivers')
  BY <1>1, <1>2, <1>3
<1> QED BY <1>4 DEF NoLostMessage

\* The same after a step.
LEMMA ComingFiniteStep == IsFiniteSet(ComingReceivers') /\ Cardinality(ComingReceivers') \in Nat
<1>1. ComingReceivers' \in SUBSET Receiver
  BY DEF ComingReceivers
<1> QED BY <1>1, FS_Subset, FS_CardinalityType

\* A send to sleeping receivers wakes one of them, a receiver only falls asleep
\* on an empty ring, and a receiver that takes a message uses up one arrival.
LEMMA LostStep ==
    ASSUME IInv, NoLostMessage, [Next]_vars
    PROVE  NoLostMessage'
<1> USE DEF IInv, TypeInvariant, Roles, ComingReceivers, SendPCs, ReceivePCs, ring, cond
<1> DEFINE Kept == /\ isopen' = isopen /\ chconrec' \subseteq chconrec /\ queue' = queue
                  /\ ComingReceivers \subseteq ComingReceivers'
<1>0. Kept => NoLostMessage'
  <2>1. CASE isopen /\ chconrec # {}
    BY <2>1, LostKept, ComingFiniteStep
  <2>2. CASE ~ (isopen /\ chconrec # {})
    BY <2>2 DEF NoLostMessage
  <2> QED BY <2>1, <2>2
<1>1. ASSUME NEW t \in Sender, NEW m \in Message, SendCall(t, m) PROVE NoLostMessage'
  <2>1. isopen' = isopen /\ chconrec' \subseteq chconrec /\ queue' = queue
    BY <1>1 DEF SendCall
  <2>2. ComingReceivers \subseteq ComingReceivers'
    BY <1>1 DEF SendCall, Goto, Thread
  <2> QED BY <2>1, <2>2, <1>0
<1>2. ASSUME NEW t \in Receiver, ReceiveCall(t) PROVE NoLostMessage'
  <2>1. isopen' = isopen /\ chconrec' \subseteq chconrec /\ queue' = queue
    BY <1>2 DEF ReceiveCall
  <2>2. ComingReceivers \subseteq ComingReceivers'
    BY <1>2 DEF ReceiveCall, Goto, Thread
  <2> QED BY <2>1, <2>2, <1>0
<1>3. ASSUME NEW t \in Closer, CloseCall(t) PROVE NoLostMessage'
  <2>1. isopen' = isopen /\ chconrec' \subseteq chconrec /\ queue' = queue
    BY <1>3 DEF CloseCall
  <2>2. ComingReceivers \subseteq ComingReceivers'
    BY <1>3 DEF CloseCall, Goto, Thread
  <2> QED BY <2>1, <2>2, <1>0
<1>4. ASSUME NEW t \in Thread, SendOpen(t) PROVE NoLostMessage'
  <2>1. \E x \in {"s_lock", "idle"} : pc' = [pc EXCEPT ![t] = x]
    BY <1>4 DEF SendOpen, Goto
  <2>2. pc[t] = "s_open" /\ UNCHANGED <<isopen, queue, chconsend, chconrec>>
    BY <1>4 DEF SendOpen
  <2>3. ComingReceivers \subseteq ComingReceivers'
    BY <2>1, <2>2
  <2> QED BY <2>2, <2>3, <1>0
<1>5. ASSUME NEW t \in Thread, SendLock(t) PROVE NoLostMessage'
  <2>1. isopen' = isopen /\ chconrec' \subseteq chconrec /\ queue' = queue
    BY <1>5 DEF SendLock
  <2>2. ComingReceivers \subseteq ComingReceivers'
    BY <1>5 DEF SendLock, Goto, Acquire
  <2> QED BY <2>1, <2>2, <1>0
<1>6. ASSUME NEW t \in Thread, SendWait(t) PROVE NoLostMessage'
  <2>1. isopen' = isopen /\ chconrec' \subseteq chconrec /\ queue' = queue
    BY <1>6 DEF SendWait
  <2>2. ComingReceivers \subseteq ComingReceivers'
    BY <1>6 DEF SendWait, Goto, Release
  <2> QED BY <2>1, <2>2, <1>0
<1>7. ASSUME NEW t \in Thread, SendGo(t) PROVE NoLostMessage'
  <2>1. CASE ~ isopen
    BY <1>7, <2>1 DEF SendGo, NoLostMessage
  <2>2. CASE isopen /\ chconrec = {}
    BY <1>7, <2>2 DEF SendGo, Signalled, NoLostMessage
  <2>3. CASE isopen /\ chconrec # {}
    <3>1. msg[t] \in Message /\ queue' = Append(queue, msg[t])
      BY <1>7, <2>3 DEF SendGo, buffer_add_Q
    <3>2. Len(queue) \in Nat /\ Len(queue') = Len(queue) + 1
      BY <3>1, AppendProperties, LenProperties
    <3>3. PICK x \in chconrec : chconrec' = chconrec \ {x}
      BY <1>7, <2>3 DEF SendGo, Signalled
    <3>4. pc[t] = "s_test" /\ pc'[t] = "s_unlock" /\ \A y \in Thread \ {t} : pc'[y] = pc[y]
      BY <1>7 DEF SendGo, Goto
    <3>5. x \notin ComingReceivers /\ ComingReceivers' = ComingReceivers \cup {x}
      <4>1. x \in Receiver /\ pc[x] = "r_wait" /\ x # t /\ t \in Thread
        BY <3>3, <3>4
      <4>2. pc'[x] = "r_wait" /\ x \notin chconrec' /\ x \in Thread
        BY <3>3, <3>4, <4>1 DEF Thread
      <4>3. \A y \in Receiver \ {x} : y \in ComingReceivers' <=> y \in ComingReceivers
        <5>1. \A y \in Receiver \ {x} : y \in chconrec' <=> y \in chconrec
          BY <3>3
        <5>2. \A y \in Receiver \ {t} : pc'[y] = pc[y]
          BY <3>4 DEF Thread
        <5>3. pc[t] # "r_test" /\ pc[t] # "r_wait" /\ pc'[t] # "r_test" /\ pc'[t] # "r_wait"
          BY <3>4
        <5> QED BY <5>1, <5>2, <5>3
      <4>4. x \notin ComingReceivers /\ x \in ComingReceivers'
        BY <3>3, <4>1, <4>2
      <4> QED BY <4>3, <4>4
    <3>6. Cardinality(ComingReceivers') = Cardinality(ComingReceivers) + 1
      BY <3>5, ComingFinite, FS_AddElement
    <3>7. Len(queue) <= Cardinality(ComingReceivers)
      BY <2>3 DEF NoLostMessage
    <3>8. Len(queue') <= Cardinality(ComingReceivers')
      BY <3>2, <3>6, <3>7, ComingFinite
    <3> QED BY <3>8 DEF NoLostMessage
  <2> QED BY <2>1, <2>2, <2>3
<1>8. ASSUME NEW t \in Thread, SendUnlock(t) PROVE NoLostMessage'
  <2>1. isopen' = isopen /\ chconrec' \subseteq chconrec /\ queue' = queue
    BY <1>8 DEF SendUnlock
  <2>2. ComingReceivers \subseteq ComingReceivers'
    BY <1>8 DEF SendUnlock, Goto, Release
  <2> QED BY <2>1, <2>2, <1>0
<1>9. ASSUME NEW t \in Thread, ReceiveOpen(t) PROVE NoLostMessage'
  <2>1. \E x \in {"r_lock", "idle"} : pc' = [pc EXCEPT ![t] = x]
    BY <1>9 DEF ReceiveOpen, Goto
  <2>2. pc[t] = "r_open" /\ UNCHANGED <<isopen, queue, chconsend, chconrec>>
    BY <1>9 DEF ReceiveOpen
  <2>3. ComingReceivers \subseteq ComingReceivers'
    BY <2>1, <2>2
  <2> QED BY <2>2, <2>3, <1>0
<1>10. ASSUME NEW t \in Thread, ReceiveLock(t) PROVE NoLostMessage'
  <2>1. isopen' = isopen /\ chconrec' \subseteq chconrec /\ queue' = queue
    BY <1>10 DEF ReceiveLock
  <2>2. ComingReceivers \subseteq ComingReceivers'
    BY <1>10 DEF ReceiveLock, Goto, Acquire
  <2> QED BY <2>1, <2>2, <1>0
<1>11. ASSUME NEW t \in Thread, ReceiveWait(t) PROVE NoLostMessage'
  <2>1. queue = <<>>
    BY <1>11, EmptyRing DEF ReceiveWait
  <2>2. Len(queue') = 0
    BY <1>11, <2>1, EmptySeq DEF ReceiveWait
  <2> QED BY <2>2, ComingFiniteStep DEF NoLostMessage
<1>12. ASSUME NEW t \in Thread, ReceiveGo(t) PROVE NoLostMessage'
  <2>1. queue # <<>>
    BY <1>12, EmptyRing DEF ReceiveGo
  <2>2. Len(queue) \in Nat /\ Len(queue') = Len(queue) - 1
    BY <1>12, <2>1, HeadTailProperties, LenProperties DEF ReceiveGo
  <2>3. CASE chconrec = {}
    BY <1>12, <2>3 DEF ReceiveGo, NoLostMessage
  <2>4. CASE chconrec # {}
    <3>1. Len(queue) <= Cardinality(ComingReceivers)
      BY <1>12, <2>4 DEF ReceiveGo, NoLostMessage
    <3>2. pc[t] = "r_test" /\ pc'[t] \in {"r_unlock", "r_unlock_signal"}
          /\ chconrec' = chconrec /\ \A y \in Thread \ {t} : pc'[y] = pc[y]
      BY <1>12 DEF ReceiveGo, Goto
    <3>3. t \in ComingReceivers /\ ComingReceivers' = ComingReceivers \ {t}
      BY <3>2 DEF Thread
    <3> HIDE DEF ComingReceivers
    <3>4. Cardinality(ComingReceivers') = Cardinality(ComingReceivers) - 1
      BY <3>3, ComingFinite, FS_RemoveElement
    <3>5. Len(queue') <= Cardinality(ComingReceivers')
      BY <2>2, <3>1, <3>4, ComingFinite
    <3> QED BY <3>5 DEF NoLostMessage
  <2> QED BY <2>3, <2>4
<1>13. ASSUME NEW t \in Thread, ReceiveClosed(t) PROVE NoLostMessage'
  BY <1>13 DEF ReceiveClosed, NoLostMessage
<1>14. ASSUME NEW t \in Thread, ReceiveUnlock(t) PROVE NoLostMessage'
  <2>1. isopen' = isopen /\ chconrec' \subseteq chconrec /\ queue' = queue
    BY <1>14 DEF ReceiveUnlock
  <2>2. ComingReceivers \subseteq ComingReceivers'
    BY <1>14 DEF ReceiveUnlock, Goto, Release
  <2> QED BY <2>1, <2>2, <1>0
<1>15. ASSUME NEW t \in Thread, ReceiveSignal(t) PROVE NoLostMessage'
  <2>1. isopen' = isopen /\ chconrec' \subseteq chconrec /\ queue' = queue
    BY <1>15 DEF ReceiveSignal
  <2>2. ComingReceivers \subseteq ComingReceivers'
    BY <1>15 DEF ReceiveSignal, Goto, Signalled
  <2> QED BY <2>1, <2>2, <1>0
<1>16. ASSUME NEW t \in Thread, CloseLock(t) PROVE NoLostMessage'
  <2>1. isopen' = isopen /\ chconrec' \subseteq chconrec /\ queue' = queue
    BY <1>16 DEF CloseLock
  <2>2. ComingReceivers \subseteq ComingReceivers'
    BY <1>16 DEF CloseLock, Goto, Acquire
  <2> QED BY <2>1, <2>2, <1>0
<1>17. ASSUME NEW t \in Thread, CloseGo(t) PROVE NoLostMessage'
  BY <1>17 DEF CloseGo, NoLostMessage
<1>18. ASSUME NEW t \in Thread, CloseUnlock(t) PROVE NoLostMessage'
  <2>1. isopen' = isopen /\ chconrec' \subseteq chconrec /\ queue' = queue
    BY <1>18 DEF CloseUnlock
  <2>2. ComingReceivers \subseteq ComingReceivers'
    BY <1>18 DEF CloseUnlock, Goto, Release
  <2> QED BY <2>1, <2>2, <1>0
<1>19. ASSUME NEW t \in Thread, SpuriousWakeup(t) PROVE NoLostMessage'
  <2>1. isopen' = isopen /\ chconrec' \subseteq chconrec /\ queue' = queue
    BY <1>19 DEF SpuriousWakeup
  <2>2. ComingReceivers \subseteq ComingReceivers'
    BY <1>19 DEF SpuriousWakeup
  <2> QED BY <2>1, <2>2, <1>0
<1>20. CASE UNCHANGED vars
  BY <1>20, <1>0 DEF vars
<1> QED BY <1>1, <1>2, <1>3, <1>4, <1>5, <1>6, <1>7, <1>8, <1>9, <1>10,
          <1>11, <1>12, <1>13, <1>14, <1>15, <1>16, <1>17, <1>18, <1>19,
          <1>20
       DEF Next, ThreadStep, SendStep, ReceiveStep, CloseStep

\* No wakeup of a receiver is lost: as long as one sleeps on an open buffer,
\* every stored message has a receiver of its own on the way, for any number of
\* senders and receivers, with spurious wakeups and with threads that take the
\* mutex before the one that was signalled.
THEOREM WakeupsSuffice == Spec => []NoLostMessage
<1>1. Init => NoLostMessage
  BY DEF Init, NoLostMessage
<1>2. IInv /\ NoLostMessage /\ [Next]_vars => NoLostMessage'
  BY LostStep
<1> QED BY <1>1, <1>2, Invariance, PTL DEF Spec


-----------------------------------------------------------------------------
(* Senders: nobody sleeps next to free space, if messages have one size *)

EqualSizes == \A m, n \in Message : MsgSize[m] = MsgSize[n]

Awake == ComingSenders \cup LateSignals

\* While a sender sleeps, the senders that are awake and the signals under way,
\* taken together, are enough to use up the free space: with one more message
\* than there are of them the ring is full.
EnoughAwake ==
    isopen /\ chconsend # {} =>
        \A m \in Message : avilSize <= MsgSize[m] * (Cardinality(Awake) + 1)

\* They can be counted, being threads that send or receive.
LEMMA AwakeFinite == IsFiniteSet(Awake) /\ Cardinality(Awake) \in Nat
<1>1. IsFiniteSet(Sender \cup Receiver)
  BY FS_Union
<1>2. Awake \in SUBSET (Sender \cup Receiver)
  BY DEF Awake, ComingSenders, LateSignals
<1> QED BY <1>1, <1>2, FS_Subset, FS_CardinalityType

\* The same after a step.
LEMMA AwakeFiniteStep == IsFiniteSet(Awake') /\ Cardinality(Awake') \in Nat
<1>1. IsFiniteSet(Sender \cup Receiver)
  BY FS_Union
<1>2. Awake' \in SUBSET (Sender \cup Receiver)
  BY DEF Awake, ComingSenders, LateSignals
<1> QED BY <1>1, <1>2, FS_Subset, FS_CardinalityType

\* Room for n + 1 messages is room for n and for one more.
LEMMA OneMore ==
    ASSUME NEW u \in Nat, NEW n \in Nat
    PROVE  u * (n + 1) = u * n + u
OBVIOUS

\* One message takes no more than several do.
LEMMA ManyTimes ==
    ASSUME NEW u \in Nat, NEW n \in Nat
    PROVE  u <= u * (n + 1)
<1>1. u * n \in Nat
  OBVIOUS
<1> QED BY <1>1, OneMore

\* A receive gives back the space of one message and wakes one sender, or will; a
\* sender that goes on takes the space of one message; a sender only falls asleep
\* when there is room for none.
LEMMA AwakeStep ==
    ASSUME EqualSizes, IInv, EnoughAwake, [Next]_vars
    PROVE  EnoughAwake'
<1> USE DEF IInv, TypeInvariant, Roles, Awake, ComingSenders, LateSignals, SendPCs,
            ReceivePCs, ring, cond
<1> DEFINE Kept == /\ isopen' = isopen /\ chconsend' \subseteq chconsend
                   /\ avilSize' = avilSize /\ Awake \subseteq Awake'
<1>0. Kept => EnoughAwake'
  <2> SUFFICES ASSUME Kept, isopen, chconsend # {}, NEW m \in Message
               PROVE  avilSize <= MsgSize[m] * (Cardinality(Awake') + 1)
    BY DEF EnoughAwake
  <2> HIDE DEF Awake, ComingSenders, LateSignals
  <2>1. avilSize <= MsgSize[m] * (Cardinality(Awake) + 1)
    BY DEF EnoughAwake
  <2>2. Cardinality(Awake) <= Cardinality(Awake')
    BY AwakeFiniteStep, FS_Subset
  <2>3. \A u, j, k \in Nat : j <= k => u * (j + 1) <= u * (k + 1)
    OBVIOUS
  <2>4. MsgSize[m] * (Cardinality(Awake) + 1) <= MsgSize[m] * (Cardinality(Awake') + 1)
    BY <2>2, <2>3, AwakeFinite, AwakeFiniteStep
  <2>5. /\ MsgSize[m] * (Cardinality(Awake) + 1) \in Int
        /\ MsgSize[m] * (Cardinality(Awake') + 1) \in Int
    BY AwakeFinite, AwakeFiniteStep
  <2> QED BY <2>1, <2>4, <2>5
<1>1. ASSUME NEW t \in Sender, NEW m \in Message, SendCall(t, m) PROVE EnoughAwake'
  <2>1. isopen' = isopen /\ chconsend' \subseteq chconsend /\ avilSize' = avilSize
    BY <1>1 DEF SendCall
  <2>2. Awake \subseteq Awake'
    BY <1>1 DEF SendCall, Goto, Thread
  <2> QED BY <2>1, <2>2, <1>0
<1>2. ASSUME NEW t \in Receiver, ReceiveCall(t) PROVE EnoughAwake'
  <2>1. isopen' = isopen /\ chconsend' \subseteq chconsend /\ avilSize' = avilSize
    BY <1>2 DEF ReceiveCall
  <2>2. Awake \subseteq Awake'
    BY <1>2 DEF ReceiveCall, Goto, Thread
  <2> QED BY <2>1, <2>2, <1>0
<1>3. ASSUME NEW t \in Closer, CloseCall(t) PROVE EnoughAwake'
  <2>1. isopen' = isopen /\ chconsend' \subseteq chconsend /\ avilSize' = avilSize
    BY <1>3 DEF CloseCall
  <2>2. Awake \subseteq Awake'
    BY <1>3 DEF CloseCall, Goto, Thread
  <2> QED BY <2>1, <2>2, <1>0
<1>4. ASSUME NEW t \in Thread, SendOpen(t) PROVE EnoughAwake'
  <2>1. \E x \in {"s_lock", "idle"} : pc' = [pc EXCEPT ![t] = x]
    BY <1>4 DEF SendOpen, Goto
  <2>2. pc[t] = "s_open" /\ UNCHANGED <<isopen, avilSize, chconsend>>
    BY <1>4 DEF SendOpen
  <2>3. Awake \subseteq Awake'
    BY <2>1, <2>2
  <2> QED BY <2>2, <2>3, <1>0
<1>5. ASSUME NEW t \in Thread, SendLock(t) PROVE EnoughAwake'
  <2>1. isopen' = isopen /\ chconsend' \subseteq chconsend /\ avilSize' = avilSize
    BY <1>5 DEF SendLock
  <2>2. Awake \subseteq Awake'
    BY <1>5 DEF SendLock, Goto, Acquire
  <2> QED BY <2>1, <2>2, <1>0
<1>6. ASSUME NEW t \in Thread, SendWait(t) PROVE EnoughAwake'
  <2>1. pc[t] = "s_test" /\ ~ Fits(msg[t]) /\ isopen' = isopen /\ avilSize' = avilSize
        /\ msg[t] \in Message
    BY <1>6 DEF SendWait
  <2>2. ASSUME NEW m \in Message PROVE avilSize <= MsgSize[m] * (Cardinality(Awake') + 1)
    <3>1. MsgSize[m] = MsgSize[msg[t]] /\ MsgSize[m] \in Nat
      BY <2>1 DEF EqualSizes
    <3>2. avilSize <= MsgSize[m]
      BY <2>1, <3>1 DEF Fits
    <3> HIDE DEF Awake, ComingSenders, LateSignals
    <3>3. /\ MsgSize[m] <= MsgSize[m] * (Cardinality(Awake') + 1)
          /\ MsgSize[m] * (Cardinality(Awake') + 1) \in Int
      BY <3>1, ManyTimes, AwakeFiniteStep
    <3> QED BY <3>1, <3>2, <3>3
  <2> QED BY <2>1, <2>2 DEF EnoughAwake
<1>7. ASSUME NEW t \in Thread, SendGo(t) PROVE EnoughAwake'
  <2>1. CASE ~ isopen
    BY <1>7, <2>1 DEF SendGo, EnoughAwake
  <2>2. CASE isopen /\ chconsend = {}
    BY <1>7, <2>2 DEF SendGo, EnoughAwake
  <2>3. CASE isopen /\ chconsend # {}
    <3>1. msg[t] \in Message /\ avilSize' = avilSize - MsgSize[msg[t]]
          /\ UNCHANGED <<isopen, chconsend>>
      BY <1>7, <2>3 DEF SendGo, buffer_add_Q
    <3>2. pc[t] = "s_test" /\ pc'[t] = "s_unlock" /\ \A x \in Thread \ {t} : pc'[x] = pc[x]
      BY <1>7 DEF SendGo, Goto
    <3>3. t \in Awake /\ Awake' = Awake \ {t}
      BY <3>1, <3>2 DEF Thread
    <3> HIDE DEF Awake, ComingSenders, LateSignals
    <3>4. Cardinality(Awake') = Cardinality(Awake) - 1
      BY <3>3, AwakeFinite, FS_RemoveElement
    <3>5. ASSUME NEW m \in Message PROVE avilSize' <= MsgSize[m] * (Cardinality(Awake') + 1)
      <4>1. avilSize <= MsgSize[m] * (Cardinality(Awake) + 1)
        BY <2>3 DEF EnoughAwake
      <4>2. MsgSize[m] = MsgSize[msg[t]] /\ MsgSize[m] \in Nat
        BY <3>1 DEF EqualSizes
      <4>3. MsgSize[m] * (Cardinality(Awake) + 1)
              = MsgSize[m] * (Cardinality(Awake') + 1) + MsgSize[m]
        <5>1. Cardinality(Awake') + 1 \in Nat /\ Cardinality(Awake) = Cardinality(Awake') + 1
          BY <3>4, AwakeFinite, AwakeFiniteStep
        <5> QED BY <4>2, <5>1, OneMore
      <4>4. MsgSize[m] * (Cardinality(Awake') + 1) \in Int
        BY <4>2, AwakeFiniteStep
      <4> QED BY <3>1, <4>1, <4>2, <4>3, <4>4
    <3> QED BY <3>5 DEF EnoughAwake
  <2> QED BY <2>1, <2>2, <2>3
<1>8. ASSUME NEW t \in Thread, SendUnlock(t) PROVE EnoughAwake'
  <2>1. isopen' = isopen /\ chconsend' \subseteq chconsend /\ avilSize' = avilSize
    BY <1>8 DEF SendUnlock
  <2>2. Awake \subseteq Awake'
    BY <1>8 DEF SendUnlock, Goto, Release
  <2> QED BY <2>1, <2>2, <1>0
<1>9. ASSUME NEW t \in Thread, ReceiveOpen(t) PROVE EnoughAwake'
  <2>1. \E x \in {"r_lock", "idle"} : pc' = [pc EXCEPT ![t] = x]
    BY <1>9 DEF ReceiveOpen, Goto
  <2>2. pc[t] = "r_open" /\ UNCHANGED <<isopen, avilSize, chconsend>>
    BY <1>9 DEF ReceiveOpen
  <2>3. Awake \subseteq Awake'
    BY <2>1, <2>2
  <2> QED BY <2>2, <2>3, <1>0
<1>10. ASSUME NEW t \in Thread, ReceiveLock(t) PROVE EnoughAwake'
  <2>1. isopen' = isopen /\ chconsend' \subseteq chconsend /\ avilSize' = avilSize
    BY <1>10 DEF ReceiveLock
  <2>2. Awake \subseteq Awake'
    BY <1>10 DEF ReceiveLock, Goto, Acquire
  <2> QED BY <2>1, <2>2, <1>0
<1>11. ASSUME NEW t \in Thread, ReceiveWait(t) PROVE EnoughAwake'
  <2>1. isopen' = isopen /\ chconsend' \subseteq chconsend /\ avilSize' = avilSize
    BY <1>11 DEF ReceiveWait
  <2>2. Awake \subseteq Awake'
    BY <1>11 DEF ReceiveWait, Goto, Release
  <2> QED BY <2>1, <2>2, <1>0
<1>12. ASSUME NEW t \in Thread, ReceiveGo(t) PROVE EnoughAwake'
  <2>1. CASE chconsend = {}
    BY <1>12, <2>1 DEF ReceiveGo, Signalled, EnoughAwake
  <2>2. CASE chconsend # {}
    <3>1. pc[t] = "r_test" /\ pc'[t] \in {"r_unlock", "r_unlock_signal"}
          /\ \A y \in Thread \ {t} : pc'[y] = pc[y]
      BY <1>12 DEF ReceiveGo, Goto
    <3>2. Head(queue) \in Message /\ avilSize' = avilSize + MsgSize[Head(queue)]
          /\ isopen' = isopen /\ isopen
      BY <1>12, EmptyRing, HeadTailProperties DEF ReceiveGo
    <3>3. \E x : x \notin Awake /\ Awake' = Awake \cup {x}
      <4>1. CASE Head(queue) \in Special
        <5>1. pc'[t] = "r_unlock_signal" /\ chconsend' = chconsend
          BY <1>12, <4>1 DEF ReceiveGo, Goto
        <5>2. ComingSenders' = ComingSenders /\ t \notin ComingSenders
          BY <3>1, <5>1 DEF Thread
        <5>3. LateSignals' = LateSignals \cup {t} /\ t \notin LateSignals
          BY <3>1, <5>1 DEF Thread
        <5> QED BY <5>2, <5>3
      <4>2. CASE Head(queue) \notin Special
        <5>1. pc'[t] = "r_unlock"
          BY <1>12, <4>2 DEF ReceiveGo, Goto
        <5>2. PICK x \in chconsend : chconsend' = chconsend \ {x}
          BY <1>12, <2>2, <4>2 DEF ReceiveGo, Signalled
        <5>3. x \in Sender /\ pc[x] = "s_wait" /\ x # t /\ pc'[x] = "s_wait"
          BY <3>1, <5>2 DEF Thread
        <5>4. LateSignals' = LateSignals /\ x \notin LateSignals
          BY <3>1, <5>1, <5>3 DEF Thread
        <5>5. ComingSenders' = ComingSenders \cup {x} /\ x \notin ComingSenders
          BY SMTT(30), <3>1, <5>1, <5>2, <5>3 DEF Thread
        <5> QED BY <5>4, <5>5
      <4> QED BY <4>1, <4>2
    <3> HIDE DEF Awake, ComingSenders, LateSignals
    <3>4. Cardinality(Awake') = Cardinality(Awake) + 1
      BY <3>3, AwakeFinite, FS_AddElement
    <3>5. ASSUME NEW m \in Message PROVE avilSize' <= MsgSize[m] * (Cardinality(Awake') + 1)
      <4>1. avilSize <= MsgSize[m] * (Cardinality(Awake) + 1)
        BY <2>2, <3>2 DEF EnoughAwake
      <4>2. MsgSize[m] = MsgSize[Head(queue)] /\ MsgSize[m] \in Nat
        BY <3>2 DEF EqualSizes
      <4>3. MsgSize[m] * (Cardinality(Awake') + 1)
              = MsgSize[m] * (Cardinality(Awake) + 1) + MsgSize[m]
        BY <3>4, <4>2, OneMore, AwakeFinite, AwakeFiniteStep
      <4>4. MsgSize[m] * (Cardinality(Awake) + 1) \in Int
        BY <4>2, AwakeFinite
      <4> QED BY <3>2, <4>1, <4>2, <4>3, <4>4
    <3> QED BY <3>5 DEF EnoughAwake
  <2> QED BY <2>1, <2>2
<1>13. ASSUME NEW t \in Thread, ReceiveClosed(t) PROVE EnoughAwake'
  <2>1. isopen' = isopen /\ chconsend' \subseteq chconsend /\ avilSize' = avilSize
    BY <1>13 DEF ReceiveClosed
  <2>2. Awake \subseteq Awake'
    BY <1>13 DEF ReceiveClosed, Goto
  <2> QED BY <2>1, <2>2, <1>0
<1>14. ASSUME NEW t \in Thread, ReceiveUnlock(t) PROVE EnoughAwake'
  <2>1. isopen' = isopen /\ chconsend' \subseteq chconsend /\ avilSize' = avilSize
    BY <1>14 DEF ReceiveUnlock
  <2>2. Awake \subseteq Awake'
    BY <1>14 DEF ReceiveUnlock, Goto, Release
  <2> QED BY <2>1, <2>2, <1>0
<1>15. ASSUME NEW t \in Thread, ReceiveSignal(t) PROVE EnoughAwake'
  <2>1. CASE chconsend = {}
    BY <1>15, <2>1 DEF ReceiveSignal, Signalled, EnoughAwake
  <2>2. CASE chconsend # {}
    <3>1. pc[t] = "r_signal" /\ pc'[t] = "idle" /\ (\A y \in Thread \ {t} : pc'[y] = pc[y])
          /\ UNCHANGED <<isopen, avilSize>>
      BY <1>15 DEF ReceiveSignal, Goto
    <3>2. PICK x \in chconsend : chconsend' = chconsend \ {x}
      BY <1>15, <2>2 DEF ReceiveSignal, Signalled
    <3>3. x \in Sender /\ pc[x] = "s_wait" /\ x # t /\ pc'[x] = "s_wait"
      BY <3>1, <3>2 DEF Thread
    <3>4. ComingSenders' = ComingSenders \cup {x}
      BY <3>1, <3>2, <3>3 DEF Thread
    <3>5. LateSignals' = LateSignals \ {t}
      BY <3>1 DEF Thread
    <3>6. x \notin Awake /\ t \notin ComingSenders
      BY <3>1, <3>2, <3>3
    <3>7. t \in Awake
      BY <3>1
    <3>8. Awake' = (Awake \ {t}) \cup {x} /\ x \notin Awake \ {t}
      BY <3>3, <3>4, <3>5, <3>6
    <3> HIDE DEF Awake, ComingSenders, LateSignals
    <3>9. Cardinality(Awake') = Cardinality(Awake)
      <4>1. IsFiniteSet(Awake \ {t}) /\ Cardinality(Awake \ {t}) = Cardinality(Awake) - 1
        BY <3>7, AwakeFinite, FS_RemoveElement
      <4>2. Cardinality(Awake') = Cardinality(Awake \ {t}) + 1
        BY <3>8, <4>1, FS_AddElement
      <4> QED BY <4>1, <4>2, AwakeFinite
    <3> QED BY <2>2, <3>1, <3>9 DEF EnoughAwake
  <2> QED BY <2>1, <2>2
<1>16. ASSUME NEW t \in Thread, CloseLock(t) PROVE EnoughAwake'
  <2>1. isopen' = isopen /\ chconsend' \subseteq chconsend /\ avilSize' = avilSize
    BY <1>16 DEF CloseLock
  <2>2. Awake \subseteq Awake'
    BY <1>16 DEF CloseLock, Goto, Acquire
  <2> QED BY <2>1, <2>2, <1>0
<1>17. ASSUME NEW t \in Thread, CloseGo(t) PROVE EnoughAwake'
  <2>1. CASE isopen
    BY <1>17, <2>1 DEF CloseGo, EnoughAwake
  <2>2. CASE ~ isopen
    BY <1>17, <2>2 DEF CloseGo, EnoughAwake
  <2> QED BY <2>1, <2>2
<1>18. ASSUME NEW t \in Thread, CloseUnlock(t) PROVE EnoughAwake'
  <2>1. isopen' = isopen /\ chconsend' \subseteq chconsend /\ avilSize' = avilSize
    BY <1>18 DEF CloseUnlock
  <2>2. Awake \subseteq Awake'
    BY <1>18 DEF CloseUnlock, Goto, Release
  <2> QED BY <2>1, <2>2, <1>0
<1>19. ASSUME NEW t \in Thread, SpuriousWakeup(t) PROVE EnoughAwake'
  <2>1. isopen' = isopen /\ chconsend' \subseteq chconsend /\ avilSize' = avilSize
    BY <1>19 DEF SpuriousWakeup
  <2>2. Awake \subseteq Awake'
    BY <1>19 DEF SpuriousWakeup
  <2> QED BY <2>1, <2>2, <1>0
<1>20. CASE UNCHANGED vars
  BY <1>20, <1>0 DEF vars
<1> QED BY <1>1, <1>2, <1>3, <1>4, <1>5, <1>6, <1>7, <1>8, <1>9, <1>10,
          <1>11, <1>12, <1>13, <1>14, <1>15, <1>16, <1>17, <1>18, <1>19,
          <1>20
       DEF Next, ThreadStep, SendStep, ReceiveStep, CloseStep

\* As long as all messages have one size no sender keeps sleeping next to room
\* for its message: some sender is awake or about to be signalled, with any number
\* of threads, barging senders, spurious wakeups and the late signal of "splmsg".
\* (With two sizes this is false: the run buffer_mixed.)
THEOREM SendersUseSpace == ASSUME EqualSizes PROVE Spec => []NoStrandedSender
<1>1. Init => EnoughAwake
  BY DEF Init, EnoughAwake
<1>2. IInv /\ EnoughAwake /\ [Next]_vars => EnoughAwake'
  BY AwakeStep
<1>3. IInv /\ EnoughAwake => NoStrandedSender
  <2> SUFFICES ASSUME IInv, EnoughAwake, isopen, NEW t \in chconsend, Fits(msg[t])
               PROVE  Awake # {}
    BY DEF NoStrandedSender, Awake
  <2>1. msg[t] \in Message
    BY DEF IInv, TypeInvariant, Roles, SendPCs, Thread
  <2>2. avilSize <= MsgSize[msg[t]] * (Cardinality(Awake) + 1)
    BY <2>1 DEF EnoughAwake
  <2>3. avilSize > MsgSize[msg[t]] /\ MsgSize[msg[t]] \in Nat /\ avilSize \in Int
    BY <2>1 DEF Fits, IInv, TypeInvariant
  <2>4. Cardinality(Awake) # 0
    BY <2>2, <2>3
  <2> QED BY <2>4, FS_EmptySet
<1> QED BY <1>1, <1>2, <1>3, Invariance, PTL DEF Spec

-----------------------------------------------------------------------------
(* The channel *)

\* A nonempty set of natural numbers has a least element, < being well founded.
LEMMA LeastNatural ==
    ASSUME NEW S \in SUBSET Nat, S # {}
    PROVE  \E m \in S : \A k \in S : m <= k
<1> DEFINE Less == OpToRel(<, Nat)
<1>1. IsWellFoundedOn(Less, Nat)
  BY NatLessThanWellFounded, Zenon
<1>2. \A k, m \in Nat : k < m => <<k, m>> \in Less
  BY DEF OpToRel
<1> HIDE DEF Less
<1>3. PICK m \in S : \A k \in S : ~ (<<k, m>> \in Less)
  BY <1>1, WFMin
<1>4. \A k \in S : ~ (k < m)
  BY <1>2, <1>3
<1> QED BY <1>4

\* A function defined by recursion on the first numbers is the only one of its
\* kind, since a first difference has no first difference before it.
LEMMA OneFunction ==
    ASSUME NEW q \in Seq(Message), NEW f, NEW g,
           f = [k \in 0 .. Len(q) |-> IF k = 0 THEN 0 ELSE f[k - 1] + MsgSize[q[k]]],
           g = [k \in 0 .. Len(q) |-> IF k = 0 THEN 0 ELSE g[k - 1] + MsgSize[q[k]]]
    PROVE  f[Len(q)] = g[Len(q)]
<1> DEFINE D == {k \in 0 .. Len(q) : f[k] # g[k]}
<1>1. Len(q) \in Nat
  BY LenProperties
<1>2. CASE D = {}
  <2>1. Len(q) \in 0 .. Len(q)
    BY <1>1
  <2>2. \A k \in 0 .. Len(q) : k \notin D
    BY <1>2
  <2> QED BY <2>1, <2>2
<1>3. CASE D # {}
  <2>1. D \in SUBSET Nat
    BY <1>1
  <2>2. PICK m \in D : \A k \in D : m <= k
    BY <2>1, <1>3, LeastNatural
  <2>3. m \in 0 .. Len(q) /\ f[m] # g[m]
    BY <2>2
  <2>4. CASE m = 0
    BY <2>3, <2>4, <1>1
  <2>5. CASE m # 0
    <3>1. m - 1 \in 0 .. Len(q) /\ ~ (m <= m - 1)
      BY <2>3, <2>5, <1>1
    <3>2. f[m - 1] = g[m - 1]
      BY <3>1, <2>2
    <3>3. /\ f[m] = f[m - 1] + MsgSize[q[m]]
          /\ g[m] = g[m - 1] + MsgSize[q[m]]
      BY <2>3, <2>5
    <3> QED BY <3>2, <3>3, <2>3
  <2> QED BY <2>4, <2>5
<1> QED BY <1>2, <1>3

\* The abstract channel is as full as the ring.
LEMMA BytesUsed ==
    ASSUME NEW q \in Seq(Message), NEW a \in Int, NEW used, Offsets(q, a, used)
    PROVE  Chan!Bytes(q) = Size - a
<1> DEFINE Sums(f) == f = [k \in 0 .. Len(q) |->
                             IF k = 0 THEN 0 ELSE f[k - 1] + MsgSize[q[k]]]
<1>1. Chan!Bytes(q) = (CHOOSE f : Sums(f))[Len(q)]
  BY DEF Chan!Bytes
<1>2. Sums(used)
  <2> DEFINE g == [k \in 0 .. Len(q) |-> IF k = 0 THEN 0 ELSE used[k - 1] + MsgSize[q[k]]]
  <2>1. Len(q) \in Nat
    BY LenProperties
  <2>2. used \in [0 .. Len(q) -> Int] /\ g = [k \in 0 .. Len(q) |-> g[k]]
    BY DEF Offsets
  <2>3. ASSUME NEW k \in 0 .. Len(q) PROVE used[k] = g[k]
    <3>1. CASE k = 0
      BY <3>1, <2>3 DEF Offsets
    <3>2. CASE k # 0
      <4>1. k \in 1 .. Len(q)
        BY <3>2, <2>1
      <4> QED BY <3>2, <4>1 DEF Offsets
    <3> QED BY <3>1, <3>2
  <2> QED BY <2>2, <2>3
<1>3. Sums(CHOOSE f : Sums(f))
  BY <1>2
<1>4. (CHOOSE f : Sums(f))[Len(q)] = used[Len(q)]
  BY <1>2, <1>3, OneFunction
<1>5. Len(q) \in Nat /\ used[Len(q)] \in Int /\ a = Size - used[Len(q)]
  BY LenProperties DEF Offsets
<1> QED BY <1>1, <1>4, <1>5

\* So the code's test for room is that of the channel.
LEMMA RoomAgrees ==
    ASSUME TypeInvariant, Space, NEW m \in Message
    PROVE  Chan!Room(m) <=> Fits(m)
<1>1. PICK used : Offsets(queue, avilSize, used)
  BY DEF Space
<1>2. Chan!Bytes(queue) = Size - avilSize
  BY <1>1, BytesUsed DEF TypeInvariant
<1> QED BY <1>2 DEF Chan!Room, Fits, TypeInvariant

\* Where a thread goes it is.
LEMMA Arrives ==
    ASSUME TypeInvariant, NEW t \in Thread, NEW l, Goto(t, l)
    PROVE  pc'[t] = l
BY DEF Goto, TypeInvariant

\* A thread whose place does not change keeps its request, and one that moves has
\* the request of its new place.
LEMMA RequestMoves ==
    ASSUME TypeInvariant, NEW t \in Thread, NEW l, Goto(t, l)
    PROVE  /\ pc'[t] = l
           /\ [x \in Thread |-> Request(x)']
                = [[x \in Thread |-> Request(x)] EXCEPT ![t] = Request(t)']
<1>1. pc' = [pc EXCEPT ![t] = l] /\ pc \in [Thread -> PCs]
  BY DEF Goto, TypeInvariant, PCs
<1>2. \A x \in Thread \ {t} : Request(x)' = Request(x)
  BY <1>1 DEF Request
<1> QED BY <1>1, <1>2


\* A step after which every call is where it was.
LEMMA CallsStay ==
    ASSUME TypeInvariant, NEW t \in Thread, NEW l, Goto(t, l), Request(t)' = Request(t),
           UNCHANGED <<queue, isopen, msg, ret>>
    PROVE  UNCHANGED Chan!vars
<1>1. [x \in Thread |-> Request(x)] = [x \in Thread |-> Request(x)]'
  BY RequestMoves
<1> QED BY <1>1 DEF Chan!vars

\* A call that starts.
LEMMA CallBegins ==
    ASSUME TypeInvariant, NEW t \in Thread, NEW l, Goto(t, l), NEW op,
           pc[t] = "idle", Request(t)' = op, Status(t, "none"), UNCHANGED <<queue, isopen>>
    PROVE  Chan!Begin(t, op)
<1>1. Request(t) = "none"
  BY DEF Request
<1>2. [x \in Thread |-> Request(x)]' = [[x \in Thread |-> Request(x)] EXCEPT ![t] = op]
  BY RequestMoves
<1> QED BY <1>1, <1>2 DEF Chan!Begin, Status

\* A call that takes effect, or is refused.
LEMMA CallEnds ==
    ASSUME TypeInvariant, NEW t \in Thread, NEW l, Goto(t, l), NEW op, NEW status,
           Request(t) = op, Request(t)' = "none", Status(t, status)
    PROVE  Chan!End(t, op, status)
<1>1. [x \in Thread |-> Request(x)]' = [[x \in Thread |-> Request(x)] EXCEPT ![t] = "none"]
  BY RequestMoves
<1> QED BY <1>1 DEF Chan!End, Status

ChannelMoves == [Chan!Next]_(Chan!vars)

\* Every step of a thread is a step of the channel, or none.
LEMMA ChannelStep ==
    ASSUME IInv, [Next]_vars
    PROVE  ChannelMoves
<1> USE DEF IInv, Roles, ring, cond
<1>0. ASSUME NEW t \in Thread, \/ \E m \in Message : Chan!BeginSend(t, m)
                               \/ Chan!BeginReceive(t) \/ Chan!BeginClose(t)
                               \/ Chan!Send(t) \/ Chan!Receive(t)
                               \/ Chan!Refuse(t) \/ Chan!Close(t)
      PROVE  ChannelMoves
  BY <1>0 DEF Chan!Next, ChannelMoves
<1>1. ASSUME NEW t \in Sender, NEW m \in Message, SendCall(t, m) PROVE ChannelMoves
  <2>1. t \in Thread /\ pc[t] = "idle" /\ Goto(t, "s_open") /\ Status(t, "none")
        /\ UNCHANGED <<queue, isopen>> /\ msg' = [msg EXCEPT ![t] = m]
    BY <1>1 DEF SendCall, Thread
  <2>2. Request(t)' = "send"
    BY <2>1, Arrives DEF Request
  <2>3. Chan!Begin(t, "send")
    BY <2>1, <2>2, CallBegins
  <2> QED BY <2>1, <2>3, <1>0 DEF Chan!BeginSend
<1>2. ASSUME NEW t \in Receiver, ReceiveCall(t) PROVE ChannelMoves
  <2>1. t \in Thread /\ pc[t] = "idle" /\ Goto(t, "r_open") /\ Status(t, "none")
        /\ UNCHANGED <<queue, isopen>> /\ msg' = [msg EXCEPT ![t] = NoMsg]
    BY <1>2 DEF ReceiveCall, Thread
  <2>2. Request(t)' = "receive"
    BY <2>1, Arrives DEF Request
  <2>3. Chan!Begin(t, "receive")
    BY <2>1, <2>2, CallBegins
  <2> QED BY <2>1, <2>3, <1>0 DEF Chan!BeginReceive
<1>3. ASSUME NEW t \in Closer, CloseCall(t) PROVE ChannelMoves
  <2>1. t \in Thread /\ pc[t] = "idle" /\ Goto(t, "c_lock") /\ Status(t, "none")
        /\ UNCHANGED <<queue, isopen, msg>>
    BY <1>3 DEF CloseCall, Thread
  <2>2. Request(t)' = "close"
    BY <2>1, Arrives DEF Request
  <2>3. Chan!Begin(t, "close")
    BY <2>1, <2>2, CallBegins
  <2> QED BY <2>1, <2>3, <1>0 DEF Chan!BeginClose
<1>4. ASSUME NEW t \in Thread, SendOpen(t) PROVE ChannelMoves
  <2>1. pc[t] = "s_open" /\ Request(t) = "send" /\ UNCHANGED <<queue, isopen, msg>>
    BY <1>4 DEF SendOpen, Request
  <2>2. CASE isopen
    <3>1. Goto(t, "s_lock") /\ UNCHANGED ret
      BY <1>4, <2>2 DEF SendOpen
    <3>2. Request(t)' = Request(t)
      BY <2>1, <3>1, Arrives DEF Request
    <3> QED BY <2>1, <3>1, <3>2, CallsStay DEF ChannelMoves
  <2>3. CASE ~ isopen
    <3>1. Goto(t, "idle") /\ Status(t, "CLOSED_ERROR")
      BY <1>4, <2>3 DEF SendOpen
    <3>2. Request(t)' = "none"
      BY <3>1, Arrives DEF Request
    <3>3. Chan!End(t, "send", "CLOSED_ERROR")
      BY <2>1, <3>1, <3>2, CallEnds
    <3> QED BY <2>1, <2>3, <3>3, <1>0 DEF Chan!Refuse
  <2> QED BY <2>2, <2>3
<1>5. ASSUME NEW t \in Thread, SendLock(t) PROVE ChannelMoves
  <2>1. pc[t] \in {"s_lock", "s_wait"} /\ Goto(t, "s_test") /\ UNCHANGED <<queue, isopen, msg, ret>>
    BY <1>5 DEF SendLock
  <2>2. Request(t)' = Request(t)
    BY <2>1, Arrives DEF Request
  <2> QED BY <2>1, <2>2, CallsStay DEF ChannelMoves
<1>6. ASSUME NEW t \in Thread, SendWait(t) PROVE ChannelMoves
  <2>1. pc[t] \in {"s_test"} /\ Goto(t, "s_wait") /\ UNCHANGED <<queue, isopen, msg, ret>>
    BY <1>6 DEF SendWait
  <2>2. Request(t)' = Request(t)
    BY <2>1, Arrives DEF Request
  <2> QED BY <2>1, <2>2, CallsStay DEF ChannelMoves
<1>7. ASSUME NEW t \in Thread, SendGo(t) PROVE ChannelMoves
  <2>1. pc[t] = "s_test" /\ Request(t) = "send" /\ Goto(t, "s_unlock")
        /\ UNCHANGED <<isopen, msg>> /\ msg[t] \in Message
    BY <1>7 DEF SendGo, Request, SendPCs
  <2>2. Request(t)' = "none"
    BY <2>1, Arrives DEF Request
  <2>3. CASE isopen
    <3>1. Fits(msg[t]) /\ queue' = Append(queue, msg[t]) /\ Status(t, "BUFFER_SUCCESS")
      BY <1>7, <2>3 DEF SendGo, buffer_add_Q
    <3>2. Chan!Room(msg[t])
      BY <2>1, <3>1, RoomAgrees
    <3>3. Chan!End(t, "send", "BUFFER_SUCCESS")
      BY <2>1, <2>2, <3>1, CallEnds
    <3>4. Chan!Send(t)
      BY <2>1, <2>3, <3>1, <3>2, <3>3 DEF Chan!Send
    <3> QED BY <3>4, <1>0
  <2>4. CASE ~ isopen
    <3>1. UNCHANGED queue /\ Status(t, "CLOSED_ERROR")
      BY <1>7, <2>4 DEF SendGo
    <3>2. Chan!End(t, "send", "CLOSED_ERROR")
      BY <2>1, <2>2, <3>1, CallEnds
    <3> QED BY <2>1, <2>4, <3>1, <3>2, <1>0 DEF Chan!Refuse
  <2> QED BY <2>3, <2>4
<1>8. ASSUME NEW t \in Thread, SendUnlock(t) PROVE ChannelMoves
  <2>1. pc[t] \in {"s_unlock"} /\ Goto(t, "idle") /\ UNCHANGED <<queue, isopen, msg, ret>>
    BY <1>8 DEF SendUnlock
  <2>2. Request(t)' = Request(t)
    BY <2>1, Arrives DEF Request
  <2> QED BY <2>1, <2>2, CallsStay DEF ChannelMoves
<1>9. ASSUME NEW t \in Thread, ReceiveOpen(t) PROVE ChannelMoves
  <2>1. pc[t] = "r_open" /\ Request(t) = "receive" /\ UNCHANGED <<queue, isopen, msg>>
    BY <1>9 DEF ReceiveOpen, Request
  <2>2. CASE isopen
    <3>1. Goto(t, "r_lock") /\ UNCHANGED ret
      BY <1>9, <2>2 DEF ReceiveOpen
    <3>2. Request(t)' = Request(t)
      BY <2>1, <3>1, Arrives DEF Request
    <3> QED BY <2>1, <3>1, <3>2, CallsStay DEF ChannelMoves
  <2>3. CASE ~ isopen
    <3>1. Goto(t, "idle") /\ Status(t, "CLOSED_ERROR")
      BY <1>9, <2>3 DEF ReceiveOpen
    <3>2. Request(t)' = "none"
      BY <3>1, Arrives DEF Request
    <3>3. Chan!End(t, "receive", "CLOSED_ERROR")
      BY <2>1, <3>1, <3>2, CallEnds
    <3> QED BY <2>1, <2>3, <3>3, <1>0 DEF Chan!Refuse
  <2> QED BY <2>2, <2>3
<1>10. ASSUME NEW t \in Thread, ReceiveLock(t) PROVE ChannelMoves
  <2>1. pc[t] \in {"r_lock", "r_wait"} /\ Goto(t, "r_test") /\ UNCHANGED <<queue, isopen, msg, ret>>
    BY <1>10 DEF ReceiveLock
  <2>2. Request(t)' = Request(t)
    BY <2>1, Arrives DEF Request
  <2> QED BY <2>1, <2>2, CallsStay DEF ChannelMoves
<1>11. ASSUME NEW t \in Thread, ReceiveWait(t) PROVE ChannelMoves
  <2>1. pc[t] \in {"r_test"} /\ Goto(t, "r_wait") /\ UNCHANGED <<queue, isopen, msg, ret>>
    BY <1>11 DEF ReceiveWait
  <2>2. Request(t)' = Request(t)
    BY <2>1, Arrives DEF Request
  <2> QED BY <2>1, <2>2, CallsStay DEF ChannelMoves
<1>12. ASSUME NEW t \in Thread, ReceiveGo(t) PROVE ChannelMoves
  <2> DEFINE status == IF Head(queue) \in Special THEN "BUFFER_SPECIAL_MESSSAGE"
                       ELSE "BUFFER_SUCCESS"
  <2>1. /\ pc[t] = "r_test" /\ Request(t) = "receive" /\ isopen /\ isopen' = isopen
        /\ queue' = Tail(queue) /\ msg' = [msg EXCEPT ![t] = Head(queue)]
        /\ Status(t, status)
    BY <1>12 DEF ReceiveGo, Request
  <2>2. PICK l \in {"r_unlock", "r_unlock_signal"} : Goto(t, l)
    BY <1>12 DEF ReceiveGo
  <2>3. Request(t)' = "none"
    BY <2>2, Arrives DEF Request
  <2>4. queue # <<>>
    BY <1>12, EmptyRing DEF ReceiveGo, TypeInvariant
  <2>5. Chan!End(t, "receive", status)
    BY <2>1, <2>2, <2>3, CallEnds
  <2>6. Chan!Receive(t)
    BY <2>1, <2>4, <2>5 DEF Chan!Receive
  <2> QED BY <2>6, <1>0
<1>13. ASSUME NEW t \in Thread, ReceiveClosed(t) PROVE ChannelMoves
  <2>1. pc[t] = "r_test" /\ Request(t) = "receive" /\ ~ isopen /\ Goto(t, "r_unlock")
        /\ Status(t, "CLOSED_ERROR") /\ UNCHANGED <<queue, isopen, msg>>
    BY <1>13 DEF ReceiveClosed, Request
  <2>2. Request(t)' = "none"
    BY <2>1, Arrives DEF Request
  <2>3. Chan!End(t, "receive", "CLOSED_ERROR")
    BY <2>1, <2>2, CallEnds
  <2> QED BY <2>1, <2>3, <1>0 DEF Chan!Refuse
<1>14. ASSUME NEW t \in Thread, ReceiveUnlock(t) PROVE ChannelMoves
  <2>1. pc[t] \in {"r_unlock", "r_unlock_signal"} /\ UNCHANGED <<queue, isopen, msg, ret>>
    BY <1>14 DEF ReceiveUnlock
  <2>2. PICK l \in {"idle", "r_signal"} : Goto(t, l)
    BY <1>14 DEF ReceiveUnlock
  <2>3. Request(t)' = Request(t)
    BY <2>1, <2>2, Arrives DEF Request
  <2> QED BY <2>1, <2>2, <2>3, CallsStay DEF ChannelMoves
<1>15. ASSUME NEW t \in Thread, ReceiveSignal(t) PROVE ChannelMoves
  <2>1. pc[t] \in {"r_signal"} /\ Goto(t, "idle") /\ UNCHANGED <<queue, isopen, msg, ret>>
    BY <1>15 DEF ReceiveSignal
  <2>2. Request(t)' = Request(t)
    BY <2>1, Arrives DEF Request
  <2> QED BY <2>1, <2>2, CallsStay DEF ChannelMoves
<1>16. ASSUME NEW t \in Thread, CloseLock(t) PROVE ChannelMoves
  <2>1. pc[t] \in {"c_lock"} /\ Goto(t, "c_test") /\ UNCHANGED <<queue, isopen, msg, ret>>
    BY <1>16 DEF CloseLock
  <2>2. Request(t)' = Request(t)
    BY <2>1, Arrives DEF Request
  <2> QED BY <2>1, <2>2, CallsStay DEF ChannelMoves
<1>17. ASSUME NEW t \in Thread, CloseGo(t) PROVE ChannelMoves
  <2>1. pc[t] = "c_test" /\ Request(t) = "close" /\ Goto(t, "c_unlock")
        /\ UNCHANGED <<queue, msg>>
    BY <1>17 DEF CloseGo, Request
  <2>2. Request(t)' = "none"
    BY <2>1, Arrives DEF Request
  <2>3. CASE isopen
    <3>1. isopen' = FALSE /\ Status(t, "BUFFER_SUCCESS")
      BY <1>17, <2>3 DEF CloseGo
    <3>2. Chan!End(t, "close", "BUFFER_SUCCESS")
      BY <2>1, <2>2, <3>1, CallEnds
    <3> QED BY <2>1, <2>3, <3>1, <3>2, <1>0 DEF Chan!Close
  <2>4. CASE ~ isopen
    <3>1. UNCHANGED isopen /\ Status(t, "CLOSED_ERROR")
      BY <1>17, <2>4 DEF CloseGo
    <3>2. Chan!End(t, "close", "CLOSED_ERROR")
      BY <2>1, <2>2, <3>1, CallEnds
    <3> QED BY <2>1, <2>4, <3>1, <3>2, <1>0 DEF Chan!Refuse
  <2> QED BY <2>3, <2>4
<1>18. ASSUME NEW t \in Thread, CloseUnlock(t) PROVE ChannelMoves
  <2>1. pc[t] \in {"c_unlock"} /\ Goto(t, "idle") /\ UNCHANGED <<queue, isopen, msg, ret>>
    BY <1>18 DEF CloseUnlock
  <2>2. Request(t)' = Request(t)
    BY <2>1, Arrives DEF Request
  <2> QED BY <2>1, <2>2, CallsStay DEF ChannelMoves
<1>19. ASSUME NEW t \in Thread, SpuriousWakeup(t) PROVE ChannelMoves
  <2>1. UNCHANGED <<queue, isopen, pc, msg, ret>>
    BY <1>19 DEF SpuriousWakeup
  <2>2. [x \in Thread |-> Request(x)] = [x \in Thread |-> Request(x)]'
    BY <2>1 DEF Request
  <2> QED BY <2>1, <2>2 DEF Chan!vars, ChannelMoves
<1>20. CASE UNCHANGED vars
  <2>1. UNCHANGED <<queue, isopen, pc, msg, ret>>
    BY <1>20 DEF vars
  <2>2. [x \in Thread |-> Request(x)] = [x \in Thread |-> Request(x)]'
    BY <2>1 DEF Request
  <2> QED BY <2>1, <2>2 DEF Chan!vars, ChannelMoves
<1> QED
  BY <1>1, <1>2, <1>3, <1>4, <1>5, <1>6, <1>7, <1>8, <1>9, <1>10,
     <1>11, <1>12, <1>13, <1>14, <1>15, <1>16, <1>17, <1>18, <1>19, <1>20
  DEF Next, ThreadStep, SendStep, ReceiveStep, CloseStep

\* The threads, the mutex, the wait sets and the space counter together implement
\* the bounded first-in first-out channel of Channel.tla, for any number of
\* threads, any messages and any capacity: every call takes effect, or is refused,
\* in one step between its start and its return.
THEOREM ChannelImplemented == Spec => ImplementsChannel
<1>1. Init => Chan!Init
  BY DEF Init, Chan!Init, Request
<1>2. IInv /\ [Next]_vars => [Chan!Next]_(Chan!vars)
  BY ChannelStep DEF ChannelMoves
<1> QED BY <1>1, <1>2, Invariance, PTL DEF Spec, ImplementsChannel, Chan!Spec

=============================================================================
