---------------------------- MODULE ChannelTests ----------------------------
(***************************************************************************)
(* The tests of project 4 (driver.c) as clients of the channel: the main   *)
(* thread runs the script of one test, creates threads that make one call  *)
(* each (direct_send, direct_receive), waits for them on a semaphore, and  *)
(* asserts.  The sleeps of the tests are left out, so a thread may be as   *)
(* late as it likes; only a peek, which takes no lock, finds the other     *)
(* threads at rest.                                                        *)
(***************************************************************************)
EXTENDS Buffer

CONSTANTS
    main,
    send_pid, rec_pid,  \* the threads that send and receive, as sequences
    PSU, CMPSC, MoNdAy, Msg, splmsg

SendThreads == {send_pid[k] : k \in DOMAIN send_pid}
RecThreads  == {rec_pid[k] : k \in DOMAIN rec_pid}
Spawned     == SendThreads \cup RecThreads

ASSUME TestAssumption ==
    /\ Sender = SendThreads \cup {main} /\ Receiver = RecThreads \cup {main}
    /\ Closer = {main} /\ main \notin Spawned /\ SendThreads \cap RecThreads = {}
    /\ Message = {PSU, CMPSC, MoNdAy, Msg, splmsg} /\ Special = {splmsg}
    /\ MaxCloses >= 2

VARIABLES
    test, line,     \* the running test and the line of its script
    failed,         \* an mu_assert has failed
    life,           \* what each created thread does next
    out,            \* args.out of each thread
    sem,            \* the semaphore done / send_done
    destroyed

script == <<test, line, failed, life, out, sem, destroyed>>
allvars == <<vars, script>>

-----------------------------------------------------------------------------
(* The scripts *)

Do(op, x) == <<[op |-> op, arg |-> x]>>
Times(n, s) == [k \in 1 .. n * Len(s) |-> s[((k - 1) % Len(s)) + 1]]
Out(status, n) == [status |-> status, number |-> n]

create(threads) == Do("create", threads)
join(threads)   == Do("join", threads)
wait            == Do("sem_wait", 0)
send(m)         == Do("send", m)
receive         == Do("receive", 0)
close           == Do("close", 0)
destroy         == Do("destroy", 0)
asserts(what, x) == Do(what, x)
end             == close \o destroy

S == Len(send_pid)
R == Len(rec_pid)

test_initialization ==
    asserts("used", 0) \o end

test_send_correctness ==
    create({send_pid[1]}) \o wait
    \o asserts("top", <<PSU>>) \o asserts("used", MsgSize[PSU])
    \o asserts("out", Out("BUFFER_SUCCESS", 1))
    \o create({send_pid[2]}) \o wait
    \o asserts("top", <<PSU, CMPSC>>) \o asserts("used", MsgSize[PSU] + MsgSize[CMPSC])
    \o asserts("out", Out("BUFFER_SUCCESS", 2))
    \o create({send_pid[3]})
    \o asserts("top", <<PSU>>) \o asserts("top", <<PSU, CMPSC>>)
    \o asserts("used", MsgSize[PSU] + MsgSize[CMPSC])
    \o asserts("out", Out("BUFFER_ERROR", 1))
    \o receive \o join(SendThreads) \o receive \o receive \o end

test_receive_correctness ==
    send(CMPSC) \o send(PSU) \o asserts("used", MsgSize[CMPSC] + MsgSize[PSU])
    \o receive \o asserts("used", MsgSize[PSU]) \o asserts("data", CMPSC)
    \o receive \o asserts("used", 0) \o asserts("data", PSU)
    \o create({rec_pid[1], rec_pid[2]})
    \o asserts("used", 0) \o asserts("out", Out("BUFFER_SUCCESS", 0))
    \o send(CMPSC) \o wait \o asserts("out", Out("BUFFER_SUCCESS", 1))
    \o send(PSU) \o wait \o asserts("out", Out("BUFFER_SUCCESS", 2))
    \o join({rec_pid[1], rec_pid[2]}) \o end

test_overall_send_receive ==
    create(RecThreads) \o create(SendThreads) \o join(RecThreads) \o join(SendThreads)
    \o asserts("out", Out("BUFFER_SUCCESS", S + R)) \o asserts("read", {Msg}) \o end

test_for_too_many_wakeups ==
    create(RecThreads) \o Times(R, send(Msg) \o wait) \o join(RecThreads) \o end

test_cpu_utilization_send ==
    send(Msg) \o send(Msg) \o create(SendThreads)
    \o Times(S, receive \o asserts("data", Msg)) \o join(SendThreads) \o end

test_cpu_utilization_receive ==
    create(RecThreads) \o Times(R, send(Msg)) \o join(RecThreads)
    \o asserts("read", {Msg}) \o end

test_channel_close_with_receive ==
    send(Msg) \o send(Msg) \o create(RecThreads) \o wait \o wait
    \o close \o asserts("return", "BUFFER_SUCCESS") \o join(RecThreads)
    \o asserts("out", Out("CLOSED_ERROR", R - 2))
    \o receive \o asserts("return", "CLOSED_ERROR")
    \o close \o asserts("return", "CLOSED_ERROR") \o destroy

test_channel_close_with_send ==
    create(SendThreads) \o wait \o wait
    \o close \o asserts("return", "BUFFER_SUCCESS") \o join(SendThreads)
    \o asserts("out", Out("CLOSED_ERROR", S - 2))
    \o send(Msg) \o asserts("return", "CLOSED_ERROR")
    \o close \o asserts("return", "CLOSED_ERROR") \o destroy

test_Free ==
    destroy \o asserts("return", "DESTROY_ERROR")
    \o close \o asserts("return", "BUFFER_SUCCESS")
    \o destroy \o asserts("return", "BUFFER_SUCCESS")

serialize ==
    send(Msg) \o send(splmsg) \o receive \o asserts("data", Msg)
    \o receive \o asserts("return", "BUFFER_SPECIAL_MESSSAGE") \o end

Script ==
    [ initialization |-> test_initialization,
      send_correctness |-> test_send_correctness,
      receive_correctness |-> test_receive_correctness,
      overall_send_receive |-> test_overall_send_receive,
      too_many_wakeups |-> test_for_too_many_wakeups,
      cpu_utilization_send |-> test_cpu_utilization_send,
      cpu_utilization_receive |-> test_cpu_utilization_receive,
      channel_close_with_receive |-> test_channel_close_with_receive,
      channel_close_with_send |-> test_channel_close_with_send,
      Free |-> test_Free,
      serialize |-> serialize ]

\* The data of args[k]; all threads send the same except in send_correctness.
Data(t) == IF test = "send_correctness"
           THEN <<PSU, CMPSC, MoNdAy>>[CHOOSE k \in DOMAIN send_pid : send_pid[k] = t]
           ELSE Msg

-----------------------------------------------------------------------------

TInit ==
    /\ Init
    /\ test \in DOMAIN Script /\ line = 1 /\ failed = FALSE
    /\ life = [t \in Spawned |-> "unborn"]
    /\ out = [t \in Spawned |-> "BUFFER_ERROR"]
    /\ sem = 0 /\ destroyed = FALSE

(* direct_send and direct_receive *)

ThreadCall(t) ==
    /\ life[t] = "call"
    /\ IF t \in SendThreads THEN SendCall(t, Data(t)) ELSE ReceiveCall(t)
    /\ life' = [life EXCEPT ![t] = "return"]
    /\ UNCHANGED <<test, line, failed, out, sem, destroyed>>

ThreadReturn(t) ==
    /\ life[t] = "return" /\ pc[t] = "idle"
    /\ out' = [out EXCEPT ![t] = ret[t]]
    /\ life' = [life EXCEPT ![t] = "post"]
    /\ UNCHANGED <<vars, test, line, failed, sem, destroyed>>

\* Some tests pass no semaphore; then nobody looks at it.
ThreadPost(t) ==
    /\ life[t] = "post"
    /\ sem' = sem + 1
    /\ life' = [life EXCEPT ![t] = "dead"]
    /\ UNCHANGED <<vars, test, line, failed, out, destroyed>>

(* The main thread *)

Now(op) ==
    /\ ~ failed /\ line \in DOMAIN Script[test] /\ pc[main] = "idle"
    /\ Script[test][line].op = op
arg == Script[test][line].arg

NextLine == line' = line + 1 /\ UNCHANGED <<test, failed>>

MainCreate ==
    /\ Now("create")
    /\ life' = [t \in Spawned |-> IF t \in arg THEN "call" ELSE life[t]]
    /\ NextLine /\ UNCHANGED <<vars, out, sem, destroyed>>

\* Mutant: goes on without the threads.
MainJoinOne ==
    /\ Now("join")
    /\ \E t \in arg : life[t] = "dead"
    /\ NextLine /\ UNCHANGED <<vars, life, out, sem, destroyed>>

MainJoin ==
    /\ Now("join")
    /\ \A t \in arg : life[t] = "dead"
    /\ NextLine /\ UNCHANGED <<vars, life, out, sem, destroyed>>

MainWait ==
    /\ Now("sem_wait") /\ sem > 0
    /\ sem' = sem - 1
    /\ NextLine /\ UNCHANGED <<vars, life, out, destroyed>>

MainCall ==
    /\ \/ Now("send")    /\ SendCall(main, arg)
       \/ Now("receive") /\ ReceiveCall(main)
       \/ Now("close")   /\ CloseCall(main)
    /\ NextLine /\ UNCHANGED <<life, out, sem, destroyed>>

MainDestroy ==
    /\ Now("destroy")
    /\ Status(main, IF isopen THEN "DESTROY_ERROR" ELSE "BUFFER_SUCCESS")
    /\ destroyed' = ~ isopen
    /\ NextLine
    /\ UNCHANGED <<isopen, ring, chmutex, cond, pc, msg, closes, life, out, sem>>

AtRest(t) == life[t] \in {"unborn", "dead"} \/ t \in chconsend \cup chconrec

Holds ==
    CASE Now("used")   -> Size - avilSize = arg
      [] Now("out")    -> Cardinality({t \in Spawned : out[t] = arg.status
                                         /\ life[t] # "unborn"}) = arg.number
      [] Now("data")   -> msg[main] = arg
      [] Now("return") -> ret[main] = arg
      [] Now("read")   -> {msg[t] : t \in RecThreads} = arg
      [] Now("top")    -> arg = SubSeq(queue, 1, Len(arg))

\* mu_assert: a failure leaves the test.
MainAssert ==
    /\ \/ Now("used") \/ Now("out") \/ Now("data") \/ Now("return") \/ Now("read")
       \/ Now("top") /\ \A t \in Spawned : AtRest(t)
    /\ IF Holds THEN NextLine ELSE failed' = TRUE /\ UNCHANGED <<test, line>>
    /\ UNCHANGED <<vars, life, out, sem, destroyed>>

-----------------------------------------------------------------------------

Run(t) ==
    \/ ThreadStep(t) /\ UNCHANGED script
    \/ t \in Spawned /\ (ThreadCall(t) \/ ThreadReturn(t) \/ ThreadPost(t))
    \/ t = main /\ (MainCreate \/ MainJoin \/ MainWait \/ MainCall
                      \/ MainDestroy \/ MainAssert)

Ended == line = Len(Script[test]) + 1 /\ pc[main] = "idle"

Finished == Ended /\ UNCHANGED allvars

TNext == (\E t \in Thread : Run(t) \/ (SpuriousWakeup(t) /\ UNCHANGED script))
         \/ Finished

TSpec     == TInit /\ [][TNext]_allvars
TFairSpec == TSpec /\ (\A t \in Thread : WF_allvars(Run(t)))
                   /\ <>[][NoSpuriousWakeup]_allvars

-----------------------------------------------------------------------------
(* Properties *)

\* No assertion of a test fails, however late the threads are: with two messages
\* and more receivers than that, or room for two and more senders, exactly the
\* others get CLOSED_ERROR; two receivers that wait for two messages sent one
\* after the other return one by one; nothing is stored while a sender waits.
NoTestFails == ~ failed

\* buffer_destroy frees the buffer when no thread is inside a call.
FreedUnused == destroyed => \A t \in Thread : pc[t] = "idle"

\* Every test comes to its end: "All the threads should return in finite amount
\* of time" (driver.c:391).
TestsEnd == <>Ended
=============================================================================
