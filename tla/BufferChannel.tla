--------------------------- MODULE BufferChannel ---------------------------
(***************************************************************************)
(* How the blocking channel of Buffer.tla implements the abstract one of   *)
(* Channel.tla.  A call has taken effect once its thread passed the test   *)
(* of the ring.                                                            *)
(***************************************************************************)
EXTENDS Buffer

Request(t) ==
    CASE pc[t] \in {"s_open", "s_lock", "s_wait", "s_test"} -> "send"
      [] pc[t] \in {"r_open", "r_lock", "r_wait", "r_test"} -> "receive"
      [] pc[t] \in {"c_lock", "c_test"}                     -> "close"
      [] OTHER                                              -> "none"

Chan == INSTANCE Channel WITH chan <- queue, open <- isopen, val <- msg,
                              res <- ret, req <- [t \in Thread |-> Request(t)]

\* The code implements the channel of Channel.tla: each call takes effect at
\* one moment between its start and its return, messages come out in the order
\* in which they went in, each exactly once, a send succeeds only with room,
\* and after the close nothing is stored or removed any more.
ImplementsChannel == Chan!Spec
=============================================================================
