------------------------------- MODULE MCFifo -------------------------------
(* Model-checking instance of Fifo.tla and its refinement of MsgQueue.tla. *)
EXTENDS FifoQueue, TLC

CONSTANTS a, b, c

\* c needs exactly Size bytes and never fits.
MCDataSize == a :> 1 @@ b :> 2 @@ c :> 6
MCGarbage  == {-1, 0, 2}
=============================================================================
