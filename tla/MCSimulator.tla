----------------------------- MODULE MCSimulator -----------------------------
(* Model-checking instance of Simulator.tla. *)
EXTENDS Simulator

CONSTANTS process1, process2, process3, a

InOrder == <<process1, process2, process3>>
=============================================================================
