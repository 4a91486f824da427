------------------------------ MODULE MCBuffer ------------------------------
(* Model-checking instances of Buffer.tla and its refinement of Channel.tla. *)
EXTENDS BufferChannel, TLC

CONSTANTS s1, s2, s3, r1, r2, c1, small, big, huge, splmsg

\* Room for one big message and one small one, or for three small ones.
MixedSizes == [m \in Message |-> IF m = big THEN 4 ELSE 2]
Symmetry == Permutations(Sender) \cup Permutations(Receiver)
\* Room for two messages in 5 bytes; a huge one does not fit into the empty buffer.
WithOversized == [m \in Message |-> IF m = huge THEN 6 ELSE 2]
=============================================================================
