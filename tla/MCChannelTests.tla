--------------------------- MODULE MCChannelTests ---------------------------
(* Model-checking instances of ChannelTests.tla. *)
EXTENDS ChannelTests, TLC

CONSTANTS s1, s2, s3, r1, r2, r3

\* get_msg_size of the strings the tests send.
StringSizes == PSU :> 8 @@ CMPSC :> 10 @@ MoNdAy :> 11 @@ Msg :> 12 @@ splmsg :> 11

SendPids == <<s1, s2, s3>>
RecPids  == <<r1, r2, r3>>
=============================================================================
