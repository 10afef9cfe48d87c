---------------------------- MODULE MC_Pipeline ----------------------------
(***************************************************************************)
(* Model-checking instances of Pipeline.                                   *)
(*                                                                         *)
(* Relay: one session whose client writes two chunks and whose server     *)
(* answers with two, with an ACK window of one.  The session runs out of  *)
(* credits (the trojan request is free, D1 takes the credit, D2 waits for *)
(* an ACK) and a DATA frame can arrive while the previous one is still    *)
(* being written to the client, so it waits in the data cache.            *)
(*                                                                         *)
(* Sessions: a session that opens, sends its trojan request and a chunk   *)
(* and closes, beside the ICMP processor, which sends one ICMP packet and *)
(* gets two back.  Their CONNECT, DATA, ACK, CLOSE and ICMP frames        *)
(* interleave in the shared send queue, possibly before the connection is *)
(* up, CLOSE frames cross, and the session is destroyed with the pipeline.*)
(***************************************************************************)
EXTENDS Pipeline, TLC

CONSTANT s1

RelaySessions == {s1}
RelayUp       == s1 :> <<"D1", "D2">>
RelayDown     == s1 :> <<"S1", "S2">>

ShareSessions == {s1}
ShareUp       == s1 :> <<"D1">>
ShareDown     == s1 :> <<>>

NoIcmp        == <<>>
IcmpRequest   == <<"P1">>
IcmpReplies   == <<"R1", "R2">>

=============================================================================
