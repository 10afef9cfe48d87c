-------------------------- MODULE PipelineAbstract --------------------------
(***************************************************************************)
(* What a pipeline promises each of its sessions, whatever the frames,     *)
(* the send queue and the ACK window do: two reliable ordered channels.    *)
(*   - Upstream, the server receives a prefix of the client's chunks, in   *)
(*     order, with nothing lost or repeated, until the session's CLOSE     *)
(*     reaches it; nothing arrives after that.                             *)
(*   - Downstream, the client receives a prefix of the server's chunks, in *)
(*     order, until the session is destroyed; nothing arrives after that.  *)
(* A delivery may carry several chunks at once, and one step may close     *)
(* the downstream channel of several sessions (a pipeline destroy).        *)
(***************************************************************************)
EXTENDS Naturals, Sequences

CONSTANTS Sessions, Up, Down

VARIABLES
    up,          \* for each session, the chunks the server has received
    upClosed,    \* the server has received the session's CLOSE
    down,        \* for each session, the chunks the client has received
    downClosed   \* the session is destroyed

avars == <<up, upClosed, down, downClosed>>

\* The channel ch of session s, whose whole content is script, delivers the
\* next one or more chunks.
Deliver(ch, s, script) ==
    \E k \in Len(ch[s]) + 1 .. Len(script) :
        ch' = [ch EXCEPT ![s] = SubSeq(script, 1, k)]

Init ==
    /\ up = [s \in Sessions |-> <<>>]   /\ upClosed = [s \in Sessions |-> FALSE]
    /\ down = [s \in Sessions |-> <<>>] /\ downClosed = [s \in Sessions |-> FALSE]

DeliverUp(s) ==
    /\ ~upClosed[s] /\ Deliver(up, s, Up[s])
    /\ UNCHANGED <<upClosed, down, downClosed>>

CloseUp(s) ==
    /\ ~upClosed[s] /\ upClosed' = [upClosed EXCEPT ![s] = TRUE]
    /\ UNCHANGED <<up, down, downClosed>>

DeliverDown(s) ==
    /\ ~downClosed[s] /\ Deliver(down, s, Down[s])
    /\ UNCHANGED <<up, upClosed, downClosed>>

CloseDown(S) ==
    /\ S # {} /\ \A s \in S : ~downClosed[s]
    /\ downClosed' = [s \in Sessions |-> downClosed[s] \/ s \in S]
    /\ UNCHANGED <<up, upClosed, down>>

Next ==
    \/ \E s \in Sessions : DeliverUp(s) \/ CloseUp(s) \/ DeliverDown(s)
    \/ \E S \in SUBSET Sessions : CloseDown(S)

Spec == Init /\ [][Next]_avars

=============================================================================
