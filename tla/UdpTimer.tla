------------------------------ MODULE UdpTimer ------------------------------
(***************************************************************************)
(* The UDP inactivity timer of Session (session/session.cpp).  A UDP      *)
(* forward session calls udp_timer_async_wait() on every datagram in      *)
(* either direction; the timer destroys the session once udp_timeout      *)
(* seconds pass without one.  The clock is time(nullptr) in whole         *)
(* seconds; it starts at 1 so that the value 0 keeps its meaning of "not  *)
(* set" for udp_gc_timer_checker.                                         *)
(*                                                                         *)
(* The asio timer is a sequence of waits.  cancel() and expires_after()   *)
(* make every PENDING wait ready with operation_aborted; a wait that has  *)
(* already expired keeps its success and its handler still runs.          *)
(***************************************************************************)
EXTENDS Naturals, Sequences, SequencesExt

CONSTANTS
    Timeout,      \* config udp_timeout, in seconds
    ActiveUntil,  \* last second at which a datagram may arrive
    MaxTime       \* the last second the model's clock reaches

ASSUME Timeout \in Nat \ {0} /\ ActiveUntil \in Nat \ {0}
ASSUME MaxTime >= ActiveUntil + 2 * Timeout

VARIABLES
    now,         \* time(nullptr)
    checker,     \* udp_gc_timer_checker
    waits,       \* the async_waits of udp_gc_timer, in the order started
    destroyed,   \* the session has been destroyed
    firstActive, \* second of the first datagram (0: none yet)
    lastActive,  \* second of the latest datagram (0: none yet)
    gcAt         \* second at which the timer destroyed the session (0: never)

vars == <<now, checker, waits, destroyed, firstActive, lastActive, gcAt>>

Wait(dl, to) == [st |-> "pending", res |-> "none", deadline |-> dl, to |-> to]

\* udp_gc_timer.cancel(): pending waits complete with operation_aborted.
CancelAll(ws) ==
    [j \in DOMAIN ws |-> IF ws[j].st = "pending"
                         THEN [ws[j] EXCEPT !.st = "ready", !.res = "aborted"]
                         ELSE ws[j]]

\* Mutant: the activity check is taken without testing that the checker
\* is set.
udp_timer_async_wait_unset_checker(t, ws) ==
    LET check == t = -1
        to    == IF t = -1 THEN Timeout ELSE t
        rearm == waits' = Append(CancelAll(ws), Wait(now + to, to))
    IN  IF check
        THEN IF now - checker < to
             THEN checker' = now /\ waits' = ws
             ELSE rearm /\ UNCHANGED checker
        ELSE checker' = now /\ rearm

\* Session::udp_timer_async_wait(timeout) on a UDP forward session; t = -1
\* is the default argument, which checks activity first.  ws is the
\* sequence of waits as the caller leaves it.  With the checker set and
\* the check on, a datagram within the timeout only moves the checker; one
\* later than that re-arms and leaves the checker as it was (the else of
\* line 63 belongs to the outer if).  The cancel error path of lines 69-73
\* is not modelled: cancelling a steady_timer does not fail.
udp_timer_async_wait(t, ws) ==
    LET check == t = -1
        to    == IF t = -1 THEN Timeout ELSE t
        rearm == waits' = Append(CancelAll(ws), Wait(now + to, to))
    IN  IF checker # 0 /\ check
        THEN IF now - checker < to
             THEN checker' = now /\ waits' = ws
             ELSE rearm /\ UNCHANGED checker
        ELSE checker' = now /\ rearm

\* Session::udp_timer_cancel: does nothing while the checker is unset.
udp_timer_cancel(ws) == IF checker = 0 THEN ws ELSE CancelAll(ws)

-----------------------------------------------------------------------------
(* Steps.                                                                  *)

\* A datagram arrives from either side: the UDP forward session's receive
\* handler calls udp_timer_async_wait().  The model takes at most one per
\* second: a second datagram in the same second either sets the checker to
\* the value it has, or re-arms for the same deadline and aborts the wait
\* the first one started, which adds no behaviour.
Activity ==
    /\ ~destroyed /\ now <= ActiveUntil /\ lastActive < now
    /\ udp_timer_async_wait(-1, waits)
    /\ firstActive' = IF firstActive = 0 THEN now ELSE firstActive
    /\ lastActive' = now
    /\ UNCHANGED <<now, destroyed, gcAt>>

\* The session is destroyed for another reason (a socket error or a peer
\* close); its destroy cancels the timer with udp_timer_cancel.
Close ==
    /\ ~destroyed
    /\ destroyed' = TRUE
    /\ waits' = udp_timer_cancel(waits)
    /\ UNCHANGED <<now, checker, firstActive, lastActive, gcAt>>

\* Mutant: the remaining time is computed as the elapsed time.
timer_handler_diff_swapped(i) ==
    /\ waits[i].st = "ready"
    /\ LET w == waits[i]  rest == RemoveAt(waits, i) IN
       \/ /\ w.res = "aborted"
          /\ waits' = rest
          /\ UNCHANGED <<checker, destroyed, gcAt>>
       \/ /\ w.res = "ok" /\ now - checker < w.to
          /\ udp_timer_async_wait(now - checker, rest)
          /\ UNCHANGED <<destroyed, gcAt>>
       \/ /\ w.res = "ok" /\ now - checker >= w.to
          /\ waits' = rest
          /\ destroyed' = TRUE
          /\ gcAt' = IF destroyed THEN gcAt ELSE now
          /\ UNCHANGED checker
    /\ UNCHANGED <<now, firstActive, lastActive>>

\* The handler of udp_gc_timer.async_wait for wait i.  On success, if a
\* datagram came less than its timeout ago, re-arm for the rest of the
\* time (with the checker reset); otherwise the session timed out.
timer_handler(i) ==
    /\ waits[i].st = "ready"
    /\ LET w == waits[i]  rest == RemoveAt(waits, i) IN
       \/ /\ w.res = "aborted"
          /\ waits' = rest
          /\ UNCHANGED <<checker, destroyed, gcAt>>
       \/ /\ w.res = "ok" /\ now - checker < w.to
          /\ udp_timer_async_wait(w.to - (now - checker), rest)
          /\ UNCHANGED <<destroyed, gcAt>>
       \/ /\ w.res = "ok" /\ now - checker >= w.to
          /\ waits' = rest
          /\ destroyed' = TRUE
          /\ gcAt' = IF destroyed THEN gcAt ELSE now
          /\ UNCHANGED checker
    /\ UNCHANGED <<now, firstActive, lastActive>>

\* The timer's expiry: a pending wait whose deadline has passed completes.
TimerExpires(i) ==
    /\ waits[i].st = "pending" /\ waits[i].deadline <= now
    /\ waits' = [waits EXCEPT ![i].st = "ready", ![i].res = "ok"]
    /\ UNCHANGED <<now, checker, destroyed, firstActive, lastActive, gcAt>>

\* One second passes.
Tick ==
    /\ now < MaxTime
    /\ now' = now + 1
    /\ UNCHANGED <<checker, waits, destroyed, firstActive, lastActive, gcAt>>

TimerHandler == \E i \in DOMAIN waits : timer_handler(i)
Expire       == \E i \in DOMAIN waits : TimerExpires(i)

\* The session has just become a UDP forward session; nothing is armed yet.
Init ==
    /\ now = 1 /\ checker = 0 /\ waits = <<>>
    /\ destroyed = FALSE /\ firstActive = 0 /\ lastActive = 0 /\ gcAt = 0

Next == Activity \/ Close \/ TimerHandler \/ Expire \/ Tick

\* Time passes, the reactor runs ready handlers, and an expired timer
\* completes.  Datagrams and closes are not obliged to happen.
Spec == Init /\ [][Next]_vars /\ WF_vars(Tick) /\ WF_vars(TimerHandler)
                             /\ WF_vars(Expire)

-----------------------------------------------------------------------------
(* Properties                                                              *)

Times == 0..MaxTime + Timeout

TypeOK ==
    /\ now \in 1..MaxTime /\ checker \in Times
    /\ waits \in Seq([st : {"pending", "ready"}, res : {"none", "ok", "aborted"},
                      deadline : Times, to : 1..Timeout])
    /\ destroyed \in BOOLEAN
    /\ {firstActive, lastActive, gcAt} \subseteq Times

\* udp_timeout is the inactivity allowed: when the timer destroys the
\* session, no datagram has arrived for at least udp_timeout seconds.  The
\* re-arm of lines 80-83 carries the shortened timeout into the next wait,
\* and a datagram that finds the checker older than the timeout (line 59)
\* re-arms without moving it, while cancel() cannot stop a wait that has
\* already expired, so this is in question.
NoEarlyGc == gcAt # 0 => gcAt - lastActive >= Timeout

\* A UDP session that once received a datagram is eventually destroyed:
\* every re-arm is for a positive time, and the last one finds it idle.
IdleSessionCollected == (firstActive # 0) ~> destroyed

=============================================================================
