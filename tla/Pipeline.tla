------------------------------ MODULE Pipeline ------------------------------
(***************************************************************************)
(* One Pipeline of trojan-plus (experimental.pipeline_num > 0) carrying    *)
(* several ClientSessions over one TLS connection to the server.           *)
(*                                                                         *)
(* The pipeline writes frames through its send queue (SendDataCache), one  *)
(* async_write at a time, and calls the sent handler of each frame when it *)
(* has been written.  It reads frames from the server one async_read_some  *)
(* at a time and hands each to its session: CLOSE destroys the session,   *)
(* ACK returns a credit of the ACK window, DATA goes to the session's      *)
(* pipeline data cache.  Each session relays in FORWARD as in direct mode, *)
(* except that reading in_socket costs a credit and every write to         *)
(* in_socket is acknowledged with an ACK frame before in_sent runs.        *)
(*                                                                         *)
(* The SOCKS5 handshake of a session is one step here (it is modelled in   *)
(* ClientSession); in pipeline mode request_remote calls its callback at   *)
(* once, so the session goes straight from the request to FORWARD.  A read *)
(* of the pipeline returns one whole frame; the accumulator loop over      *)
(* partial and coalesced frames is the same loop run frame by frame.       *)
(*                                                                         *)
(* The ICMP processor of the client (NAT mode) shares the pipeline: it     *)
(* sends ICMP frames with session id 0 through the same send queue, and    *)
(* the pipeline hands ICMP frames from the server to it.                   *)
(***************************************************************************)
EXTENDS Naturals, Sequences, SequencesExt, FiniteSets

CONSTANTS
    Sessions,   \* the ids of the sessions that may join the pipeline
    Window,     \* experimental.pipeline_ack_window
    Up,         \* for each session, the chunks its client writes in FORWARD
    Down,       \* for each session, the chunks the server relays back
    IcmpUp,     \* the ICMP packets the ICMP processor sends
    IcmpDown    \* the ICMP packets the server sends back

ASSUME Window \in Nat \ {0}
ASSUME Up \in [Sessions -> Seq(STRING)] /\ Down \in [Sessions -> Seq(STRING)]
ASSUME IcmpUp \in Seq(STRING) /\ IcmpDown \in Seq(STRING)

NoSession == "none"          \* session id 0: the password line and ICMP
Header    == "H"             \* out_write_buf: the session's trojan request

Frame(cmd, s, d, h) == [cmd |-> cmd, sid |-> s, data |-> d, h |-> h]
PasswordLine == Frame("PW", NoSession, <<>>, "none")
NoFrame      == Frame("NONE", NoSession, <<>>, "none")

Op(k, st, res, d) == [k |-> k, st |-> st, res |-> res, data |-> d]

VARIABLES
    \* ---- the Pipeline object ----
    pdestroyed,     \* destroyed
    pconnected,     \* connected
    pconn,          \* the connect_remote_server_ssl operation of start()
    members,        \* sessions (the list of member sessions)
    sendq,          \* sending_data_cache: frames with their sent handlers
    wst,            \* the async_write of Head(sendq): idle, pending, ok, error
    rd,             \* the async_read_some of out_async_recv
    \* ---- the member ClientSessions (functions of the session id) ----
    st,             \* status
    credits,        \* pipeline_ack_counter: credits left in the ACK window
    waiting,        \* the session refused to read and waits for an ACK
    sops,           \* outstanding operations on in_socket
    creading,       \* pipeline_data_cache.async_read is waiting for data
    cache,          \* pipeline_data_cache: DATA received and not yet read
    \* ---- the local clients ----
    appSent, appClosed, inbox, toApp,
    \* ---- the ICMP processor ----
    icmpSent,       \* packets it has passed to session_async_send_icmp
    icmpOut,        \* packets it got from the pipeline (client_out_send)
    \* ---- the trojan server ----
    firstRcvd,      \* the first frame the server received (or none yet)
    rcvd,           \* for each session, the frames the server received
    downq,          \* frames the server has sent and the pipeline not read
    srvAcked,       \* ACKs the server has sent for each session
    nDown,          \* DATA chunks the server has sent to each session
    srvClosed,      \* sessions the server has closed with CLOSE
    srvGone,        \* the server has closed the TLS connection
    garbled,        \* the server has sent bytes that are no frame
    nIcmp           \* ICMP packets the server has sent

pipeVars == <<pdestroyed, pconnected, pconn, members, sendq, wst, rd>>
sessVars == <<st, credits, waiting, sops, creading, cache>>
icmpVars == <<icmpSent, icmpOut>>
appVars  == <<appSent, appClosed, inbox, toApp, icmpVars>>
srvVars  == <<firstRcvd, rcvd, downq, srvAcked, nDown, srvClosed, srvGone, garbled, nIcmp>>
vars     == <<pipeVars, sessVars, appVars, srvVars>>

NoRead == [st |-> "none", res |-> "none", f |-> PasswordLine]

\* An operation started on in_socket; destroy() has closed it by DESTROY.
Issue(s, k, d) == IF st[s] = "DESTROY" THEN Op(k, "ready", "error", d)
                                       ELSE Op(k, "pending", "none", d)

AbortAll(q) ==
    [j \in DOMAIN q |->
        IF q[j].st = "pending"
        THEN [q[j] EXCEPT !.st = "ready", !.res = "aborted"] ELSE q[j]]

\* SendDataCache after a change of the queue: a write is started when the
\* pipeline is connected, none is in flight and the queue is not empty.
\* The async writer of the Pipeline does nothing once it is destroyed.
SetQueue(q, busy) ==
    /\ sendq' = q
    /\ wst' = IF busy THEN wst
              ELSE IF pconnected /\ ~pdestroyed /\ q # <<>> THEN "pending"
              ELSE "idle"

\* Pipeline::session_async_send_cmd: queue a frame with its sent handler.
\* On a destroyed pipeline the handler gets broken_pipe; every session that
\* can send then is already DESTROY (MembersMatchLiveSessions), so the
\* handler's destroy() returns at once and the call changes nothing.
session_async_send_cmd(cmd, s, d, h, q) ==
    IF pdestroyed THEN q ELSE Append(q, Frame(cmd, s, d, h))

\* Pipeline::session_async_send_icmp: queue an ICMP frame with session id
\* 0; on a destroyed pipeline the handler gets broken_pipe instead.
session_async_send_icmp(d, q) ==
    IF pdestroyed THEN q ELSE Append(q, Frame("ICMP", NoSession, <<d>>, "none"))

\* PipelineComponent::pre_call_ack_func: may the session read in_socket?
pre_call_ack_func(c) == c > 0

\* SocketSession::recv_ack_cmd: an ACK returns a credit, capped at the window.
SocketSession_recv_ack(c) == IF c < Window THEN c + 1 ELSE c

\* ClientSession::out_recv in pipeline mode: write to in_socket in FORWARD.
out_recv(s, d, rest) ==
    IF st[s] = "FORWARD" THEN Append(rest, Issue(s, "inWrite", d)) ELSE rest

\* The handler has nothing left to do for session s.
Keep(s, rest, q, busy) ==
    /\ sops' = [sops EXCEPT ![s] = rest]
    /\ UNCHANGED <<st, credits, waiting, creading, cache, members>>
    /\ SetQueue(q, busy)

\* Mutant: the CLOSE frame is put at the head of the queue (insert_data).
session_destroyed_inserts_close(s, m, q, busy) ==
    IF pdestroyed
    THEN /\ members' = m
         /\ SetQueue(q, busy)
    ELSE /\ members' = m \ {s}
         /\ SetQueue(<<Frame("CLOSE", s, <<>>, "none")>> \o q, busy)

\* Pipeline::session_destroyed: erase the session and send CLOSE for it.
session_destroyed(s, m, q, busy) ==
    IF pdestroyed
    THEN /\ members' = m
         /\ SetQueue(q, busy)
    ELSE /\ members' = m \ {s}
         /\ SetQueue(session_async_send_cmd("CLOSE", s, <<>>, "none", q), busy)

\* Mutant: destroy never tells the pipeline, as if pipeline_call were set.
destroy_skips_pipeline(s, pipeline_call, rest, m, q, busy) ==
    /\ IF st[s] = "DESTROY"
       THEN /\ sops' = [sops EXCEPT ![s] = rest]
            /\ UNCHANGED st
       ELSE /\ st' = [st EXCEPT ![s] = "DESTROY"]
            /\ sops' = [sops EXCEPT ![s] = AbortAll(rest)]
    /\ members' = m
    /\ SetQueue(q, busy)
    /\ UNCHANGED <<credits, waiting, creading, cache>>

\* Mutant: destroy does not cancel the operations pending on in_socket.
destroy_keeps_pending(s, pipeline_call, rest, m, q, busy) ==
    /\ IF st[s] = "DESTROY"
       THEN /\ sops' = [sops EXCEPT ![s] = rest]
            /\ members' = m
            /\ SetQueue(q, busy)
            /\ UNCHANGED st
       ELSE /\ st' = [st EXCEPT ![s] = "DESTROY"]
            /\ sops' = [sops EXCEPT ![s] = rest]
            /\ IF pipeline_call
               THEN /\ members' = m
                    /\ SetQueue(q, busy)
               ELSE session_destroyed(s, m, q, busy)
    /\ UNCHANGED <<credits, waiting, creading, cache>>

\* ClientSession::destroy(pipeline_call): idempotent; cancels and closes
\* in_socket and, unless the pipeline itself asked, tells the pipeline
\* (Service::session_destroy_in_pipeline -> Pipeline::session_destroyed).
\* m is the member list as the caller leaves it.
destroy(s, pipeline_call, rest, m, q, busy) ==
    /\ IF st[s] = "DESTROY"
       THEN /\ sops' = [sops EXCEPT ![s] = rest]
            /\ members' = m
            /\ SetQueue(q, busy)
            /\ UNCHANGED st
       ELSE /\ st' = [st EXCEPT ![s] = "DESTROY"]
            /\ sops' = [sops EXCEPT ![s] = AbortAll(rest)]
            /\ IF pipeline_call
               THEN /\ members' = m
                    /\ SetQueue(q, busy)
               ELSE session_destroyed(s, m, q, busy)
    /\ UNCHANGED <<credits, waiting, creading, cache>>

\* Mutant: the credit is taken before the check, also when refused.
in_async_read_charge_first(s, c, rest, q, busy) ==
    /\ IF st[s] = "FORWARD" /\ ~pre_call_ack_func(c)
       THEN /\ waiting' = [waiting EXCEPT ![s] = TRUE]
            /\ credits' = [credits EXCEPT ![s] = c - 1]
            /\ sops' = [sops EXCEPT ![s] = rest]
       ELSE /\ waiting' = [waiting EXCEPT ![s] = FALSE]
            /\ credits' = [credits EXCEPT ![s] = IF st[s] = "FORWARD"
                                                 THEN c - 1 ELSE c]
            /\ sops' = [sops EXCEPT ![s] = Append(rest, Issue(s, "inRead", <<>>))]
    /\ UNCHANGED <<st, creading, cache, members>>
    /\ SetQueue(q, busy)

\* Mutant: in_async_read without the pre_call_ack_func check.
in_async_read_ungated(s, c, rest, q, busy) ==
    /\ waiting' = [waiting EXCEPT ![s] = FALSE]
    /\ credits' = [credits EXCEPT ![s] = c]
    /\ sops' = [sops EXCEPT ![s] = Append(rest, Issue(s, "inRead", <<>>))]
    /\ UNCHANGED <<st, creading, cache, members>>
    /\ SetQueue(q, busy)

\* ClientSession::in_async_read: in FORWARD a read of in_socket costs a
\* credit of the ACK window; without one the session waits for an ACK.
\* c is the session's credit count as the caller leaves it.
in_async_read(s, c, rest, q, busy) ==
    /\ IF st[s] = "FORWARD" /\ ~pre_call_ack_func(c)
       THEN /\ waiting' = [waiting EXCEPT ![s] = TRUE]
            /\ credits' = [credits EXCEPT ![s] = c]
            /\ sops' = [sops EXCEPT ![s] = rest]
       ELSE /\ waiting' = [waiting EXCEPT ![s] = FALSE]
            /\ credits' = [credits EXCEPT ![s] = IF st[s] = "FORWARD"
                                                 THEN c - 1 ELSE c]
            /\ sops' = [sops EXCEPT ![s] = Append(rest, Issue(s, "inRead", <<>>))]
    /\ UNCHANGED <<st, creading, cache, members>>
    /\ SetQueue(q, busy)

\* Mutant: the data cache is handed out but not emptied.
out_async_read_keeps_cache(s, rest, q, busy) ==
    /\ IF cache[s] # <<>>
       THEN /\ sops' = [sops EXCEPT ![s] = out_recv(s, cache[s], rest)]
            /\ UNCHANGED <<creading, cache>>
       ELSE /\ sops' = [sops EXCEPT ![s] = rest]
            /\ creading' = [creading EXCEPT ![s] = TRUE]
            /\ UNCHANGED cache
    /\ UNCHANGED <<st, credits, waiting, members>>
    /\ SetQueue(q, busy)

\* ClientSession::out_async_read in pipeline mode: read the pipeline data
\* cache; what is there already goes to out_recv at once.
out_async_read(s, rest, q, busy) ==
    /\ IF cache[s] # <<>>
       THEN /\ sops' = [sops EXCEPT ![s] = out_recv(s, cache[s], rest)]
            /\ cache' = [cache EXCEPT ![s] = <<>>]
            /\ UNCHANGED creading
       ELSE /\ sops' = [sops EXCEPT ![s] = rest]
            /\ creading' = [creading EXCEPT ![s] = TRUE]
            /\ UNCHANGED cache
    /\ UNCHANGED <<st, credits, waiting, members>>
    /\ SetQueue(q, busy)

\* ClientSession::out_sent: the DATA frame is written; read in_socket again.
out_sent(s, rest, q, busy) ==
    IF st[s] = "FORWARD" THEN in_async_read(s, credits[s], rest, q, busy)
                         ELSE Keep(s, rest, q, busy)

\* ClientSession::in_sent: the ACK frame is written; read the cache again.
in_sent(s, rest, q, busy) ==
    IF st[s] = "FORWARD" THEN out_async_read(s, rest, q, busy)
                         ELSE Keep(s, rest, q, busy)

\* The handler Service::start_session passes to session_start: once CONNECT
\* is written the session starts (its SOCKS5 handshake).
started(s, q) ==
    /\ st' = [st EXCEPT ![s] = IF @ = "STARTING" THEN "HANDSHAKE" ELSE @]
    /\ UNCHANGED <<credits, waiting, sops, creading, cache, members>>
    /\ SetQueue(q, FALSE)

\* SendDataCache, on a completed write: pop the frame, call its handler.
sent_handler(f, q) ==
    CASE f.h = "started"  -> started(f.sid, q)
      [] f.h = "out_sent" -> out_sent(f.sid, sops[f.sid], q, FALSE)
      [] f.h = "in_sent"  -> in_sent(f.sid, sops[f.sid], q, FALSE)
      [] OTHER            -> /\ UNCHANGED <<st, credits, waiting, sops,
                                            creading, cache, members>>
                             /\ SetQueue(q, FALSE)

\* Mutant: recv_ack_cmd takes the credit back but does not resume reading.
recv_ack_cmd_no_resume(s) ==
    /\ credits' = [credits EXCEPT ![s] = SocketSession_recv_ack(@)]
    /\ UNCHANGED <<st, waiting, sops, creading, cache, members>>
    /\ SetQueue(sendq, wst # "idle")

\* ClientSession::recv_ack_cmd: take the credit back and, if the session
\* was refused a read, read in_socket now.
recv_ack_cmd(s) ==
    LET c == SocketSession_recv_ack(credits[s]) IN
    IF waiting[s]
    THEN in_async_read(s, c, sops[s], sendq, wst # "idle")
    ELSE /\ credits' = [credits EXCEPT ![s] = c]
         /\ UNCHANGED <<st, waiting, sops, creading, cache, members>>
         /\ SetQueue(sendq, wst # "idle")

\* PipelineComponent::pipeline_in_recv: a DATA payload goes to the pending
\* async_read of the data cache, or is kept until the session reads.
pipeline_in_recv(s, d) ==
    /\ IF creading[s]
       THEN /\ sops' = [sops EXCEPT ![s] = out_recv(s, d, sops[s])]
            /\ creading' = [creading EXCEPT ![s] = FALSE]
            /\ UNCHANGED cache
       ELSE /\ cache' = [cache EXCEPT ![s] = @ \o d]
            /\ UNCHANGED <<sops, creading>>
    /\ UNCHANGED <<st, credits, waiting, members>>
    /\ SetQueue(sendq, wst # "idle")

\* Pipeline::destroy: destroy every member session (pipeline_call = true),
\* clear the list and shut the TLS socket down, which aborts the pending
\* read r and write w of the pipeline.
Pipeline_destroy(r, w) ==
    IF pdestroyed
    THEN /\ rd' = r /\ wst' = w
         /\ UNCHANGED <<pdestroyed, st, sops, members>>
    ELSE /\ pdestroyed' = TRUE
         /\ st' = [s \in Sessions |-> IF s \in members THEN "DESTROY" ELSE st[s]]
         /\ sops' = [s \in Sessions |-> IF s \in members THEN AbortAll(sops[s])
                                                         ELSE sops[s]]
         /\ members' = {}
         /\ rd' = IF r.st = "pending" THEN [r EXCEPT !.st = "ready", !.res = "error"]
                                      ELSE r
         /\ wst' = IF w = "pending" THEN "error" ELSE w

-----------------------------------------------------------------------------
(* Steps of the pipeline and of its sessions on the reactor.               *)

Busy == wst # "idle"
Ready(s, i, kind) == sops[s][i].st = "ready" /\ sops[s][i].k = kind

\* Pipeline::session_start: join the pipeline and send CONNECT.  The
\* service only picks a pipeline that is not destroyed.
session_start(s) ==
    /\ st[s] = "IDLE" /\ ~pdestroyed
    /\ members' = members \cup {s}
    /\ st' = [st EXCEPT ![s] = "STARTING"]
    /\ SetQueue(session_async_send_cmd("CONNECT", s, <<>>, "started", sendq), Busy)
    /\ UNCHANGED <<credits, waiting, sops, creading, cache>>
    /\ UNCHANGED <<pdestroyed, pconnected, pconn, rd, appVars, srvVars>>

\* The SOCKS5 exchange ends: refused (in_sent in INVALID destroys), or
\* in_sent in REQUEST: status CONNECT, in_async_read, then request_remote,
\* which in pipeline mode runs its callback at once: cancel in_socket (the
\* read just started is aborted), FORWARD, out_async_read (the cache is
\* empty: the server sends nothing before the session's first DATA), and
\* out_async_write(out_write_buf) as a DATA frame.
socks_done(s) ==
    /\ st[s] = "HANDSHAKE"
    /\ \/ destroy(s, FALSE, sops[s], members, sendq, Busy)
       \/ /\ st' = [st EXCEPT ![s] = "FORWARD"]
          /\ sops' = [sops EXCEPT ![s] = <<Op("inRead", "ready", "aborted", <<>>)>>]
          /\ creading' = [creading EXCEPT ![s] = TRUE]
          /\ SetQueue(session_async_send_cmd("DATA", s, <<Header>>, "out_sent", sendq), Busy)
          /\ UNCHANGED <<credits, waiting, cache, members>>
    /\ UNCHANGED <<pdestroyed, pconnected, pconn, rd, appVars, srvVars>>

\* The handler of in_socket.async_read_some, then in_recv in FORWARD:
\* out_async_write sends the bytes as a DATA frame.
in_read_handler(s, i) ==
    /\ Ready(s, i, "inRead")
    /\ LET op == sops[s][i]  rest == RemoveAt(sops[s], i) IN
       \/ op.res = "aborted" /\ Keep(s, rest, sendq, Busy)
       \/ op.res \in {"eof", "error"} /\ destroy(s, FALSE, rest, members, sendq, Busy)
       \/ /\ op.res = "ok" /\ st[s] = "FORWARD"
          /\ Keep(s, rest, session_async_send_cmd("DATA", s, op.data, "out_sent", sendq), Busy)
       \/ op.res = "ok" /\ st[s] # "FORWARD" /\ Keep(s, rest, sendq, Busy)
    /\ UNCHANGED <<pdestroyed, pconnected, pconn, rd, appVars, srvVars>>

\* Mutant: the write to in_socket is acknowledged whatever the status.
in_write_handler_ack_always(s, i) ==
    /\ Ready(s, i, "inWrite")
    /\ LET op == sops[s][i]  rest == RemoveAt(sops[s], i) IN
       \/ op.res # "ok" /\ destroy(s, FALSE, rest, members, sendq, Busy)
       \/ /\ op.res = "ok"
          /\ Keep(s, rest, session_async_send_cmd("ACK", s, <<>>, "in_sent", sendq), Busy)
    /\ UNCHANGED <<pdestroyed, pconnected, pconn, rd, appVars, srvVars>>

\* The handler of async_write on in_socket: in FORWARD the write is
\* acknowledged with an ACK frame whose sent handler runs in_sent.
in_write_handler(s, i) ==
    /\ Ready(s, i, "inWrite")
    /\ LET op == sops[s][i]  rest == RemoveAt(sops[s], i) IN
       \/ op.res # "ok" /\ destroy(s, FALSE, rest, members, sendq, Busy)
       \/ /\ op.res = "ok" /\ st[s] = "FORWARD"
          /\ Keep(s, rest, session_async_send_cmd("ACK", s, <<>>, "in_sent", sendq), Busy)
       \/ op.res = "ok" /\ st[s] # "FORWARD" /\ in_sent(s, rest, sendq, Busy)
    /\ UNCHANGED <<pdestroyed, pconnected, pconn, rd, appVars, srvVars>>

\* Mutant: the password line is queued behind the frames (push_data).
connect_handler_appends_password ==
    /\ pconn \in {"ok", "error"}
    /\ pconn' = "done"
    /\ \/ /\ pconn = "ok"
          /\ pconnected' = TRUE
          /\ sendq' = Append(sendq, PasswordLine)
          /\ wst' = IF pdestroyed THEN wst ELSE "pending"
          /\ rd' = [NoRead EXCEPT !.st = "pending"]
          /\ UNCHANGED <<pdestroyed, sessVars, members>>
       \/ /\ pconn = "error"
          /\ Pipeline_destroy(rd, wst)
          /\ UNCHANGED <<pconnected, sendq, credits, waiting, creading, cache>>
    /\ UNCHANGED <<appVars, srvVars>>

\* The handler of the connect of Pipeline::start: connected, the password
\* line goes in front of every queued frame, and reading starts.
connect_handler ==
    /\ pconn \in {"ok", "error"}
    /\ pconn' = "done"
    /\ \/ /\ pconn = "ok"
          /\ pconnected' = TRUE
          /\ sendq' = <<PasswordLine>> \o sendq
          /\ wst' = IF pdestroyed THEN wst ELSE "pending"
          /\ rd' = [NoRead EXCEPT !.st = "pending"]
          /\ UNCHANGED <<pdestroyed, sessVars, members>>
       \/ /\ pconn = "error"
          /\ Pipeline_destroy(rd, wst)
          /\ UNCHANGED <<pconnected, sendq, credits, waiting, creading, cache>>
    /\ UNCHANGED <<appVars, srvVars>>

\* The handler of the async writer: on error destroy the pipeline (the
\* frame's handler is not called); otherwise pop the frame, call its sent
\* handler, and write the next one.
write_handler ==
    /\ wst \in {"ok", "error"}
    /\ \/ /\ wst = "error"
          /\ Pipeline_destroy(rd, "idle")
          /\ UNCHANGED <<pconnected, pconn, sendq, credits, waiting, creading, cache>>
       \/ /\ wst = "ok"
          /\ sent_handler(Head(sendq), Tail(sendq))
          /\ UNCHANGED <<pdestroyed, pconnected, pconn, rd>>
    /\ UNCHANGED <<appVars, srvVars>>

\* Mutant: a CLOSE from the server destroys the session but leaves it in
\* the list.
dispatch_close_keeps_member(f) ==
    LET s == f.sid IN
    \/ /\ s \notin members
       /\ UNCHANGED <<sessVars, members, sendq, wst>>
    \/ s \in members /\ f.cmd = "CLOSE" /\ destroy(s, TRUE, sops[s], members, sendq, Busy)
    \/ s \in members /\ f.cmd = "ACK"   /\ recv_ack_cmd(s)
    \/ s \in members /\ f.cmd = "DATA"  /\ pipeline_in_recv(s, f.data)

dispatch_icmp(f) ==
    /\ icmpOut' = Append(icmpOut, Head(f.data))
    /\ UNCHANGED <<sessVars, members, sendq, wst>>

\* Pipeline::out_async_recv, the body of the frame loop for a session frame.
dispatch(f) ==
    LET s == f.sid IN
    \/ /\ s \notin members
       /\ UNCHANGED <<sessVars, members, sendq, wst>>
    \/ s \in members /\ f.cmd = "CLOSE" /\ destroy(s, TRUE, sops[s], members \ {s}, sendq, Busy)
    \/ s \in members /\ f.cmd = "ACK"   /\ recv_ack_cmd(s)
    \/ s \in members /\ f.cmd = "DATA"  /\ pipeline_in_recv(s, f.data)

\* The handler of out_socket.async_read_some of the pipeline: on error
\* destroy; a frame that does not parse (-2) destroys and stops reading;
\* otherwise dispatch the frame and read again.
recv_handler ==
    /\ rd.st = "ready"
    /\ \/ /\ \/ rd.res # "ok"
             \/ rd.res = "ok" /\ rd.f.cmd = "BAD"
          /\ Pipeline_destroy(NoRead, wst)
          /\ UNCHANGED <<pconnected, pconn, sendq, credits, waiting, creading, cache, icmpOut>>
       \/ /\ rd.res = "ok" /\ rd.f.cmd # "BAD"
          /\ IF rd.f.cmd = "ICMP" THEN dispatch_icmp(rd.f)
                                  ELSE dispatch(rd.f) /\ UNCHANGED icmpOut
          /\ rd' = IF pdestroyed THEN [NoRead EXCEPT !.st = "ready", !.res = "error"]
                                 ELSE [NoRead EXCEPT !.st = "pending"]
          /\ UNCHANGED <<pdestroyed, pconnected, pconn>>
    /\ UNCHANGED <<appSent, appClosed, inbox, toApp, icmpSent, srvVars>>

-----------------------------------------------------------------------------
(* Environment: the kernel, the local clients and the trojan server.       *)

Pending(s, i, kind) == sops[s][i].st = "pending" /\ sops[s][i].k = kind
Complete(s, i, res, d) ==
    sops' = [sops EXCEPT ![s][i] = [@ EXCEPT !.st = "ready", !.res = res, !.data = d]]

\* A read of in_socket returns the client's next chunk, or EOF.
InReadCompletes(s) ==
    \E i \in DOMAIN sops[s] :
        /\ Pending(s, i, "inRead")
        /\ \/ /\ inbox[s] # <<>>
              /\ Complete(s, i, "ok", <<Head(inbox[s])>>)
              /\ inbox' = [inbox EXCEPT ![s] = Tail(@)]
           \/ /\ inbox[s] = <<>> /\ appClosed[s]
              /\ Complete(s, i, "eof", <<>>)
              /\ UNCHANGED inbox
        /\ UNCHANGED <<appSent, appClosed, toApp, icmpVars, pipeVars, st, credits,
                       waiting, creading, cache, srvVars>>

\* A write to in_socket reaches the client (or fails once it has closed).
InWriteCompletes(s) ==
    \E i \in DOMAIN sops[s] :
        /\ Pending(s, i, "inWrite")
        /\ \/ /\ Complete(s, i, "ok", sops[s][i].data)
              /\ toApp' = [toApp EXCEPT ![s] = @ \o sops[s][i].data]
           \/ /\ appClosed[s]
              /\ Complete(s, i, "error", sops[s][i].data)
              /\ UNCHANGED toApp
        /\ UNCHANGED <<appSent, appClosed, inbox, icmpVars, pipeVars, st, credits,
                       waiting, creading, cache, srvVars>>

Answered(s) == st[s] \notin {"IDLE", "STARTING", "HANDSHAKE"}

\* Once its SOCKS5 request is answered the client writes its chunks.
AppSend(s) ==
    /\ Answered(s) /\ ~appClosed[s] /\ appSent[s] < Len(Up[s])
    /\ inbox' = [inbox EXCEPT ![s] = Append(@, Up[s][appSent[s] + 1])]
    /\ appSent' = [appSent EXCEPT ![s] = @ + 1]
    /\ UNCHANGED <<appClosed, toApp, icmpVars, pipeVars, sessVars, srvVars>>

AppClose(s) ==
    /\ Answered(s) /\ ~appClosed[s]
    /\ appClosed' = [appClosed EXCEPT ![s] = TRUE]
    /\ UNCHANGED <<appSent, inbox, toApp, icmpVars, pipeVars, sessVars, srvVars>>

\* The ICMP processor sends its next packet through the pipeline.
IcmpSend ==
    /\ icmpSent < Len(IcmpUp)
    /\ icmpSent' = icmpSent + 1
    /\ SetQueue(session_async_send_icmp(IcmpUp[icmpSent + 1], sendq), Busy)
    /\ UNCHANGED <<pdestroyed, pconnected, pconn, members, rd>>
    /\ UNCHANGED <<sessVars, appSent, appClosed, inbox, toApp, icmpOut, srvVars>>

ConnectCompletes ==
    /\ pconn = "pending"
    /\ \E res \in {"ok", "error"} : pconn' = res
    /\ UNCHANGED <<pdestroyed, pconnected, members, sendq, wst, rd>>
    /\ UNCHANGED <<sessVars, appVars, srvVars>>

\* The frame at the head of the send queue reaches the server.
WriteCompletes ==
    /\ wst = "pending"
    /\ \/ /\ ~srvGone
          /\ wst' = "ok"
          /\ firstRcvd' = IF firstRcvd = NoFrame THEN Head(sendq) ELSE firstRcvd
          /\ rcvd' = IF Head(sendq).sid \in Sessions
                     THEN [rcvd EXCEPT ![Head(sendq).sid] = Append(@, Head(sendq))]
                     ELSE rcvd
       \/ /\ srvGone
          /\ wst' = "error"
          /\ UNCHANGED <<firstRcvd, rcvd>>
    /\ UNCHANGED <<pdestroyed, pconnected, pconn, members, sendq, rd>>
    /\ UNCHANGED <<sessVars, appVars, downq, srvAcked, nDown, srvClosed,
                   srvGone, garbled, nIcmp>>

\* The read of the pipeline returns the next frame, or EOF.
ReadCompletes ==
    /\ rd.st = "pending"
    /\ \/ /\ downq # <<>>
          /\ rd' = [rd EXCEPT !.st = "ready", !.res = "ok", !.f = Head(downq)]
          /\ downq' = Tail(downq)
       \/ /\ downq = <<>> /\ srvGone
          /\ rd' = [rd EXCEPT !.st = "ready", !.res = "eof"]
          /\ UNCHANGED downq
    /\ UNCHANGED <<pdestroyed, pconnected, pconn, members, sendq, wst>>
    /\ UNCHANGED <<sessVars, appVars, firstRcvd, rcvd, srvAcked, nDown, srvClosed,
                   srvGone, garbled, nIcmp>>

FramesOf(s, cmd) == SelectSeq(rcvd[s], LAMBDA f : f.cmd = cmd)
SrvDone(s) == s \in srvClosed \/ FramesOf(s, "CLOSE") # <<>>

\* The server acknowledges each DATA of a session once it has written it.
SrvAck(s) ==
    /\ ~srvGone /\ ~SrvDone(s)
    /\ srvAcked[s] < Len(FramesOf(s, "DATA"))
    /\ downq' = Append(downq, Frame("ACK", s, <<>>, "none"))
    /\ srvAcked' = [srvAcked EXCEPT ![s] = @ + 1]
    /\ UNCHANGED <<firstRcvd, rcvd, nDown, srvClosed, srvGone, garbled, nIcmp>>
    /\ UNCHANGED <<pipeVars, sessVars, appVars>>

\* The server relays its target's bytes, within its own ACK window.
SrvData(s) ==
    /\ ~srvGone /\ ~SrvDone(s)
    /\ FramesOf(s, "DATA") # <<>>
    /\ nDown[s] < Len(Down[s])
    /\ nDown[s] - Len(FramesOf(s, "ACK")) < Window
    /\ downq' = Append(downq, Frame("DATA", s, <<Down[s][nDown[s] + 1]>>, "none"))
    /\ nDown' = [nDown EXCEPT ![s] = @ + 1]
    /\ UNCHANGED <<firstRcvd, rcvd, srvAcked, srvClosed, srvGone, garbled, nIcmp>>
    /\ UNCHANGED <<pipeVars, sessVars, appVars>>

\* The server ends a session whose target closed.
SrvClose(s) ==
    /\ ~srvGone /\ ~SrvDone(s)
    /\ FramesOf(s, "CONNECT") # <<>>
    /\ downq' = Append(downq, Frame("CLOSE", s, <<>>, "none"))
    /\ srvClosed' = srvClosed \cup {s}
    /\ UNCHANGED <<firstRcvd, rcvd, srvAcked, nDown, srvGone, garbled, nIcmp>>
    /\ UNCHANGED <<pipeVars, sessVars, appVars>>

SrvDisconnect ==
    /\ ~srvGone
    /\ srvGone' = TRUE
    /\ UNCHANGED <<firstRcvd, rcvd, downq, srvAcked, nDown, srvClosed, garbled, nIcmp>>
    /\ UNCHANGED <<pipeVars, sessVars, appVars>>

\* Bytes that PipelineRequest::parse rejects (-2), e.g. an unknown command.
SrvGarbage ==
    /\ ~srvGone /\ ~garbled
    /\ downq' = Append(downq, Frame("BAD", NoSession, <<>>, "none"))
    /\ garbled' = TRUE
    /\ UNCHANGED <<firstRcvd, rcvd, srvAcked, nDown, srvClosed, srvGone, nIcmp>>
    /\ UNCHANGED <<pipeVars, sessVars, appVars>>

\* The server sends an ICMP packet (e.g. an echo reply) to the client.
SrvIcmp ==
    /\ ~srvGone /\ nIcmp < Len(IcmpDown)
    /\ downq' = Append(downq, Frame("ICMP", NoSession, <<IcmpDown[nIcmp + 1]>>, "none"))
    /\ nIcmp' = nIcmp + 1
    /\ UNCHANGED <<firstRcvd, rcvd, srvAcked, nDown, srvClosed, srvGone, garbled>>
    /\ UNCHANGED <<pipeVars, sessVars, appVars>>

-----------------------------------------------------------------------------

Init ==
    /\ pdestroyed = FALSE
    /\ pconnected = FALSE
    /\ pconn = "pending"
    /\ members = {}
    /\ sendq = <<>>
    /\ wst = "idle"
    /\ rd = NoRead
    /\ st = [s \in Sessions |-> "IDLE"]
    /\ credits = [s \in Sessions |-> Window]
    /\ waiting = [s \in Sessions |-> FALSE]
    /\ sops = [s \in Sessions |-> <<>>]
    /\ creading = [s \in Sessions |-> FALSE]
    /\ cache = [s \in Sessions |-> <<>>]
    /\ appSent = [s \in Sessions |-> 0]
    /\ appClosed = [s \in Sessions |-> FALSE]
    /\ inbox = [s \in Sessions |-> <<>>]
    /\ toApp = [s \in Sessions |-> <<>>]
    /\ icmpSent = 0
    /\ icmpOut = <<>>
    /\ firstRcvd = NoFrame
    /\ rcvd = [s \in Sessions |-> <<>>]
    /\ downq = <<>>
    /\ srvAcked = [s \in Sessions |-> 0]
    /\ nDown = [s \in Sessions |-> 0]
    /\ srvClosed = {}
    /\ srvGone = FALSE
    /\ garbled = FALSE
    /\ nIcmp = 0

SessionStart   == \E s \in Sessions : session_start(s)
SocksDone      == \E s \in Sessions : socks_done(s)
InReadHandler  == \E s \in Sessions : \E i \in DOMAIN sops[s] : in_read_handler(s, i)
InWriteHandler == \E s \in Sessions : \E i \in DOMAIN sops[s] : in_write_handler(s, i)

ReactorStep ==
    \/ InReadHandler \/ InWriteHandler
    \/ connect_handler \/ write_handler \/ recv_handler

KernelStep ==
    \/ ConnectCompletes \/ WriteCompletes \/ ReadCompletes
    \/ \E s \in Sessions : InReadCompletes(s) \/ InWriteCompletes(s)

ClientStep ==
    \/ SessionStart \/ SocksDone
    \/ \E s \in Sessions : AppSend(s) \/ AppClose(s)
    \/ IcmpSend

ServerStep ==
    \/ \E s \in Sessions : SrvAck(s) \/ SrvData(s) \/ SrvClose(s)
    \/ SrvDisconnect \/ SrvGarbage \/ SrvIcmp

Next == ReactorStep \/ KernelStep \/ ClientStep \/ ServerStep

\* The reactor runs every ready handler; the kernel completes connects
\* (bounded by tcp.connect_time_out), writes, and reads that have data or
\* EOF; the server acknowledges every DATA it has written to its target.
\* Clients and the server are not obliged to send, to close or to fail.
Fairness ==
    /\ WF_vars(ReactorStep)
    /\ WF_vars(ConnectCompletes) /\ WF_vars(WriteCompletes) /\ WF_vars(ReadCompletes)
    /\ \A s \in Sessions : /\ WF_vars(InReadCompletes(s))
                           /\ WF_vars(InWriteCompletes(s))
                           /\ WF_vars(SrvAck(s))

Spec == Init /\ [][Next]_vars /\ Fairness

-----------------------------------------------------------------------------
(* Properties                                                              *)

Statuses == {"IDLE", "STARTING", "HANDSHAKE", "FORWARD", "DESTROY"}
Live     == {"STARTING", "HANDSHAKE", "FORWARD"}
Chunks   == {Header} \cup Range(IcmpUp) \cup Range(IcmpDown)
              \cup UNION {Range(Up[s]) \cup Range(Down[s]) : s \in Sessions}
Frames   == [cmd : {"PW", "CONNECT", "DATA", "ACK", "CLOSE", "BAD", "ICMP"},
             sid : Sessions \cup {NoSession}, data : Seq(Chunks),
             h : {"none", "started", "out_sent", "in_sent"}]

TypeOK ==
    /\ pdestroyed \in BOOLEAN /\ pconnected \in BOOLEAN
    /\ pconn \in {"pending", "ok", "error", "done"}
    /\ members \subseteq Sessions
    /\ sendq \in Seq(Frames) /\ downq \in Seq(Frames)
    /\ firstRcvd \in Frames \cup {NoFrame} /\ rcvd \in [Sessions -> Seq(Frames)]
    /\ wst \in {"idle", "pending", "ok", "error"}
    /\ rd \in [st : {"none", "pending", "ready"},
               res : {"none", "ok", "eof", "error"}, f : Frames]
    /\ st \in [Sessions -> Statuses]
    /\ credits \in [Sessions -> 0..Window]
    /\ waiting \in [Sessions -> BOOLEAN] /\ creading \in [Sessions -> BOOLEAN]
    /\ cache \in [Sessions -> Seq(Chunks)] /\ toApp \in [Sessions -> Seq(Chunks)]
    /\ icmpSent \in 0..Len(IcmpUp) /\ icmpOut \in Seq(Chunks) /\ nIcmp \in 0..Len(IcmpDown)
    /\ \A s \in Sessions :
           sops[s] \in Seq([k : {"inRead", "inWrite"}, st : {"pending", "ready"},
                            res : {"none", "ok", "eof", "error", "aborted"},
                            data : Seq(Chunks)])

\* The first thing on the TLS connection is the password line, even when
\* sessions queued their CONNECT frames before the connection was up
\* (Pipeline::start inserts it at the head of the send queue).
AuthFirst == firstRcvd # NoFrame => firstRcvd = PasswordLine

\* The frames of one session reach the server as the protocol requires:
\* CONNECT first, CLOSE last, and the DATA payloads are the trojan request
\* and then the client's bytes in order.  This rests on the send queue
\* being FIFO, on out_sent being the only re-arm of in_socket, and on no
\* handler of a destroyed session sending anything after its CLOSE.
PayloadsOf(fs) == [j \in DOMAIN fs |-> Head(fs[j].data)]
SessionFramesOrdered ==
    \A s \in Sessions :
        LET fs == rcvd[s] IN
        /\ fs # <<>> => fs[1].cmd = "CONNECT"
        /\ \A i \in DOMAIN fs : fs[i].cmd = "CLOSE" => i = Len(fs)
        /\ IsPrefix(PayloadsOf(FramesOf(s, "DATA")), <<Header>> \o Up[s])

\* Each client receives its server's bytes once each and in order: DATA
\* goes through the data cache, one write to in_socket at a time, and the
\* cache is read again only after the ACK of the previous write is sent.
DownstreamInOrder == \A s \in Sessions : IsPrefix(toApp[s], Down[s])

\* The ACK window bounds the DATA frames of a session that the pipeline
\* has not seen acknowledged.  The trojan request is sent by request_remote
\* without a credit, so the bound is the window plus one.
IsFrame(s, cmd, f) == f.sid = s /\ f.cmd = cmd
Unwritten == IF wst = "ok" THEN Tail(sendq) ELSE sendq
AckInRead(s) == IF rd.st = "ready" /\ rd.res = "ok" /\ rd.f.sid = s
                   /\ rd.f.cmd = "ACK" THEN 1 ELSE 0
Unacked(s) ==
    Len(SelectSeq(Unwritten, LAMBDA f : IsFrame(s, "DATA", f))) + Len(FramesOf(s, "DATA"))
      - (srvAcked[s] - Len(SelectSeq(downq, LAMBDA f : IsFrame(s, "ACK", f))) - AckInRead(s))
InFlightBounded == \A s \in members : Unacked(s) <= Window + 1

\* The pipeline's list holds exactly the sessions that are alive: a session
\* destroyed by itself, by a CLOSE from the server or by the pipeline's
\* destroy is erased, and nothing stays in the list of a destroyed pipeline.
MembersMatchLiveSessions ==
    /\ members = {s \in Sessions : st[s] \in Live}
    /\ pdestroyed => members = {}

\* A session refused a read by the ACK window reads again once an ACK
\* comes back (ClientSession::recv_ack_cmd), unless it is destroyed.
AckResumesRead ==
    \A s \in Sessions :
        (waiting[s] /\ st[s] = "FORWARD") ~> (~waiting[s] \/ st[s] = "DESTROY")

\* When a client closes, the server hears of it: the session's CLOSE frame
\* reaches it, it had closed the session itself, or the whole pipeline
\* goes down.
AppCloseReachesServer ==
    \A s \in Sessions : appClosed[s] ~> (SrvDone(s) \/ pdestroyed)

-----------------------------------------------------------------------------
(* Refinement: the pipeline implements PipelineAbstract.  Upstream is the  *)
(* payloads of the DATA frames the server received, less the trojan        *)
(* request in front; it is closed by the session's CLOSE frame.            *)
(* Downstream is what the client received; it is closed by destroy.        *)

UpDelivered(s) ==
    LET p == PayloadsOf(FramesOf(s, "DATA")) IN IF p = <<>> THEN <<>> ELSE Tail(p)

ABS == INSTANCE PipelineAbstract WITH
           up         <- [s \in Sessions |-> UpDelivered(s)],
           upClosed   <- [s \in Sessions |-> FramesOf(s, "CLOSE") # <<>>],
           down       <- toApp,
           downClosed <- [s \in Sessions |-> st[s] = "DESTROY"]

\* Each session gets a reliable ordered channel each way: the server
\* receives the client's chunks, and the client the server's, once each
\* and in order, the server nothing after the session's CLOSE, and the
\* client nothing once its session is destroyed (destroy aborts the
\* pending write to in_socket).
PipelineRefinesChannels == ABS!Spec

====
