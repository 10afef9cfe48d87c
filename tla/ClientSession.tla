--------------------------- MODULE ClientSession ---------------------------
(***************************************************************************)
(* One ClientSession of trojan-plus in direct mode (no pipeline): the      *)
(* SOCKS5 handshake on the inner socket, the trojan request composed into  *)
(* out_write_buf, the TLS connection to the server, and the relay in both  *)
(* directions (TCP FORWARD and UDP_FORWARD).                               *)
(*                                                                         *)
(* The session runs on one boost::asio reactor.  Every async operation it  *)
(* starts is a record in `ops`.  The kernel (or the peer) turns a pending  *)
(* operation into a ready one; the reactor later runs its handler.  A      *)
(* cancel() or close() only aborts operations that are still pending: an  *)
(* operation that already completed keeps its result and its handler runs *)
(* normally.  This is the asio rule that the races below depend on.        *)
(*                                                                         *)
(* Data is abstracted to message names: a SOCKS message, a data chunk, a   *)
(* UDP datagram or a frame fragment is one element of a sequence, and a    *)
(* TCP read may return up to MaxCoalesce coalesced elements at once.       *)
(***************************************************************************)
EXTENDS Naturals, Sequences, SequencesExt, FiniteSets

CONSTANTS
    TcpScripts,   \* what the local SOCKS5 client may write on the TCP socket
    UdpScripts,   \* what the local application may send to the UDP relay port
    DownTcp,      \* chunks the server sends back on a CONNECT session
    DownUdp,      \* UDP frame fragments the server sends back ("F1a","F1b",..)
    MaxCoalesce   \* the most messages one TCP read may return at once

ASSUME DownTcp \in Seq(STRING) /\ DownUdp \in Seq(STRING)
ASSUME Len(DownUdp) % 2 = 0
ASSUME MaxCoalesce \in Nat \ {0}

\* Messages the local client writes.  "G" is a greeting offering method 00,
\* "GNoAuth" a well-formed greeting without method 00, "Req"/"UdpReq" a
\* CONNECT / UDP ASSOCIATE request, "BadCmd" a well-formed SOCKS5 request the
\* trojan request parser refuses, "Junk" bytes that are no SOCKS5 at all.
SocksMsgs  == {"G", "GNoAuth", "Req", "UdpReq", "BadCmd", "Junk"}
DataChunks == {"D1", "D2"}
\* Replies the session writes back to the client.
Replies    == {"M00", "MFF", "ConnOk", "UdpOk", "CmdErr"}
\* Trojan headers (password hex, CRLF, cmd, address, CRLF).
Headers    == {"HdrTcp", "HdrUdp"}
\* Datagrams of the local application: valid ones, a zero-length one and
\* one whose SOCKS5 UDP header is malformed.
Datagrams  == {"U1", "U2", "UEmpty", "UBad"}
PacketOf   == [d \in {"U1", "U2"} |-> IF d = "U1" THEN "P1" ELSE "P2"]

Statuses == {"HANDSHAKE", "REQUEST", "CONNECT", "FORWARD", "UDP_FORWARD",
             "INVALID", "DESTROY"}
OpKinds  == {"inRead", "inWrite", "outRead", "outWrite", "udpRead",
             "udpWrite", "connect"}
Results  == {"none", "ok", "eof", "error", "aborted"}

VARIABLES
    \* ---- the ClientSession object ----
    status, is_udp, first_packet_recv, out_write_buf, udp_data_buf,
    ops,            \* outstanding async operations (a sequence: may repeat)
    closed,         \* destroy() has closed in_socket, udp_socket, out_socket
    \* ---- the local client ----
    script, nsent, inbox, clientClosed, toClient,
    udpScript, udpInbox, udpToApp,
    \* ---- the trojan server at the other end of out_socket ----
    srvRcvd, nDown, outInbox, srvClosed

sessionVars == <<status, is_udp, first_packet_recv, out_write_buf,
                 udp_data_buf, ops, closed>>
clientVars  == <<script, nsent, inbox, clientClosed, toClient, udpScript,
                 udpInbox, udpToApp>>
serverVars  == <<srvRcvd, nDown, outInbox, srvClosed>>
vars        == <<sessionVars, clientVars, serverVars>>

Op(k, st, res, d) == [k |-> k, st |-> st, res |-> res, data |-> d]

\* Starting an async operation.  On a socket destroy() has closed, asio
\* completes it at once with an error (bad descriptor).
Issue(k, d) == IF closed THEN Op(k, "ready", "error", d)
                         ELSE Op(k, "pending", "none", d)

SocketOf(k) == CASE k \in {"inRead", "inWrite"}   -> "in"
                 [] k \in {"udpRead", "udpWrite"} -> "udp"
                 [] OTHER                         -> "out"

\* socket.cancel(): every still-pending operation on the socket completes
\* with operation_aborted; operations that already completed are untouched.
Cancel(sock, s) ==
    [j \in DOMAIN s |->
        IF SocketOf(s[j].k) = sock /\ s[j].st = "pending"
        THEN [s[j] EXCEPT !.st = "ready", !.res = "aborted"] ELSE s[j]]

AbortAll(s) ==
    [j \in DOMAIN s |->
        IF s[j].st = "pending"
        THEN [s[j] EXCEPT !.st = "ready", !.res = "aborted"] ELSE s[j]]

in_async_read  == Issue("inRead", <<>>)
out_async_read == Issue("outRead", <<>>)
udp_async_read == Issue("udpRead", <<>>)
in_async_write(d)  == Issue("inWrite", d)
out_async_write(d) == Issue("outWrite", d)
udp_async_write(d) == Issue("udpWrite", d)

\* The handler has nothing to do: only the completed operation goes away.
Keep(rest) ==
    /\ ops' = rest
    /\ UNCHANGED <<status, is_udp, first_packet_recv, out_write_buf,
                   udp_data_buf, closed>>

\* ClientSession::destroy: idempotent on status; cancels and closes the
\* three sockets (resolver.cancel, in/udp cancel+close, shutdown_ssl_socket).
destroy(rest) ==
    /\ IF status = "DESTROY"
       THEN /\ ops' = rest
            /\ UNCHANGED <<status, closed>>
       ELSE /\ status' = "DESTROY"
            /\ closed' = TRUE
            /\ ops' = AbortAll(rest)
    /\ UNCHANGED <<is_udp, first_packet_recv, out_write_buf, udp_data_buf>>

\* The SOCKS5 greeting check: data[0] = 5 and length = NMETHODS + 2.  Two
\* coalesced messages, or junk, fail it.
GreetingWellFormed(d) == d \in {<<"G">>, <<"GNoAuth">>}
\* The SOCKS5 request check: length >= 7, data[0] = 5, data[2] = 0.  A
\* request with bytes of the next message coalesced after it still passes.
RequestWellFormed(d) == Head(d) \in {"Req", "UdpReq", "BadCmd"}
\* TrojanRequest::parse of out_write_buf: a known command, a valid address
\* and CRLF right after it; trailing coalesced bytes break the CRLF check.
TrojanRequestParses(d) == d \in {<<"Req">>, <<"UdpReq">>}
HeaderOf(d) == IF Head(d) = "UdpReq" THEN "HdrUdp" ELSE "HdrTcp"

\* ClientSession::request_remote in direct mode: resolve, connect and TLS
\* handshake run as one async operation whose handler is `connected`.
request_remote == Issue("connect", <<>>)

\* Mutant: the parse failure writes the 05 07 reply but leaves status alone.
reject_command_keeps_status(rest) ==
    /\ ops' = Append(rest, in_async_write(<<"CmdErr">>))
    /\ UNCHANGED <<status, is_udp, first_packet_recv, out_write_buf,
                   udp_data_buf, closed>>

\* in_recv in REQUEST when TrojanRequest::parse fails: reply 05 07 and
\* become INVALID (in_sent then destroys).
reject_command(rest) ==
    /\ ops' = Append(rest, in_async_write(<<"CmdErr">>))
    /\ status' = "INVALID"
    /\ UNCHANGED <<is_udp, first_packet_recv, out_write_buf, udp_data_buf,
                   closed>>

\* ClientSession::in_recv
in_recv(d, rest) ==
    \/ /\ status = "HANDSHAKE"
       /\ \/ /\ ~GreetingWellFormed(d)
             /\ destroy(rest)
          \/ /\ d = <<"GNoAuth">>
             /\ ops' = Append(rest, in_async_write(<<"MFF">>))
             /\ status' = "INVALID"
             /\ UNCHANGED <<is_udp, first_packet_recv, out_write_buf,
                            udp_data_buf, closed>>
          \/ /\ d = <<"G">>
             /\ ops' = Append(rest, in_async_write(<<"M00">>))
             /\ UNCHANGED <<status, is_udp, first_packet_recv,
                            out_write_buf, udp_data_buf, closed>>
    \/ /\ status = "REQUEST"
       /\ \/ /\ ~RequestWellFormed(d)
             /\ destroy(rest)
          \/ /\ RequestWellFormed(d)
             /\ ~TrojanRequestParses(d)
             /\ reject_command(rest)
          \/ /\ d = <<"Req">>
             /\ out_write_buf' = <<HeaderOf(d)>>
             /\ is_udp' = FALSE
             /\ ops' = Append(rest, in_async_write(<<"ConnOk">>))
             /\ UNCHANGED <<status, first_packet_recv, udp_data_buf, closed>>
          \/ /\ d = <<"UdpReq">>
             /\ out_write_buf' = <<HeaderOf(d)>>
             /\ is_udp' = TRUE
             /\ \/ /\ ops' = Append(rest, in_async_write(<<"UdpOk">>))
                   /\ UNCHANGED <<status, closed>>
                \/ \* udp_socket.open fails: destroy
                   /\ status' = "DESTROY"
                   /\ closed' = TRUE
                   /\ ops' = AbortAll(rest)
             /\ UNCHANGED <<first_packet_recv, udp_data_buf>>
    \/ /\ status = "CONNECT"
       /\ first_packet_recv' = TRUE
       /\ out_write_buf' = out_write_buf \o d
       /\ ops' = rest
       /\ UNCHANGED <<status, is_udp, udp_data_buf, closed>>
    \/ /\ status = "FORWARD"
       /\ ops' = Append(rest, out_async_write(d))
       /\ UNCHANGED <<status, is_udp, first_packet_recv, out_write_buf,
                      udp_data_buf, closed>>
    \/ /\ status = "UDP_FORWARD"
       /\ destroy(rest)
    \/ /\ status \in {"INVALID", "DESTROY"}
       /\ Keep(rest)

\* ClientSession::in_sent
in_sent(rest) ==
    \/ /\ status = "HANDSHAKE"
       /\ status' = "REQUEST"
       /\ ops' = Append(rest, in_async_read)
       /\ UNCHANGED <<is_udp, first_packet_recv, out_write_buf,
                      udp_data_buf, closed>>
    \/ /\ status = "REQUEST"
       /\ status' = "CONNECT"
       /\ ops' = rest \o <<in_async_read>>
                      \o (IF is_udp THEN <<udp_async_read>> ELSE <<>>)
                      \o <<request_remote>>
       /\ UNCHANGED <<is_udp, first_packet_recv, out_write_buf,
                      udp_data_buf, closed>>
    \/ /\ status = "FORWARD"
       /\ ops' = Append(rest, out_async_read)
       /\ UNCHANGED <<status, is_udp, first_packet_recv, out_write_buf,
                      udp_data_buf, closed>>
    \/ /\ status = "INVALID"
       /\ destroy(rest)
    \/ /\ status \in {"CONNECT", "UDP_FORWARD", "DESTROY"}
       /\ Keep(rest)

\* The handler request_remote passes to connect_remote_server_ssl: runs when
\* the TLS handshake has completed.  It does not look at status first.
connected(rest) ==
    /\ LET sock      == IF is_udp THEN "udp" ELSE "in"
           cancelled == IF first_packet_recv THEN rest ELSE Cancel(sock, rest)
       IN  ops' = cancelled \o <<out_async_read, out_async_write(out_write_buf)>>
    /\ status' = IF is_udp THEN "UDP_FORWARD" ELSE "FORWARD"
    /\ UNCHANGED <<is_udp, first_packet_recv, out_write_buf, udp_data_buf,
                   closed>>

\* Mutant: the frame is relayed but udp_data_buf is not trimmed.
udp_sent_no_trim(buf, rest) ==
    /\ status = "UDP_FORWARD"
    /\ IF Len(buf) < 2
       THEN /\ udp_data_buf' = buf
            /\ ops' = Append(rest, out_async_read)
       ELSE /\ udp_data_buf' = buf
            /\ ops' = Append(rest, udp_async_write(<<Head(buf)>>))
    /\ UNCHANGED <<status, is_udp, first_packet_recv, out_write_buf, closed>>

\* Mutant: the reply is built from the whole buffer, not from one frame.
udp_sent_whole_buffer(buf, rest) ==
    /\ status = "UDP_FORWARD"
    /\ IF Len(buf) < 2
       THEN /\ udp_data_buf' = buf
            /\ ops' = Append(rest, out_async_read)
       ELSE /\ udp_data_buf' = SubSeq(buf, 3, Len(buf))
            /\ ops' = Append(rest, udp_async_write(<<buf>>))
    /\ UNCHANGED <<status, is_udp, first_packet_recv, out_write_buf, closed>>

\* ClientSession::udp_sent, given the buffer after out_recv has appended:
\* relay one complete frame to the application, or read more.
\* A frame is two fragments here; its name is that of its first fragment.
udp_sent(buf, rest) ==
    /\ status = "UDP_FORWARD"
    /\ IF Len(buf) < 2
       THEN /\ udp_data_buf' = buf
            /\ ops' = Append(rest, out_async_read)
       ELSE /\ udp_data_buf' = SubSeq(buf, 3, Len(buf))
            /\ ops' = Append(rest, udp_async_write(<<Head(buf)>>))
    /\ UNCHANGED <<status, is_udp, first_packet_recv, out_write_buf, closed>>

\* Mutant: out_recv reads ahead, re-arming out_socket without waiting for
\* the write to in_socket to complete.
out_recv_read_ahead(d, rest) ==
    \/ /\ status = "FORWARD"
       /\ ops' = rest \o <<in_async_write(d), out_async_read>>
       /\ UNCHANGED <<status, is_udp, first_packet_recv, out_write_buf,
                      udp_data_buf, closed>>
    \/ udp_sent(udp_data_buf \o d, rest)
    \/ /\ status \notin {"FORWARD", "UDP_FORWARD"}
       /\ Keep(rest)

\* ClientSession::out_recv
out_recv(d, rest) ==
    \/ /\ status = "FORWARD"
       /\ ops' = Append(rest, in_async_write(d))
       /\ UNCHANGED <<status, is_udp, first_packet_recv, out_write_buf,
                      udp_data_buf, closed>>
    \/ udp_sent(udp_data_buf \o d, rest)
    \/ /\ status \notin {"FORWARD", "UDP_FORWARD"}
       /\ Keep(rest)

\* Mutant: out_sent forgets to re-arm the read of in_socket in FORWARD.
out_sent_no_rearm(rest) ==
    \/ /\ status = "UDP_FORWARD"
       /\ ops' = Append(rest, udp_async_read)
       /\ UNCHANGED <<status, is_udp, first_packet_recv, out_write_buf,
                      udp_data_buf, closed>>
    \/ /\ status # "UDP_FORWARD"
       /\ Keep(rest)

\* ClientSession::out_sent
out_sent(rest) ==
    \/ /\ status = "FORWARD"
       /\ ops' = Append(rest, in_async_read)
       /\ UNCHANGED <<status, is_udp, first_packet_recv, out_write_buf,
                      udp_data_buf, closed>>
    \/ /\ status = "UDP_FORWARD"
       /\ ops' = Append(rest, udp_async_read)
       /\ UNCHANGED <<status, is_udp, first_packet_recv, out_write_buf,
                      udp_data_buf, closed>>
    \/ /\ status \notin {"FORWARD", "UDP_FORWARD"}
       /\ Keep(rest)

\* ClientSession::udp_recv: one datagram from the local application.
udp_recv(d, rest) ==
    LET dg == Head(d) IN
    \/ /\ dg = "UEmpty"          \* zero length: return, nothing re-armed
       /\ Keep(rest)
    \/ /\ dg = "UBad"
       /\ destroy(rest)
    \/ /\ dg \in DOMAIN PacketOf
       /\ \/ /\ status = "CONNECT"
             /\ first_packet_recv' = TRUE
             /\ out_write_buf' = Append(out_write_buf, PacketOf[dg])
             /\ ops' = rest
             /\ UNCHANGED <<status, is_udp, udp_data_buf, closed>>
          \/ /\ status = "UDP_FORWARD"
             /\ ops' = Append(rest, out_async_write(<<PacketOf[dg]>>))
             /\ UNCHANGED <<status, is_udp, first_packet_recv,
                            out_write_buf, udp_data_buf, closed>>
          \/ /\ status \notin {"CONNECT", "UDP_FORWARD"}
             /\ Keep(rest)

-----------------------------------------------------------------------------
(* Session steps: the reactor runs the handler of one completed operation. *)

Ready(i, kind) == ops[i].st = "ready" /\ ops[i].k = kind

\* ClientSession::start -> prepare_session -> in_async_read
start ==
    /\ status = "HANDSHAKE" /\ ops = <<>> /\ ~closed
    /\ \/ /\ ops' = <<in_async_read>>
          /\ UNCHANGED <<status, closed>>
       \/ \* in_socket.remote_endpoint fails
          /\ status' = "DESTROY"
          /\ closed' = TRUE
          /\ ops' = <<>>
    /\ UNCHANGED <<is_udp, first_packet_recv, out_write_buf, udp_data_buf>>
    /\ UNCHANGED <<clientVars, serverVars>>

\* The handler of in_socket.async_read_some
in_read_handler(i) ==
    /\ Ready(i, "inRead")
    /\ LET op == ops[i]  rest == RemoveAt(ops, i) IN
       \/ op.res = "aborted" /\ Keep(rest)
       \/ op.res \in {"eof", "error"} /\ destroy(rest)
       \/ op.res = "ok" /\ in_recv(op.data, rest)
    /\ UNCHANGED <<clientVars, serverVars>>

\* The handler of async_write on in_socket (direct mode: no ACK to send)
in_write_handler(i) ==
    /\ Ready(i, "inWrite")
    /\ LET op == ops[i]  rest == RemoveAt(ops, i) IN
       \/ op.res # "ok" /\ destroy(rest)
       \/ op.res = "ok" /\ in_sent(rest)
    /\ UNCHANGED <<clientVars, serverVars>>

\* The handler of out_socket.async_read_some
out_read_handler(i) ==
    /\ Ready(i, "outRead")
    /\ LET op == ops[i]  rest == RemoveAt(ops, i) IN
       \/ op.res # "ok" /\ destroy(rest)
       \/ op.res = "ok" /\ out_recv(op.data, rest)
    /\ UNCHANGED <<clientVars, serverVars>>

\* The handler of async_write on out_socket
out_write_handler(i) ==
    /\ Ready(i, "outWrite")
    /\ LET op == ops[i]  rest == RemoveAt(ops, i) IN
       \/ op.res # "ok" /\ destroy(rest)
       \/ op.res = "ok" /\ out_sent(rest)
    /\ UNCHANGED <<clientVars, serverVars>>

\* The handler of udp_socket.async_receive_from
udp_read_handler(i) ==
    /\ Ready(i, "udpRead")
    /\ LET op == ops[i]  rest == RemoveAt(ops, i) IN
       \/ op.res = "aborted" /\ Keep(rest)
       \/ op.res \in {"eof", "error"} /\ destroy(rest)
       \/ op.res = "ok" /\ udp_recv(op.data, rest)
    /\ UNCHANGED <<clientVars, serverVars>>

\* The handler of udp_socket.async_send_to
udp_write_handler(i) ==
    /\ Ready(i, "udpWrite")
    /\ LET op == ops[i]  rest == RemoveAt(ops, i) IN
       \/ op.res # "ok" /\ destroy(rest)
       \/ op.res = "ok" /\ udp_sent(udp_data_buf, rest)
       \/ op.res = "ok" /\ status # "UDP_FORWARD" /\ Keep(rest)
    /\ UNCHANGED <<clientVars, serverVars>>

\* The end of connect_remote_server_ssl: the handshake succeeded and calls
\* the handler, or resolve / connect / handshake failed and it destroys.
connect_handler(i) ==
    /\ Ready(i, "connect")
    /\ LET op == ops[i]  rest == RemoveAt(ops, i) IN
       \/ op.res = "ok" /\ connected(rest)
       \/ op.res # "ok" /\ destroy(rest)
    /\ UNCHANGED <<clientVars, serverVars>>

-----------------------------------------------------------------------------
(* Environment steps: the local client, the kernel and the server.         *)

Pending(i, kind) == ops[i].st = "pending" /\ ops[i].k = kind
Complete(i, res, d) ==
    ops' = [ops EXCEPT ![i] = [@ EXCEPT !.st = "ready", !.res = res, !.data = d]]

\* A conforming SOCKS5 client waits for the reply to each of its (at most
\* two) SOCKS messages before it writes the next message.
ClientSend ==
    /\ script # <<>> /\ ~clientClosed
    /\ Len(toClient) >= IF nsent < 2 THEN nsent ELSE 2
    /\ inbox' = Append(inbox, Head(script))
    /\ script' = Tail(script)
    /\ nsent' = nsent + 1
    /\ UNCHANGED <<clientClosed, toClient, udpScript, udpInbox, udpToApp>>
    /\ UNCHANGED <<sessionVars, serverVars>>

ClientClose ==
    /\ ~clientClosed
    /\ clientClosed' = TRUE
    /\ UNCHANGED <<script, nsent, inbox, toClient, udpScript, udpInbox, udpToApp>>
    /\ UNCHANGED <<sessionVars, serverVars>>

\* The application sends a datagram to the relay port announced in UdpOk.
AppSendDatagram ==
    /\ udpScript # <<>> /\ "UdpOk" \in Range(toClient)
    /\ udpInbox' = Append(udpInbox, Head(udpScript))
    /\ udpScript' = Tail(udpScript)
    /\ UNCHANGED <<script, nsent, inbox, clientClosed, toClient, udpToApp>>
    /\ UNCHANGED <<sessionVars, serverVars>>

\* A read of in_socket returns the next messages (up to MaxCoalesce of them
\* coalesced), or EOF.
InReadCompletes ==
    \E i \in DOMAIN ops :
        /\ Pending(i, "inRead")
        /\ \/ \E n \in 1..MaxCoalesce :
                 /\ n <= Len(inbox)
                 /\ Complete(i, "ok", SubSeq(inbox, 1, n))
                 /\ inbox' = SubSeq(inbox, n + 1, Len(inbox))
           \/ /\ inbox = <<>> /\ clientClosed
              /\ Complete(i, "eof", <<>>)
              /\ UNCHANGED inbox
        /\ UNCHANGED <<script, nsent, clientClosed, toClient, udpScript,
                       udpInbox, udpToApp>>
        /\ UNCHANGED <<status, is_udp, first_packet_recv, out_write_buf,
                       udp_data_buf, closed, serverVars>>

\* A write to in_socket lands at the client (or fails once it has closed).
InWriteCompletes ==
    \E i \in DOMAIN ops :
        /\ Pending(i, "inWrite")
        /\ \/ /\ Complete(i, "ok", ops[i].data)
              /\ toClient' = toClient \o ops[i].data
           \/ /\ clientClosed
              /\ Complete(i, "error", ops[i].data)
              /\ UNCHANGED toClient
        /\ UNCHANGED <<script, nsent, inbox, clientClosed, udpScript,
                       udpInbox, udpToApp>>
        /\ UNCHANGED <<status, is_udp, first_packet_recv, out_write_buf,
                       udp_data_buf, closed, serverVars>>

UdpReadCompletes ==
    \E i \in DOMAIN ops :
        /\ Pending(i, "udpRead") /\ udpInbox # <<>>
        /\ Complete(i, "ok", <<Head(udpInbox)>>)
        /\ udpInbox' = Tail(udpInbox)
        /\ UNCHANGED <<script, nsent, inbox, clientClosed, toClient,
                       udpScript, udpToApp>>
        /\ UNCHANGED <<status, is_udp, first_packet_recv, out_write_buf,
                       udp_data_buf, closed, serverVars>>

UdpWriteCompletes ==
    \E i \in DOMAIN ops :
        /\ Pending(i, "udpWrite")
        /\ Complete(i, "ok", ops[i].data)
        /\ udpToApp' = udpToApp \o ops[i].data
        /\ UNCHANGED <<script, nsent, inbox, clientClosed, toClient,
                       udpScript, udpInbox>>
        /\ UNCHANGED <<status, is_udp, first_packet_recv, out_write_buf,
                       udp_data_buf, closed, serverVars>>

\* Resolve, TCP connect and TLS handshake end, with success or an error
\* (resolve failure, refused, tcp.connect_time_out, bad certificate).
ConnectCompletes ==
    \E i \in DOMAIN ops :
        /\ Pending(i, "connect")
        /\ \E res \in {"ok", "error"} : Complete(i, res, <<>>)
        /\ UNCHANGED <<clientVars, serverVars>>
        /\ UNCHANGED <<status, is_udp, first_packet_recv, out_write_buf,
                       udp_data_buf, closed>>

\* A write to out_socket reaches the server (or fails once it has closed).
OutWriteCompletes ==
    \E i \in DOMAIN ops :
        /\ Pending(i, "outWrite")
        /\ \/ /\ Complete(i, "ok", ops[i].data)
              /\ srvRcvd' = srvRcvd \o ops[i].data
           \/ /\ srvClosed
              /\ Complete(i, "error", ops[i].data)
              /\ UNCHANGED srvRcvd
        /\ UNCHANGED <<nDown, outInbox, srvClosed, clientVars>>
        /\ UNCHANGED <<status, is_udp, first_packet_recv, out_write_buf,
                       udp_data_buf, closed>>

OutReadCompletes ==
    \E i \in DOMAIN ops :
        /\ Pending(i, "outRead")
        /\ \/ \E n \in 1..MaxCoalesce :
                 /\ n <= Len(outInbox)
                 /\ Complete(i, "ok", SubSeq(outInbox, 1, n))
                 /\ outInbox' = SubSeq(outInbox, n + 1, Len(outInbox))
           \/ /\ outInbox = <<>> /\ srvClosed
              /\ Complete(i, "eof", <<>>)
              /\ UNCHANGED outInbox
        /\ UNCHANGED <<srvRcvd, nDown, srvClosed, clientVars>>
        /\ UNCHANGED <<status, is_udp, first_packet_recv, out_write_buf,
                       udp_data_buf, closed>>

\* The server answers a session whose stream began with a trojan header.
DownStream == IF srvRcvd # <<>> /\ srvRcvd[1] = "HdrUdp" THEN DownUdp ELSE DownTcp

ServerSend ==
    /\ ~srvClosed /\ srvRcvd # <<>> /\ srvRcvd[1] \in Headers
    /\ nDown < Len(DownStream)
    /\ outInbox' = Append(outInbox, DownStream[nDown + 1])
    /\ nDown' = nDown + 1
    /\ UNCHANGED <<srvRcvd, srvClosed, clientVars, sessionVars>>

ServerClose ==
    /\ ~srvClosed
    /\ srvClosed' = TRUE
    /\ UNCHANGED <<srvRcvd, nDown, outInbox, clientVars, sessionVars>>

-----------------------------------------------------------------------------

Init ==
    /\ status = "HANDSHAKE"
    /\ is_udp = FALSE
    /\ first_packet_recv = FALSE
    /\ out_write_buf = <<>>
    /\ udp_data_buf = <<>>
    /\ ops = <<>>
    /\ closed = FALSE
    /\ script \in TcpScripts
    /\ nsent = 0
    /\ inbox = <<>>
    /\ clientClosed = FALSE
    /\ toClient = <<>>
    /\ udpScript \in UdpScripts
    /\ udpInbox = <<>>
    /\ udpToApp = <<>>
    /\ srvRcvd = <<>>
    /\ nDown = 0
    /\ outInbox = <<>>
    /\ srvClosed = FALSE

InReadHandler   == \E i \in DOMAIN ops : in_read_handler(i)
InWriteHandler  == \E i \in DOMAIN ops : in_write_handler(i)
OutReadHandler  == \E i \in DOMAIN ops : out_read_handler(i)
OutWriteHandler == \E i \in DOMAIN ops : out_write_handler(i)
UdpReadHandler  == \E i \in DOMAIN ops : udp_read_handler(i)
UdpWriteHandler == \E i \in DOMAIN ops : udp_write_handler(i)
ConnectHandler  == \E i \in DOMAIN ops : connect_handler(i)

SessionStep ==
    \/ start
    \/ InReadHandler \/ InWriteHandler
    \/ OutReadHandler \/ OutWriteHandler
    \/ UdpReadHandler \/ UdpWriteHandler
    \/ ConnectHandler

KernelStep ==
    \/ InReadCompletes \/ InWriteCompletes
    \/ UdpReadCompletes \/ UdpWriteCompletes
    \/ ConnectCompletes \/ OutWriteCompletes \/ OutReadCompletes

PeerStep ==
    \/ ClientSend \/ ClientClose \/ AppSendDatagram
    \/ ServerSend \/ ServerClose

Next == SessionStep \/ KernelStep \/ PeerStep

\* The reactor runs every handler that is ready; the kernel reports EOF and
\* completes writes and connects (tcp.connect_time_out bounds a connect);
\* the server keeps reading what it is sent.  The client and the server are
\* not obliged to send or to close.
Fairness ==
    /\ WF_vars(SessionStep)
    /\ WF_vars(InReadCompletes)
    /\ WF_vars(InWriteCompletes)
    /\ WF_vars(ConnectCompletes)
    /\ WF_vars(OutWriteCompletes)

Spec == Init /\ [][Next]_vars /\ Fairness

-----------------------------------------------------------------------------
(* Properties                                                              *)

Items == SocksMsgs \cup DataChunks \cup Replies \cup Headers \cup Datagrams
           \cup Range(PacketOf) \cup Range(DownTcp) \cup Range(DownUdp)

TypeOK ==
    /\ status \in Statuses
    /\ is_udp \in BOOLEAN /\ first_packet_recv \in BOOLEAN /\ closed \in BOOLEAN
    /\ out_write_buf \in Seq(Items) /\ udp_data_buf \in Seq(Items)
    /\ ops \in Seq([k : OpKinds, st : {"pending", "ready"}, res : Results,
                    data : Seq(Items)])
    /\ inbox \in Seq(Items) /\ toClient \in Seq(Items) /\ srvRcvd \in Seq(Items)
    /\ udpInbox \in Seq(Items) /\ udpToApp \in Seq(Items)
    /\ outInbox \in Seq(Items)

\* What the SOCKS5 client may see on its TCP connection: the method reply,
\* then the request reply, then (for CONNECT) the server's bytes in the
\* order the server sent them; a rejection is the last thing it sees.
\* It depends on in_recv, in_sent, out_recv and the one-read-one-write chain
\* between out_socket and in_socket (in_async_write -> in_sent ->
\* out_async_read).
AllowedClientStreams ==
    {<<"MFF">>, <<"M00", "CmdErr">>, <<"M00", "UdpOk">>,
     <<"M00", "ConnOk">> \o DownTcp}

ClientStreamWellFormed ==
    \E s \in AllowedClientStreams : IsPrefix(toClient, s)

\* The application receives the server's UDP frames whole, once each and in
\* order: udp_sent relays one complete frame per udp_async_write, trims
\* udp_data_buf, and reads out_socket again only when no frame is left.
FrameHeads == [j \in 1..(Len(DownUdp) \div 2) |-> DownUdp[2 * j - 1]]

UdpDownstreamInOrder == IsPrefix(udpToApp, FrameHeads)

\* No outbound TLS connection is attempted, and nothing reaches the server,
\* before the client has been told that its SOCKS5 request succeeded
\* (spec scenario 1: a rejected handshake attempts no outbound TLS).
NoOutboundBeforeSocksSuccess ==
    (\/ status \in {"FORWARD", "UDP_FORWARD"}
     \/ \E i \in DOMAIN ops : ops[i].k = "connect"
     \/ srvRcvd # <<>>)
    => {"ConnOk", "UdpOk"} \cap Range(toClient) # {}

\* In UDP_FORWARD the upstream UDP relay is always armed: a datagram read is
\* outstanding, or the write of the previous one to the server is (whose
\* completion, out_sent, re-arms the read).
UdpRelayArmed ==
    status = "UDP_FORWARD" => \E i \in DOMAIN ops : ops[i].k \in {"udpRead", "outWrite"}

\* The server receives the trojan header first and then the client's bytes
\* (or UDP packets) in the order the client sent them.
IsData(m)    == m \in DataChunks
IsPacket(m)  == m \in DOMAIN PacketOf
PacketsOf(u) == [j \in 1..Len(SelectSeq(u, IsPacket)) |-> PacketOf[SelectSeq(u, IsPacket)[j]]]
AllowedServerStreams ==
    {<<"HdrTcp">> \o SelectSeq(sc, IsData) : sc \in TcpScripts}
      \cup {<<"HdrUdp">> \o PacketsOf(u) : u \in UdpScripts}

UpstreamInOrder == \E s \in AllowedServerStreams : IsPrefix(srvRcvd, s)

\* On a UDP ASSOCIATE session the TCP connection carries no payload: bytes
\* the client writes on it are not relayed to the server (in UDP_FORWARD
\* in_recv destroys the session for them), so the trojan UDP stream holds
\* the header and UDP packets only.
NoTcpBytesInUdpStream == is_udp => \A i \in DOMAIN srvRcvd : ~IsData(srvRcvd[i])

\* destroy() is final: once DESTROY, the session never leaves it (the spec:
\* a session transitions monotonically and every completion handler must
\* re-check `destroyed` before touching state).
DestroyIsFinal == [][status = "DESTROY" => status' = "DESTROY"]_vars

\* Once the local client has closed its TCP connection, the session is
\* eventually destroyed and every handler holding `self` has run, so the
\* session object is released.
ClientCloseReleasesSession ==
    clientClosed ~> (status = "DESTROY" /\ ops = <<>>)

=============================================================================
