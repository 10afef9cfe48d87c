----------------------------- MODULE UdpFraming -----------------------------
(***************************************************************************)
(* The downstream UDP path of a ClientSession in UDP_FORWARD               *)
(* (session/clientsession.cpp), counted in bytes.  The server sends trojan *)
(* UDP frames <addr> <len:u16> CRLF <payload> over the TLS stream.  Each   *)
(* read of out_socket returns 1 to MAX_BUF_LENGTH bytes.  out_recv appends *)
(* them to udp_data_buf, and udp_sent relays one whole frame per           *)
(* udp_async_write, looping through the write's completion.  When no       *)
(* whole frame is buffered, udp_sent reads again, or destroys the session  *)
(* if udp_data_buf holds more than MAX_BUF_LENGTH bytes.                   *)
(*                                                                         *)
(* udp_data_buf always starts at a frame boundary, so the model keeps its  *)
(* length only.  A frame is its length in bytes, and UDPPacket::parse      *)
(* succeeds exactly when the buffer holds the whole first frame.  Frames   *)
(* from the server are well formed.                                        *)
(***************************************************************************)
EXTENDS Naturals, Sequences, SequencesExt

CONSTANTS
    Streams,   \* the frame-length sequences the server may send
    MaxBuf     \* MAX_BUF_LENGTH: the read size, and the buffer limit

ASSUME MaxBuf \in Nat \ {0}
ASSUME \A s \in Streams : \A i \in DOMAIN s : s[i] \in Nat \ {0}

VARIABLES
    stream,    \* the frames the server sends, as lengths
    pos,       \* bytes of the stream read from out_socket so far
    buf,       \* udp_data_buf.length()
    relayed,   \* the frames udp_async_write has handed to the application
    op,        \* the one handler pending: "read" (out_socket), "write"
               \* (udp_socket), or "none" once the session is destroyed
    reason     \* why the session was destroyed ("none" while alive)

vars == <<stream, pos, buf, relayed, op, reason>>

Total      == FoldSeq(LAMBDA a, b : a + b, 0, stream)
Next1      == Len(relayed) + 1            \* the frame at the front of buf
Complete(b) == Next1 <= Len(stream) /\ b >= stream[Next1]

\* Mutant: destroy does not cancel the pending operation.
destroy_keeps_pending(why) ==
    /\ op' = op /\ reason' = why

\* ClientSession::destroy: cancels the pending operation, whose handler
\* then runs with an error and returns.
destroy(why) ==
    /\ op' = "none" /\ reason' = why

\* Mutant: the too-long test is >= instead of >.
udp_sent_limit_inclusive(b) ==
    IF Complete(b)
    THEN /\ relayed' = Append(relayed, stream[Next1])
         /\ buf' = b - stream[Next1]
         /\ op' = "write" /\ UNCHANGED reason
    ELSE IF b >= MaxBuf
         THEN /\ destroy("too_long") /\ buf' = b /\ UNCHANGED relayed
         ELSE /\ buf' = b /\ op' = "read" /\ UNCHANGED <<relayed, reason>>

\* Mutant: no limit on udp_data_buf at all.
udp_sent_unbounded(b) ==
    IF Complete(b)
    THEN /\ relayed' = Append(relayed, stream[Next1])
         /\ buf' = b - stream[Next1]
         /\ op' = "write" /\ UNCHANGED reason
    ELSE /\ buf' = b /\ op' = "read" /\ UNCHANGED <<relayed, reason>>

\* Mutant: after relaying a frame, read out_socket again instead of
\* looping through the write's completion.
udp_sent_read_after_relay(b) ==
    IF Complete(b)
    THEN /\ relayed' = Append(relayed, stream[Next1])
         /\ buf' = b - stream[Next1]
         /\ op' = "read" /\ UNCHANGED reason
    ELSE IF b > MaxBuf
         THEN /\ destroy("too_long") /\ buf' = b /\ UNCHANGED relayed
         ELSE /\ buf' = b /\ op' = "read" /\ UNCHANGED <<relayed, reason>>

\* ClientSession::udp_sent in UDP_FORWARD, with b the buffer's length: relay
\* the first frame and trim it, or read more, or give up on a buffer longer
\* than MAX_BUF_LENGTH that still holds no whole frame.
udp_sent(b) ==
    IF Complete(b)
    THEN /\ relayed' = Append(relayed, stream[Next1])
         /\ buf' = b - stream[Next1]
         /\ op' = "write" /\ UNCHANGED reason
    ELSE IF b > MaxBuf
         THEN /\ destroy("too_long") /\ buf' = b /\ UNCHANGED relayed
         ELSE /\ buf' = b /\ op' = "read" /\ UNCHANGED <<relayed, reason>>

\* ClientSession::out_recv in UDP_FORWARD: append the n bytes read.
out_recv(n) == udp_sent(buf + n)

-----------------------------------------------------------------------------
(* Steps.                                                                  *)

\* The handshake callback of request_remote sets UDP_FORWARD and calls
\* out_async_read; nothing is buffered yet.
Init ==
    /\ stream \in Streams
    /\ pos = 0 /\ buf = 0 /\ relayed = <<>> /\ op = "read" /\ reason = "none"

\* The out_socket read completes with k bytes: out_recv appends them to
\* udp_data_buf and calls udp_sent.
OutReadHandler ==
    /\ op = "read" /\ pos < Total
    /\ \E k \in 1..MaxBuf :
         LET n == IF pos + k > Total THEN Total - pos ELSE k IN
         /\ pos' = pos + n
         /\ out_recv(n)
    /\ UNCHANGED stream

\* The out_socket read fails (the server closed, or TLS failed): destroy.
OutReadError ==
    /\ op = "read"
    /\ destroy("read_error")
    /\ UNCHANGED <<stream, pos, buf, relayed>>

\* The udp_async_write of a frame completes: udp_sent looks for the next.
UdpWriteHandler ==
    /\ op = "write"
    /\ udp_sent(buf)
    /\ UNCHANGED <<stream, pos>>

\* The send to the application fails: destroy.
UdpWriteError ==
    /\ op = "write"
    /\ destroy("write_error")
    /\ UNCHANGED <<stream, pos, buf, relayed>>

Next == OutReadHandler \/ OutReadError \/ UdpWriteHandler \/ UdpWriteError

\* The server has sent the whole stream, so a pending read completes; a
\* udp_async_write completes.  Errors are not obliged to happen.
Spec == Init /\ [][Next]_vars /\ WF_vars(OutReadHandler) /\ WF_vars(UdpWriteHandler)

-----------------------------------------------------------------------------
(* Properties                                                              *)

Reasons == {"none", "too_long", "read_error", "write_error"}

TypeOK ==
    /\ pos \in 0..Total /\ buf \in Nat /\ relayed \in Seq(Nat \ {0})
    /\ op \in {"read", "write", "none"} /\ reason \in Reasons
    /\ (op = "none") <=> (reason # "none")

\* udp_data_buf never holds more than 2 * MAX_BUF_LENGTH bytes: a read adds
\* at most MAX_BUF_LENGTH to a buffer that udp_sent left at most that long.
UdpBufferBounded == buf <= 2 * MaxBuf

\* A frame of at most MAX_BUF_LENGTH + 1 bytes never makes udp_sent destroy
\* the session as too long, however the TCP stream is cut into reads.
ShortFramesNeverDropped ==
    reason = "too_long" => stream[Next1] > MaxBuf + 1

\* Unless the session fails, every frame the server sent reaches the
\* application: no frame is left in udp_data_buf while a read waits for
\* bytes that will not come.
StreamDrained == <>(reason # "none" \/ Len(relayed) = Len(stream))

\* "UDP packet too long" is a property of the packet: a session destroyed
\* for a too-long frame has relayed no frame of that length or longer.
TooLongIsAFrameProperty ==
    reason = "too_long" => \A i \in DOMAIN relayed : relayed[i] < stream[Next1]

=============================================================================
