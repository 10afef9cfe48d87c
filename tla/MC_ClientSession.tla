------------------------- MODULE MC_ClientSession --------------------------
(***************************************************************************)
(* Model-checking instance of ClientSession.                               *)
(*                                                                         *)
(* The client scripts cover every branch of in_recv: a CONNECT session     *)
(* that sends two data chunks (so that early data can arrive in CONNECT    *)
(* and reads can coalesce), a UDP ASSOCIATE session, a greeting without    *)
(* method 00, a command the trojan parser refuses, and junk in HANDSHAKE   *)
(* and in REQUEST.  The application sends two valid datagrams, a valid    *)
(* and a malformed one, or a zero-length one and a valid one.  The server  *)
(* answers with two chunks or two frames of two fragments each, so that a  *)
(* frame can be split across reads.                                        *)
(***************************************************************************)
EXTENDS ClientSession

MCTcpScripts ==
    { <<"G", "Req", "D1", "D2">>,
      <<"G", "UdpReq">>,
      <<"GNoAuth">>,
      <<"G", "BadCmd">>,
      <<"Junk">>,
      <<"G", "Junk">> }

\* Datagrams sent to the relay port: well-formed ones, a malformed one, and
\* a zero-length one (any local process can send it).
MCUdpScripts == { <<"U1", "U2">>, <<"U1", "UBad">>, <<"UEmpty", "U1">> }

MCDownTcp == <<"S1", "S2">>
MCDownUdp == <<"F1a", "F1b", "F2a", "F2b">>

\* A client that writes bytes on its TCP connection after UDP ASSOCIATE,
\* while the session is in CONNECT.
MCUdpTcpScripts == { <<"G", "UdpReq", "D1">> }
MCUdpTcpDatagrams == { <<"U1", "U2">> }

=============================================================================
