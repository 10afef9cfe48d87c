------------------------ MODULE MC_PipelineFraming -------------------------
(* Server streams: CONNECT then DATA for a session id above 255 (the id   *)
(* spans two bytes), two empty frames back to back, DATA then an unknown  *)
(* command then CLOSE, a whole session's CONNECT, DATA and CLOSE, and an  *)
(* ICMP frame (id 0) before DATA for an id of 2^24.  Reads of 1 to 9     *)
(* bytes cut them at every position, through headers and payloads alike; *)
(* the last stream is one frame of 17 bytes, longer than any read.        *)
EXTENDS PipelineFraming

Req(c, i, d) == [cmd |-> c, id |-> i, data |-> d]

MCStreams ==
    { <<Req("CONNECT", 1, <<>>), Req("DATA", 258, <<7, 0>>)>>,
      <<Req("ACK", 65536, <<>>), Req("CLOSE", 1, <<>>)>>,
      <<Req("DATA", 1, <<7>>), Req("BAD", 1, <<>>), Req("CLOSE", 1, <<>>)>>,
      <<Req("CONNECT", 2, <<>>), Req("DATA", 2, <<1, 2, 3>>), Req("CLOSE", 2, <<>>)>>,
      <<Req("ICMP", 0, <<5, 6>>), Req("DATA", 16777216, <<0>>)>>,
      <<Req("DATA", 3, <<0, 1, 2, 3, 4, 5, 6, 7, 8, 9>>)>> }

MCMaxRead == 9
=============================================================================
