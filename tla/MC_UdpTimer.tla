----------------------------- MODULE MC_UdpTimer -----------------------------
(* udp_timeout of 3 s and datagrams during the first 6 s: long enough for *)
(* a re-arm for the remaining time to be followed by more datagrams.      *)
EXTENDS UdpTimer

MCTimeout     == 3
MCActiveUntil == 6
MCMaxTime     == 12
=============================================================================
