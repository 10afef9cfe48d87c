\* Does the gc timer ever destroy a session less than udp_timeout after its
\* last datagram?
CONSTANTS
    Timeout <- MCTimeout
    ActiveUntil <- MCActiveUntil
    MaxTime <- MCMaxTime

SPECIFICATION Spec

INVARIANT NoEarlyGc

CHECK_DEADLOCK FALSE
