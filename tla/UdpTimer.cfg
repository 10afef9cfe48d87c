\* One UDP forward session: datagrams at any second up to ActiveUntil, an
\* unrelated close at any time, and the gc timer.
CONSTANTS
    Timeout <- MCTimeout
    ActiveUntil <- MCActiveUntil
    MaxTime <- MCMaxTime

SPECIFICATION Spec

INVARIANT TypeOK

PROPERTY IdleSessionCollected

\* The session ends: once destroyed and released, and the clock at its
\* bound, nothing is left to happen.
CHECK_DEADLOCK FALSE
