\* A session and the ICMP processor sharing the pipeline's send queue; the
\* session and the server close at any time, and the server may send
\* garbage or disconnect.
CONSTANTS
    s1 = s1
    Sessions <- ShareSessions
    Up <- ShareUp
    Down <- ShareDown
    Window = 1
    IcmpUp <- IcmpRequest
    IcmpDown <- IcmpReplies

SPECIFICATION Spec

INVARIANT AuthFirst
INVARIANT MembersMatchLiveSessions

PROPERTY AppCloseReachesServer
 

\* Sessions and the pipeline end: once all are destroyed and drained
\* nothing is left to happen.
CHECK_DEADLOCK FALSE
