\* One session relaying both ways through the pipeline, under the ACK
\* window, against a server that may close the session, send garbage or
\* disconnect.
CONSTANTS
    s1 = s1
    Sessions <- RelaySessions
    Up <- RelayUp
    Down <- RelayDown
    Window = 1
    IcmpUp <- NoIcmp
    IcmpDown <- NoIcmp

SPECIFICATION Spec

INVARIANT TypeOK
INVARIANT SessionFramesOrdered
INVARIANT DownstreamInOrder
INVARIANT InFlightBounded

PROPERTY AckResumesRead
PROPERTY PipelineRefinesChannels

\* The session and the pipeline end: once both are destroyed and drained
\* nothing is left to happen.
CHECK_DEADLOCK FALSE
