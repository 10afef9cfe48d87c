\* The frame accumulator under every cut of the server's byte stream.
CONSTANTS
    Streams <- MCStreams
    MaxRead <- MCMaxRead

SPECIFICATION Spec

INVARIANT TypeOK
INVARIANT FramesReassembled
INVARIANT GarbageDestroysPipeline

\* The stream is finite: once it is read (or the pipeline destroyed) the
\* pipeline waits for bytes that do not come.
CHECK_DEADLOCK FALSE
