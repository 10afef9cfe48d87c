CONSTANTS
    Streams <- MCStreams
    MaxBuf <- MCMaxBuf
SPECIFICATION Spec
INVARIANT TypeOK
INVARIANT UdpBufferBounded
INVARIANT ShortFramesNeverDropped
PROPERTY StreamDrained
CHECK_DEADLOCK FALSE
