CONSTANTS
    Streams <- MCStreams
    MaxBuf <- MCMaxBuf
SPECIFICATION Spec
INVARIANT TooLongIsAFrameProperty
CHECK_DEADLOCK FALSE
