\* A handshake completion queued before destroy(): is DESTROY final?
CONSTANTS
    TcpScripts <- MCTcpScripts
    UdpScripts <- MCUdpScripts
    DownTcp <- MCDownTcp
    DownUdp <- MCDownUdp
    MaxCoalesce = 3

SPECIFICATION Spec
PROPERTY DestroyIsFinal
CHECK_DEADLOCK FALSE
