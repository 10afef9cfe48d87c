\* Early client data racing the TLS handshake: does the server receive the
\* trojan header and then the client's bytes in order?
CONSTANTS
    TcpScripts <- MCTcpScripts
    UdpScripts <- MCUdpScripts
    DownTcp <- MCDownTcp
    DownUdp <- MCDownUdp
    MaxCoalesce = 3

SPECIFICATION Spec
INVARIANT UpstreamInOrder
CHECK_DEADLOCK FALSE
