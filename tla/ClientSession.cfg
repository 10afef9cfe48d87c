\* A conforming SOCKS5 client and application against a well-behaved server:
\* the SOCKS5 replies, the downstream relays and session release.
CONSTANTS
    TcpScripts <- MCTcpScripts
    UdpScripts <- MCUdpScripts
    DownTcp <- MCDownTcp
    DownUdp <- MCDownUdp
    MaxCoalesce = 3

SPECIFICATION Spec

INVARIANT TypeOK
INVARIANT ClientStreamWellFormed
INVARIANT UdpDownstreamInOrder
INVARIANT NoOutboundBeforeSocksSuccess

PROPERTY ClientCloseReleasesSession

\* A session really ends: once destroyed and drained, and with both peers
\* closed, nothing is left to happen.
CHECK_DEADLOCK FALSE
