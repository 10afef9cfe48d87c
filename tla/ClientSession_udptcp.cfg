\* A client that sends TCP bytes after UDP ASSOCIATE, before the TLS
\* handshake completes: are those bytes kept out of the trojan UDP stream?
CONSTANTS
    TcpScripts <- MCUdpTcpScripts
    UdpScripts <- MCUdpTcpDatagrams
    DownTcp <- MCDownTcp
    DownUdp <- MCDownUdp
    MaxCoalesce = 3

SPECIFICATION Spec

INVARIANT NoTcpBytesInUdpStream

CHECK_DEADLOCK FALSE
