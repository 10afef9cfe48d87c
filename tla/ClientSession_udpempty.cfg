\* A zero-length datagram on the UDP relay port: does the relay stay armed?
CONSTANTS
    TcpScripts <- MCTcpScripts
    UdpScripts <- MCUdpScripts
    DownTcp <- MCDownTcp
    DownUdp <- MCDownUdp
    MaxCoalesce = 3

SPECIFICATION Spec
INVARIANT UdpRelayArmed
CHECK_DEADLOCK FALSE
