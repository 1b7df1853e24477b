\* Two connections, three packets of the client on each; a packet is three
\* cells, the second of which begins with byte 1.
SPECIFICATION FairSpec
CONSTANTS
    Parts = 3
    Ones = {2}
    MaxConns = 2
    MaxPackets = 3
INVARIANTS InOrder KeepAliveChains LoginFresh
PROPERTY LogsIn
CHECK_DEADLOCK FALSE
