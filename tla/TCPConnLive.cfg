\* The README callback, under fairness; three-byte buffers.
SPECIFICATION FairSpec
CONSTANTS
    Byte = {0, 1, 2, 3}
    Zero = 0
    InitCap = 3
    HighWaterMark = 2
    MessageCallback = "drain"
    MaxCalls = 3
    MaxReceived = 3
    Payloads <- MCPayloads
CHECK_DEADLOCK FALSE
PROPERTIES
    SendDrains
    CloseCompletes
    PeerLossNoticed
