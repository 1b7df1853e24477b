\* Sends and closes from threads and callbacks, a message callback that consumes
\* any part of the buffer; a closed connection stops.
SPECIFICATION Spec
CONSTANTS
    Byte = {0, 1, 2, 3}
    Zero = 0
    InitCap = 2
    HighWaterMark = 2
    MessageCallback = "any"
    MaxCalls = 3
    MaxReceived = 3
    Payloads <- MCPayloads
CHECK_DEADLOCK FALSE
INVARIANTS
    TypeOK
    RegionsStable
    NothingStranded
    DtorSafe
    NotifiedAtMostTwice
PROPERTIES
    SendsStream
    ReceivesStream
