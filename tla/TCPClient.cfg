\* Every call the application can make; a client without a connection stops.
SPECIFICATION FairSpec
CONSTANTS
    MaxReconnect = 2
    Calls = {"auto", "connect", "disconnect", "disconnect_cb", "delete", "delete_cb"}
    MaxCalls = 4
    MaxConns = 2
CHECK_DEADLOCK FALSE
INVARIANTS
    HeldUntilDown
    SingleChain
    CallbackDeleteSafe
PROPERTIES
    
    DisconnectCompletes
