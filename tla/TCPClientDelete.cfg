\* Another thread disconnects and deletes the client.
SPECIFICATION Spec
CONSTANTS
    MaxReconnect = 1
    Calls = {"delete"}
    MaxCalls = 1
    MaxConns = 1
CHECK_DEADLOCK FALSE
INVARIANTS
    DeletedDisconnecting
