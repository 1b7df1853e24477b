\* A server without threads, and one with two; a stopped server stops.
SPECIFICATION FairSpec
CONSTANTS
    ThreadNums = {0, 2}
    MaxConns = 2
    MaxFails = 1
    MaxCalls = 2
CHECK_DEADLOCK FALSE
INVARIANTS
    RegisteredIsReleased
    AcceptChain
    OneLate
PROPERTIES
    StopTakesDown
    ImplementsLifecycle
