\* Two threads that log and change attributes at any time before, during and
\* after the log thread's life; a stopped manager stops.
SPECIFICATION FairSpec
CONSTANTS
    Threads = {t1, t2}
    LogThread = log
    LastId = 0
    MaxLevel = 1
    QueueLimit = 1
    FreeLimit = 1
    Calls = {"log", "enable", "disable"}
    Faults = {"open"}
    MaxCalls = 2
CHECK_DEADLOCK FALSE
INVARIANTS
    OnePlace
    DrainedAtExit
    EarlierKept
PROPERTIES
    StopReturns
    WrittenIsFlushed
