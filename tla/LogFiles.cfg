\* Edits of the configuration, setters and logs over three days.  A manager
\* whose bounds are used up stops.
SPECIFICATION Spec
CONSTANTS
    Bytes <- MCBytes
    Numerals <- MCNumerals
    Slashed <- MCSlashed
    MainSpellings <- MCMainSpellings
    KeyOrder <- MCKeyOrder
    Contents <- MCContents
    Changes <- MCChanges
    LOG4Z_DEFAULT_LIMITSIZE = 1
    LOG4Z_DEFAULT_RESERVEDAYS = 1
    LOGGER_MAX = 2
    Width = 5
    MB = 2
    DaySeconds = 3
    LogSize = 2
    DaysPerMonth = 2
    OpenFails = TRUE
    LastDay = 2
    MaxCalls = 3
CHECK_DEADLOCK FALSE
INVARIANTS
    FollowsContent
    RollsAtLimit
PROPERTIES
    FiledByDay
    KeepsReserveDays
