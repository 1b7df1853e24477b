\* Stop(true) under fairness.
SPECIFICATION FairSpec
CONSTANTS
    thread_num_ = 1
    Width = 2
    StartWaits = {TRUE}
    StopWaits = {TRUE}
    Tasks = {"plain"}
    MaxTasks = 1
CHECK_DEADLOCK FALSE
PROPERTIES
    StopReturns
