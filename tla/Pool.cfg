\* A pool started as TCPServer does and stopped either way, under plain tasks
\* and tasks that stop the io_service; next_ overflows after 4 of them.  A pool
\* that is stopped, destroyed or terminated stops.
SPECIFICATION Spec
CONSTANTS
    thread_num_ = 3
    Width = 2
    StartWaits = {TRUE}
    StopWaits = {TRUE, FALSE}
    Tasks = {"plain", "stop"}
    MaxTasks = 2
CHECK_DEADLOCK FALSE
INVARIANTS
    OnOwnThread
    StatusIsTrue
    Balanced
