------------------------ MODULE EventLoopThreadPool -------------------------
(***************************************************************************)
(* EventLoopThreadPool, its EventLoopThreads and their EventLoops: the     *)
(* thread that owns the pool starts it, hands tasks to its loops, stops it *)
(* and destroys it, while each worker enters, runs and leaves its loop.    *)
(*                                                                         *)
(* Nothing in the library calls io_service::stop: StopInLoop only asks     *)
(* stopped().  An application task may call it through io_service(), and   *)
(* that is the only way a worker leaves its loop.                          *)
(***************************************************************************)
EXTENDS Integers, Sequences, FiniteSets

CONSTANTS thread_num_,
          Width,       \* bits of next_ (64)
          StartWaits,  \* the arguments wait_thread_started given to Start
          StopWaits,   \* the arguments wait_thread_exit given to Stop
          Tasks,       \* "plain", or "stop": the task calls io_service().stop()
          MaxTasks     \* bound: tasks dispatched

ASSUME PoolAssumption == thread_num_ \in Nat \ {0} /\ MaxTasks \in Nat
ASSUME WidthAssumption == Width \in Nat /\ 2 ^ Width \in Nat \ {0}
ASSUME ArgumentAssumption ==
    StartWaits \subseteq BOOLEAN /\ StopWaits \subseteq BOOLEAN /\ Tasks \subseteq {"plain", "stop"}

VARIABLES
    pc, i, wait,      \* the owner: where it is, at which thread, its argument
    size,             \* threads_.size()
    next_, started_,
    thr,              \* where each worker is
    status_, name_,   \* of each EventLoopThread
    tid_, running_, tasks,  \* of each EventLoop, tasks posted to it included
    waited, told,     \* Start waited for the threads; a task "stop" was given
    given,            \* tasks handed to each loop, 0 being the owner's own
    misplaced,        \* a task ran on a thread that is not its loop's
    failed            \* where an assertion failed

owner   == <<pc, i, wait, size, next_, started_>>
workers == <<thr, status_, name_>>
loops   == <<tid_, running_, tasks>>
ghosts  == <<waited, told, given, misplaced, failed>>
vars    == <<owner, workers, loops, ghosts>>

Threads == 1 .. thread_num_

\* Types; the index of the owner's loops stays within threads_.
TypeOK ==
    /\ pc \in {"constructed", "spawn", "poll", "name", "started", "stop", "exit",
               "stopped", "joining", "deleted", "terminated"}
    /\ i \in Threads /\ size \in 0 .. thread_num_
    /\ {wait, started_, waited, told, misplaced} \subseteq BOOLEAN
    /\ next_ \in 0 .. 2 ^ Width - 1
    /\ thr \in [Threads -> {"none", "spawned", "unnamed", "named", "entered", "owned",
                            "looping", "returning", "left", "reset", "done"}]
    /\ status_ \in [Threads -> {"kRunning", "kStopping", "kStopped"}]
    /\ name_ \in [Threads -> {"empty", "thread-id", "pool"}]
    /\ tid_ \in [Threads -> {"owner", "worker"}]
    /\ running_ \in [Threads -> BOOLEAN]
    /\ tasks \in [Threads -> Seq({"plain", "stop", "StopInLoop"})]
    /\ given \in [0 .. thread_num_ -> 0 .. MaxTasks]
    /\ failed \subseteq {"Stop", "~EventLoopThreadPool"}

Init ==
    /\ pc = "constructed" /\ i = 1 /\ wait = FALSE /\ size = 0
    /\ next_ = 0 /\ started_ = FALSE
    /\ thr = [t \in Threads |-> "none"]
    /\ status_ = [t \in Threads |-> "kStopped"]
    /\ name_ = [t \in Threads |-> "empty"]
    /\ tid_ = [t \in Threads |-> "owner"]
    /\ running_ = [t \in Threads |-> FALSE]
    /\ tasks = [t \in Threads |-> <<>>]
    /\ given = [t \in 0 .. thread_num_ |-> 0]
    /\ misplaced = FALSE /\ failed = {} /\ waited = FALSE /\ told = FALSE

\* ev_loop_ has been reset.
Gone(t) == thr[t] \in {"reset", "done"}

-----------------------------------------------------------------------------
(* The owner starts the pool.                                              *)

Start ==
    /\ pc = "constructed"
    /\ wait' \in StartWaits /\ waited' = wait'
    /\ pc' = "spawn"
    /\ UNCHANGED <<i, size, next_, started_, workers, loops, told, given, misplaced, failed>>

\* EventLoopThread::Start.
StartThread ==
    /\ pc = "spawn"
    /\ thr' = [thr EXCEPT ![i] = "spawned"]
    /\ pc' = IF wait THEN "poll" ELSE "name"
    /\ UNCHANGED <<i, wait, size, next_, started_, status_, name_, loops, ghosts>>

StartSeesRunning ==
    /\ pc = "poll" /\ running_[i]
    /\ pc' = "name"
    /\ UNCHANGED <<i, wait, size, next_, started_, workers, loops, ghosts>>

SetName ==
    /\ pc = "name"
    /\ name_' = [name_ EXCEPT ![i] = "pool"]
    /\ size' = i
    /\ IF i = thread_num_ THEN pc' = "started" /\ started_' = TRUE /\ i' = 1
       ELSE pc' = "spawn" /\ i' = i + 1 /\ UNCHANGED started_
    /\ UNCHANGED <<wait, next_, thr, status_, loops, ghosts>>

-----------------------------------------------------------------------------
(* The owner hands out tasks: GetNextLoop()->RunInLoop(task).              *)

\* Mutant of Index: the last thread is never chosen.
IndexShort == next_ % (IF size > 1 THEN size - 1 ELSE size)

\* int64_t modulo size_t: the value is converted to unsigned first.
Index == next_ % size

\* RunInLoop called by the owner: at once if tid_ says that it is in the loop.
RunInLoop(t, task) ==
    IF tid_[t] = "owner"
    THEN misplaced' = TRUE /\ UNCHANGED tasks
    ELSE tasks' = [tasks EXCEPT ![t] = Append(@, task)] /\ UNCHANGED misplaced

\* An empty pool answers with the owner's loop.
GetNextLoop(task) ==
    /\ pc \in {"constructed", "started"}
    /\ LET t == IF size = 0 THEN 0 ELSE Index + 1
       IN  /\ given[t] < MaxTasks
           /\ given' = [given EXCEPT ![t] = @ + 1] /\ told' = (told \/ task = "stop")
           /\ IF t = 0 THEN UNCHANGED <<pc, next_, tasks, misplaced>>
              ELSE /\ next_' = (next_ + 1) % 2 ^ Width
                   /\ IF Gone(t) THEN pc' = "terminated" /\ UNCHANGED <<tasks, misplaced>>
                      ELSE RunInLoop(t, task) /\ UNCHANGED pc
    /\ UNCHANGED <<i, wait, size, started_, workers, tid_, running_, waited, failed>>

-----------------------------------------------------------------------------
(* The owner stops and destroys the pool.                                  *)

Stop ==
    /\ pc = "started"
    /\ wait' \in StopWaits
    /\ pc' = "stop"
    /\ UNCHANGED <<i, size, next_, started_, workers, loops, ghosts>>

\* On to the next thread, or the end of EventLoopThreadPool::Stop, whose own
\* wait finds every thread stopped already.
StopNext ==
    IF i = thread_num_ THEN pc' = "stopped" /\ started_' = FALSE /\ i' = 1
    ELSE pc' = "stop" /\ i' = i + 1 /\ UNCHANGED started_

\* EventLoopThread::Stop up to its wait; the loop may be gone by now.
StopThread ==
    /\ pc = "stop"
    /\ failed' = IF status_[i] = "kRunning" /\ running_[i] THEN failed ELSE failed \cup {"Stop"}
    /\ \/ /\ Gone(i)
          /\ pc' = "terminated"
          /\ UNCHANGED <<i, started_, status_, tasks, misplaced>>
       \/ /\ ~Gone(i)
          /\ status_' = [status_ EXCEPT ![i] = "kStopping"]
          /\ RunInLoop(i, "StopInLoop")
          /\ IF wait THEN pc' = "exit" /\ UNCHANGED <<i, started_>> ELSE StopNext
    /\ UNCHANGED <<wait, size, next_, thr, name_, tid_, running_, waited, told, given>>

\* The wait of EventLoopThread::Stop and its join.
StopSeesStopped ==
    /\ pc = "exit" /\ status_[i] = "kStopped" /\ thr[i] = "done"
    /\ StopNext
    /\ UNCHANGED <<wait, size, next_, workers, loops, ghosts>>

\* ~EventLoopThreadPool, whose threads' destructors join.
Destroy ==
    /\ pc = "stopped"
    /\ failed' = IF \A t \in Threads : status_[t] = "kStopped" THEN failed
                 ELSE failed \cup {"~EventLoopThreadPool"}
    /\ pc' = "joining"
    /\ UNCHANGED <<i, wait, size, next_, started_, workers, loops, waited, told, given, misplaced>>

Joined ==
    /\ pc = "joining" /\ \A t \in Threads : thr[t] = "done"
    /\ pc' = "deleted"
    /\ UNCHANGED <<i, wait, size, next_, started_, workers, loops, ghosts>>

-----------------------------------------------------------------------------
(* A worker: EventLoopThread::Run around EventLoop::Run.                   *)

At(t, from, to) == thr[t] = from /\ thr' = [thr EXCEPT ![t] = to]

\* name_ is read here and written in the next step.
RunReadsName(t) ==
    /\ thr[t] = "spawned"
    /\ thr' = [thr EXCEPT ![t] = IF name_[t] = "empty" THEN "unnamed" ELSE "named"]
    /\ UNCHANGED <<owner, status_, name_, loops, ghosts>>

RunNames(t) ==
    /\ At(t, "unnamed", "named")
    /\ name_' = [name_ EXCEPT ![t] = "thread-id"]
    /\ UNCHANGED <<owner, status_, loops, ghosts>>

RunEnters(t) ==
    /\ At(t, "named", "entered")
    /\ status_' = [status_ EXCEPT ![t] = "kRunning"]
    /\ UNCHANGED <<owner, name_, loops, ghosts>>

\* Mutant of LoopOwned: EventLoop::Run sets running_ before tid_.
LoopOwnedLate(t) ==
    /\ At(t, "entered", "owned")
    /\ running_' = [running_ EXCEPT ![t] = TRUE]
    /\ UNCHANGED <<owner, status_, name_, tid_, tasks, ghosts>>

\* EventLoop::Run: tid_, then running_, then io_service_.run.
LoopOwned(t) ==
    /\ At(t, "entered", "owned")
    /\ tid_' = [tid_ EXCEPT ![t] = "worker"]
    /\ UNCHANGED <<owner, status_, name_, running_, tasks, ghosts>>

LoopRunning(t) ==
    /\ At(t, "owned", "looping")
    /\ running_' = [running_ EXCEPT ![t] = TRUE]
    /\ UNCHANGED <<owner, status_, name_, tid_, tasks, ghosts>>

\* io_service_.run takes the next handler; StopInLoop does nothing.
RunTask(t) ==
    /\ thr[t] = "looping" /\ tasks[t] # <<>>
    /\ tasks' = [tasks EXCEPT ![t] = Tail(@)]
    /\ thr' = [thr EXCEPT ![t] = IF Head(tasks[t]) = "stop" THEN "returning" ELSE @]
    /\ UNCHANGED <<owner, status_, name_, tid_, running_, ghosts>>

\* Mutant of LoopReturns: kStopped is set before the loop is destroyed.
LoopReturnsStopped(t) ==
    /\ At(t, "returning", "left")
    /\ running_' = [running_ EXCEPT ![t] = FALSE]
    /\ status_' = [status_ EXCEPT ![t] = "kStopped"]
    /\ UNCHANGED <<owner, name_, tid_, tasks, ghosts>>

LoopReturns(t) ==
    /\ At(t, "returning", "left")
    /\ running_' = [running_ EXCEPT ![t] = FALSE]
    /\ UNCHANGED <<owner, status_, name_, tid_, tasks, ghosts>>

RunResets(t) ==
    /\ At(t, "left", "reset")
    /\ tasks' = [tasks EXCEPT ![t] = <<>>]
    /\ UNCHANGED <<owner, status_, name_, tid_, running_, ghosts>>

RunEnds(t) ==
    /\ At(t, "reset", "done")
    /\ status_' = [status_ EXCEPT ![t] = "kStopped"]
    /\ UNCHANGED <<owner, name_, loops, ghosts>>

-----------------------------------------------------------------------------
Owner == \/ StartThread \/ StartSeesRunning \/ SetName
         \/ StopThread \/ StopSeesStopped \/ Joined

Worker(t) == \/ RunReadsName(t) \/ RunNames(t) \/ RunEnters(t)
             \/ LoopOwned(t) \/ LoopRunning(t) \/ RunTask(t)
             \/ LoopReturns(t) \/ RunResets(t) \/ RunEnds(t)

Application == Start \/ Stop \/ Destroy \/ \E task \in Tasks : GetNextLoop(task)

Next == Owner \/ Application \/ \E t \in Threads : Worker(t)

Spec == Init /\ [][Next]_vars

\* Every thread is scheduled, and a call once made is carried on.
Fairness == WF_vars(Owner) /\ \A t \in Threads : WF_vars(Worker(t))

FairSpec == Spec /\ Fairness
-----------------------------------------------------------------------------
(* A task given to a loop of a pool started with Start(true) runs on that  *)
(* loop's thread: tid_ is set before running_, which Start waits for, so   *)
(* RunInLoop never mistakes the owner for the worker.                      *)
OnOwnThread == waited => ~misplaced

(* Round robin: the numbers of tasks given to two threads differ by one at *)
(* most, and by one more for each time next_ has overflowed.               *)
Balanced ==
    LET total == Cardinality({p \in Threads \X (1 .. MaxTasks) : p[2] <= given[p[1]]})
    IN  \A t, u \in Threads : size > 0 => given[t] - given[u] <= 1 + total \div 2 ^ Width

(* Types, and what others learn of a worker is true: the assertion of      *)
(* EventLoopThread::Stop holds whenever Stop follows Start(true) and no    *)
(* loop was told to stop, for the polled running_ implies kRunning; and    *)
(* from the moment Run has set kRunning until the worker has destroyed its *)
(* loop nobody is told kStopped, so that IsStopped, which TCPServer and    *)
(* the pool rely on, is true of no worker that may use its loop.           *)
StatusIsTrue ==
    /\ TypeOK
    /\ waited /\ ~told => "Stop" \notin failed
    /\ \A t \in Threads :
           thr[t] \in {"entered", "owned", "looping", "returning", "left", "reset"}
               => status_[t] # "kStopped"

(* tcp_server.cc:56: "assert(tpool_->IsStopped())" follows Stop(true): the *)
(* call returns, with every thread stopped.                                *)
StopReturns == (pc = "stop" /\ wait) ~> (pc = "stopped")
=============================================================================
