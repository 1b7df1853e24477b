---------------------- MODULE EventLoopThreadPoolProofs ----------------------
(***************************************************************************)
(* Theorems about EventLoopThreadPool for every number of threads, width   *)
(* of next_, task and argument of Start and Stop.                          *)
(***************************************************************************)
EXTENDS EventLoopThreadPool, FiniteSetTheorems, TLAPS

-----------------------------------------------------------------------------
(* The inductive invariant: what each worker has done to its EventLoop, and *)
(* what the owner knows of the workers when it has come to a given place.   *)

Starting == {"constructed", "spawn", "poll", "name"}

\* tid_, running_ and status_ as functions of where the worker is.
WorkerTold(t) ==
    /\ tid_[t] = "worker" <=>
          thr[t] \in {"owned", "looping", "returning", "left", "reset", "done"}
    /\ running_[t] <=> thr[t] \in {"looping", "returning"}
    /\ thr[t] \in {"entered", "owned", "looping", "returning", "left", "reset"}
          => status_[t] # "kStopped"

\* Threads the owner has not come to start.
NotSpawned(t) == \/ pc = "constructed"
                 \/ pc = "spawn" /\ t >= i
                 \/ pc \in {"poll", "name"} /\ t > i

\* Threads Start(true) has seen running.
SeenRunning(t) == \/ pc \notin Starting
                  \/ pc \in {"spawn", "poll"} /\ t < i
                  \/ pc = "name" /\ t <= i

\* Threads that Stop may have reached.
MaybeAsked(t) == \/ pc \notin Starting \cup {"started", "stop", "exit"}
                 \/ pc = "stop" /\ t < i
                 \/ pc = "exit" /\ t <= i

WorkerInv(t) ==
    /\ WorkerTold(t)
    /\ NotSpawned(t) => thr[t] = "none"
    /\ waited /\ SeenRunning(t) => thr[t] \in {"looping", "returning", "left", "reset", "done"}
    /\ status_[t] = "kStopping" => MaybeAsked(t)
    /\ ~told => /\ thr[t] \notin {"returning", "left", "reset", "done"}
                /\ \A k \in DOMAIN tasks[t] : tasks[t][k] # "stop"

OwnerInv ==
    /\ pc \in Starting => ~misplaced /\ failed = {}
    /\ pc = "constructed" => ~waited /\ size = 0 /\ i = 1
    /\ pc \in {"spawn", "poll", "name"} => wait = waited
    /\ pc = "started" => size = thread_num_
    /\ waited => ~misplaced
    /\ waited /\ ~told => "Stop" \notin failed

IndInv ==
    /\ TypeOK
    /\ OwnerInv
    /\ \A t \in Threads : WorkerInv(t)

-----------------------------------------------------------------------------
\* The constructor establishes the invariant.
LEMMA InitInv == Init => IndInv
  <1> SUFFICES ASSUME Init PROVE IndInv
    OBVIOUS
  <1>1. TypeOK
    <2>1. i \in Threads /\ size \in 0 .. thread_num_ /\ next_ \in 0 .. 2 ^ Width - 1
      BY PoolAssumption, WidthAssumption DEF Init, Threads
    <2>2. given \in [0 .. thread_num_ -> 0 .. MaxTasks]
      BY PoolAssumption DEF Init
    <2>3. tasks \in [Threads -> Seq({"plain", "stop", "StopInLoop"})]
      BY DEF Init
    <2>4. QED  BY <2>1, <2>2, <2>3 DEF Init, TypeOK
  <1>2. OwnerInv
    BY DEF Init, OwnerInv, Starting
  <1>3. ASSUME NEW t \in Threads  PROVE WorkerInv(t)
    BY DEF Init, WorkerInv, WorkerTold, NotSpawned, SeenRunning, MaybeAsked, Starting
  <1>4. QED  BY <1>1, <1>2, <1>3 DEF IndInv

\* Start, StartThread, StartSeesRunning and SetName keep the invariant.
LEMMA StartingStep ==
    ASSUME IndInv, Start \/ StartThread \/ StartSeesRunning \/ SetName
    PROVE  IndInv'
  <1> USE PoolAssumption
  <1>1. CASE Start
    <2>1. TypeOK'
      BY <1>1, ArgumentAssumption DEF IndInv, TypeOK, Start, workers, loops
    <2>2. OwnerInv'
      BY <1>1 DEF IndInv, OwnerInv, Start, Starting, workers, loops
    <2>3. ASSUME NEW t \in Threads  PROVE WorkerInv(t)'
      BY <1>1 DEF IndInv, WorkerInv, WorkerTold, NotSpawned, SeenRunning, MaybeAsked, Starting,
                  OwnerInv, Threads, Start, workers, loops
    <2>4. QED  BY <2>1, <2>2, <2>3 DEF IndInv
  <1>2. CASE StartThread
    <2>1. TypeOK'
      BY <1>2 DEF IndInv, TypeOK, StartThread, loops, ghosts
    <2>2. OwnerInv'
      BY <1>2 DEF IndInv, OwnerInv, StartThread, Starting, loops, ghosts
    <2>3. ASSUME NEW t \in Threads  PROVE WorkerInv(t)'
      <3>1. thr'[t] = (IF t = i THEN "spawned" ELSE thr[t]) /\ t \in Nat /\ i \in Nat
        BY <1>2 DEF IndInv, TypeOK, Threads, StartThread
      <3>2. /\ pc = "spawn" /\ pc' = (IF waited THEN "poll" ELSE "name")
            /\ UNCHANGED <<i, status_, loops, ghosts>>
        BY <1>2 DEF IndInv, OwnerInv, StartThread
      <3>3. WorkerInv(t) /\ (t = i => thr[i] = "none")
        BY <3>1, <3>2 DEF IndInv, WorkerInv, NotSpawned
      <3>4. QED  BY <3>1, <3>2, <3>3 DEF WorkerInv, WorkerTold, NotSpawned, SeenRunning, MaybeAsked,
                                         Starting, loops, ghosts
    <2>4. QED  BY <2>1, <2>2, <2>3 DEF IndInv
  <1>3. CASE StartSeesRunning
    <2>1. TypeOK'
      BY <1>3 DEF IndInv, TypeOK, StartSeesRunning, workers, loops, ghosts
    <2>2. OwnerInv'
      BY <1>3 DEF IndInv, OwnerInv, StartSeesRunning, Starting, workers, loops, ghosts
    <2>3. ASSUME NEW t \in Threads  PROVE WorkerInv(t)'
      BY <1>3, SMTT(30) DEF IndInv, TypeOK, Threads, WorkerInv, WorkerTold, NotSpawned, SeenRunning, MaybeAsked,
                  Starting, StartSeesRunning, workers, loops, ghosts
    <2>4. QED  BY <2>1, <2>2, <2>3 DEF IndInv
  <1>4. CASE SetName
    <2>0. i' \in Threads /\ size' \in 0 .. thread_num_
      BY <1>4 DEF IndInv, TypeOK, Threads, SetName
    <2>1. TypeOK'
      BY <1>4, <2>0 DEF IndInv, TypeOK, SetName, loops, ghosts
    <2>2. OwnerInv'
      BY <1>4 DEF IndInv, OwnerInv, SetName, Starting, loops, ghosts
    <2>3. ASSUME NEW t \in Threads  PROVE WorkerInv(t)'
      <3>1. t \in 1 .. thread_num_ /\ i \in 1 .. thread_num_ /\ thread_num_ \in Nat
        BY DEF IndInv, TypeOK, Threads
      <3>2. /\ pc = "name" /\ UNCHANGED <<thr, status_, loops, ghosts>>
            /\ \/ i = thread_num_ /\ pc' = "started"
               \/ pc' = "spawn" /\ i' = i + 1
        BY <1>4 DEF SetName
      <3>3. WorkerInv(t)
        BY DEF IndInv
      <3>4. QED  BY <3>1, <3>2, <3>3 DEF WorkerInv, WorkerTold, NotSpawned, SeenRunning, MaybeAsked,
                                         Starting, loops, ghosts
    <2>4. QED  BY <2>1, <2>2, <2>3 DEF IndInv
  <1>5. QED  BY <1>1, <1>2, <1>3, <1>4

\* A step of a worker that leaves the owner alone keeps the invariant if it
\* keeps the worker's part.
LEMMA WorkerStep ==
    ASSUME IndInv, NEW t \in Threads, Worker(t)
    PROVE  IndInv'
  <1> USE PoolAssumption
  <1> DEFINE Same(u) == /\ thr'[u] = thr[u] /\ status_'[u] = status_[u] /\ tid_'[u] = tid_[u]
                        /\ running_'[u] = running_[u] /\ tasks'[u] = tasks[u]
  <1>1. /\ UNCHANGED <<owner, ghosts>>
        /\ \A u \in Threads \ {t} : Same(u)
    BY DEF IndInv, TypeOK, Worker, RunReadsName, RunNames, RunEnters, LoopOwned, LoopRunning, RunTask,
           LoopReturns, RunResets, RunEnds, At, loops
  <1>2. TypeOK'
    <2>1. tasks' \in [Threads -> Seq({"plain", "stop", "StopInLoop"})]
      <3>1. CASE RunTask(t)
        <4>1. tasks[t] \in Seq({"plain", "stop", "StopInLoop"}) /\ tasks[t] # <<>>
          BY <3>1 DEF RunTask, IndInv, TypeOK
        <4>2. Tail(tasks[t]) \in Seq({"plain", "stop", "StopInLoop"})
          BY <4>1
        <4>3. QED  BY <3>1, <4>2 DEF RunTask, IndInv, TypeOK
      <3>2. CASE RunResets(t)
        BY <3>2 DEF RunResets, IndInv, TypeOK
      <3>3. CASE ~RunTask(t) /\ ~RunResets(t)
        BY <3>3 DEF IndInv, TypeOK, Worker, RunReadsName, RunNames, RunEnters, LoopOwned,
                    LoopRunning, LoopReturns, RunEnds, loops
      <3>4. QED  BY <3>1, <3>2, <3>3
    <2>2. /\ thr' \in [Threads -> {"none", "spawned", "unnamed", "named", "entered", "owned",
                                   "looping", "returning", "left", "reset", "done"}]
          /\ status_' \in [Threads -> {"kRunning", "kStopping", "kStopped"}]
          /\ name_' \in [Threads -> {"empty", "thread-id", "pool"}]
      BY ZenonT(40) DEF IndInv, TypeOK, Worker, RunReadsName, RunNames, RunEnters, LoopOwned, LoopRunning,
             RunTask, LoopReturns, RunResets, RunEnds, At
    <2>3. tid_' \in [Threads -> {"owner", "worker"}] /\ running_' \in [Threads -> BOOLEAN]
      BY DEF IndInv, TypeOK, Worker, RunReadsName, RunNames, RunEnters, LoopOwned, LoopRunning,
             RunTask, LoopReturns, RunResets, RunEnds, loops
    <2>4. QED  BY <1>1, <2>1, <2>2, <2>3 DEF IndInv, TypeOK, owner, ghosts
  <1>3. OwnerInv'
    BY <1>1 DEF IndInv, OwnerInv, owner, ghosts
  <1>4. ASSUME NEW u \in Threads \ {t}  PROVE WorkerInv(u)'
    BY <1>1 DEF IndInv, WorkerInv, WorkerTold, NotSpawned, SeenRunning, MaybeAsked, owner, ghosts
  <1>5. WorkerInv(t)'
    <2>1. ~RunTask(t) => WorkerInv(t)'
      BY <1>1 DEF IndInv, TypeOK, WorkerInv, WorkerTold, NotSpawned, SeenRunning, MaybeAsked, owner, ghosts,
                Worker, RunReadsName, RunNames, RunEnters, LoopOwned, LoopRunning,
                LoopReturns, RunResets, RunEnds, At, loops
    <2>2. RunTask(t) => WorkerInv(t)'
      BY <1>1, SMTT(30) DEF IndInv, TypeOK, WorkerInv, WorkerTold, NotSpawned, SeenRunning, MaybeAsked, owner, ghosts,
                RunTask
    <2>3. QED BY <2>1, <2>2
  <1>6. QED  BY <1>2, <1>3, <1>4, <1>5 DEF IndInv

\* What RunInLoop called by the owner does, if the loop has its worker.
LEMMA RunInLoopStep ==
    ASSUME IndInv, NEW t \in Threads, NEW task \in {"plain", "stop", "StopInLoop"},
           RunInLoop(t, task)
    PROVE  /\ tasks' \in [Threads -> Seq({"plain", "stop", "StopInLoop"})]
           /\ \A u \in Threads : \A k \in DOMAIN tasks'[u] :
                 (\A j \in DOMAIN tasks[u] : tasks[u][j] # "stop") /\ task # "stop"
                    => tasks'[u][k] # "stop"
           /\ misplaced' \in BOOLEAN
           /\ tid_[t] = "worker" => misplaced' = misplaced
  <1>1. tasks \in [Threads -> Seq({"plain", "stop", "StopInLoop"})] /\ misplaced \in BOOLEAN
    BY DEF IndInv, TypeOK
  <1>2. CASE tid_[t] = "owner"
    BY <1>1, <1>2 DEF RunInLoop
  <1>3. CASE tid_[t] # "owner"
    <2> DEFINE q == tasks[t]
    <2>1. tasks' = [tasks EXCEPT ![t] = Append(q, task)] /\ misplaced' = misplaced
      BY <1>3 DEF RunInLoop
    <2>2. q \in Seq({"plain", "stop", "StopInLoop"})
      BY <1>1
    <2> HIDE DEF q
    <2>3. /\ Append(q, task) \in Seq({"plain", "stop", "StopInLoop"})
          /\ \A k \in DOMAIN Append(q, task) :
                (\A j \in DOMAIN q : q[j] # "stop") /\ task # "stop" => Append(q, task)[k] # "stop"
      BY <2>2
    <2>4. QED  BY <1>1, <2>1, <2>3 DEF q
  <1>4. QED  BY <1>2, <1>3

\* The remainder of a division.
LEMMA ModType ==
    ASSUME NEW a \in Nat, NEW b \in Nat \ {0}
    PROVE  a % b \in 0 .. b - 1
  OBVIOUS

\* Handing a task to the next loop keeps the invariant.
LEMMA GetNextLoopStep ==
    ASSUME IndInv, NEW task \in Tasks, GetNextLoop(task)
    PROVE  IndInv'
  <1> USE PoolAssumption
  <1>0. task \in {"plain", "stop"}
    BY ArgumentAssumption
  <1> DEFINE t == IF size = 0 THEN 0 ELSE Index + 1
  <1>1. /\ pc \in {"constructed", "started"}
        /\ given[t] < MaxTasks
        /\ given' = [given EXCEPT ![t] = @ + 1] /\ told' = (told \/ task = "stop")
        /\ UNCHANGED <<i, wait, size, started_, workers, tid_, running_, waited, failed>>
    BY DEF GetNextLoop
  <1>2. /\ t \in 0 .. thread_num_ /\ (t # 0 => t \in Threads /\ pc = "started")
        /\ pc = "constructed" => t = 0
    <2>1. /\ next_ \in Nat /\ size \in Nat
          /\ pc = "constructed" => size = 0
          /\ size # 0 => pc = "started" /\ size = thread_num_
      BY <1>1, WidthAssumption DEF IndInv, TypeOK, OwnerInv
    <2>2. size # 0 => Index \in 0 .. thread_num_ - 1
      BY <2>1, ModType DEF Index
    <2>3. QED  BY <2>1, <2>2 DEF Threads
  <1>3. given' \in [0 .. thread_num_ -> 0 .. MaxTasks]
    <2> HIDE DEF t
    <2>1. given \in [0 .. thread_num_ -> 0 .. MaxTasks]
      BY DEF IndInv, TypeOK
    <2>2. given[t] + 1 \in 0 .. MaxTasks
      BY <1>1, <1>2, <2>1
    <2>3. QED  BY <1>1, <1>2, <2>1, <2>2
  <1>4. CASE t = 0
    <2>1. UNCHANGED <<pc, next_, tasks, misplaced>>
      BY <1>4 DEF GetNextLoop
    <2> HIDE DEF t
    <2>2. TypeOK'
      BY <1>0, <1>1, <1>3, <2>1 DEF IndInv, TypeOK, workers
    <2>3. OwnerInv'
      BY <1>1, <2>1 DEF IndInv, OwnerInv, workers
    <2>4. ASSUME NEW u \in Threads  PROVE WorkerInv(u)'
      BY <1>1, <2>1 DEF IndInv, WorkerInv, WorkerTold, NotSpawned, SeenRunning, MaybeAsked, workers
    <2>5. QED  BY <2>2, <2>3, <2>4 DEF IndInv
  <1>5. CASE t # 0
    <2>1. next_' \in 0 .. 2 ^ Width - 1
      BY <1>5, WidthAssumption DEF GetNextLoop, IndInv, TypeOK
    <2>2. \/ pc' = "terminated" /\ UNCHANGED <<tasks, misplaced>>
          \/ RunInLoop(t, task) /\ pc' = pc
      BY <1>5 DEF GetNextLoop
    <2> HIDE DEF t
    <2>3. /\ tasks' \in [Threads -> Seq({"plain", "stop", "StopInLoop"})]
          /\ \A u \in Threads : \A k \in DOMAIN tasks'[u] :
                (\A j \in DOMAIN tasks[u] : tasks[u][j] # "stop") /\ task # "stop"
                   => tasks'[u][k] # "stop"
          /\ misplaced' \in BOOLEAN
          /\ tid_[t] = "worker" => misplaced' = misplaced
      <3>1. CASE RunInLoop(t, task)
        BY <1>0, <1>2, <1>5, <3>1, RunInLoopStep
      <3>2. CASE UNCHANGED <<tasks, misplaced>>
        BY <3>2 DEF IndInv, TypeOK
      <3>3. QED  BY <2>2, <3>1, <3>2
    <2>4. pc = "started" /\ pc' \in {"started", "terminated"}
      BY <1>2, <1>5, <2>2
    <2>5. TypeOK'
      BY <1>0, <1>1, <1>3, <2>1, <2>3, <2>4 DEF IndInv, TypeOK, workers
    <2>6. waited => tid_[t] = "worker"
      BY <1>2, <1>5, <2>4 DEF IndInv, WorkerInv, WorkerTold, SeenRunning, Starting
    <2>7. OwnerInv'
      BY <1>1, <2>3, <2>4, <2>6 DEF IndInv, OwnerInv, Starting, workers
    <2>8. ASSUME NEW u \in Threads  PROVE WorkerInv(u)'
      BY <1>1, <2>3, <2>4 DEF IndInv, WorkerInv, WorkerTold, NotSpawned, SeenRunning, MaybeAsked, Starting, workers
    <2>9. QED  BY <2>5, <2>7, <2>8 DEF IndInv
  <1>6. QED  BY <1>4, <1>5

\* Stop goes on to the next thread, or returns.
LEMMA StopNextStep ==
    ASSUME i \in Threads, started_ \in BOOLEAN, StopNext
    PROVE  /\ \/ pc' = "stop" /\ i' = i + 1
              \/ pc' = "stopped"
           /\ i' \in Threads /\ i \in Nat /\ started_' \in BOOLEAN
  <1>1. i \in 1 .. thread_num_ /\ thread_num_ \in Nat \ {0}
    BY PoolAssumption DEF Threads
  <1>2. CASE i = thread_num_
    <2>1. 1 \in 1 .. thread_num_ /\ i \in Nat
      BY <1>1
    <2>2. pc' = "stopped" /\ i' = 1 /\ started_' = FALSE
      BY <1>2 DEF StopNext
    <2>3. QED  BY <2>1, <2>2 DEF Threads
  <1>3. CASE i # thread_num_
    <2>1. i + 1 \in 1 .. thread_num_ /\ i \in Nat
      BY <1>1, <1>3
    <2>2. QED  BY <1>3, <2>1 DEF StopNext, Threads
  <1>4. QED  BY <1>2, <1>3

\* The owner stops and destroys the pool.
LEMMA StoppingStep ==
    ASSUME IndInv, Stop \/ StopThread \/ StopSeesStopped \/ Destroy \/ Joined
    PROVE  IndInv'
  <1> USE PoolAssumption
  <1>1. CASE Stop
    <2>1. TypeOK'
      BY <1>1, ArgumentAssumption DEF IndInv, TypeOK, Stop, workers, loops, ghosts
    <2>2. OwnerInv'
      BY <1>1 DEF IndInv, OwnerInv, Stop, Starting, workers, loops, ghosts
    <2>3. ASSUME NEW t \in Threads  PROVE WorkerInv(t)'
      BY <1>1 DEF IndInv, WorkerInv, WorkerTold, NotSpawned, SeenRunning, MaybeAsked, Starting,
                  Stop, workers, loops, ghosts
    <2>4. QED  BY <2>1, <2>2, <2>3 DEF IndInv
  <1>2. CASE StopThread
    <2>1. /\ pc = "stop"
          /\ failed' = IF status_[i] = "kRunning" /\ running_[i] THEN failed ELSE failed \cup {"Stop"}
          /\ UNCHANGED <<wait, size, next_, thr, name_, tid_, running_, waited, told, given>>
      BY <1>2 DEF StopThread
    <2>2. i \in Threads /\ WorkerInv(i) /\ TypeOK /\ OwnerInv
      BY DEF IndInv, TypeOK
    <2>3. waited => tid_[i] = "worker"
      BY <2>1, <2>2 DEF WorkerInv, WorkerTold, SeenRunning, Starting
    <2>4. waited /\ ~told => failed' = failed
      <3>1. ASSUME waited, ~told PROVE status_[i] = "kRunning" /\ running_[i]
        <4>1. thr[i] = "looping"
          BY <2>1, <2>2, <3>1 DEF WorkerInv, SeenRunning, Starting
        <4>2. status_[i] # "kStopping"
          BY <2>1, <2>2 DEF WorkerInv, MaybeAsked, Starting, TypeOK, Threads
        <4>3. QED  BY <2>2, <4>1, <4>2 DEF WorkerInv, WorkerTold, TypeOK
      <3>2. QED  BY <2>1, <3>1
    <2>5. CASE Gone(i)
      <3>1. pc' = "terminated" /\ UNCHANGED <<i, started_, status_, tasks, misplaced>>
        BY <1>2, <2>5 DEF StopThread
      <3>2. TypeOK'
        BY <2>1, <2>2, <3>1 DEF TypeOK
      <3>3. OwnerInv'
        BY <2>1, <2>2, <2>4, <3>1 DEF OwnerInv, Starting
      <3>4. ASSUME NEW t \in Threads  PROVE WorkerInv(t)'
        BY <2>1, <3>1 DEF IndInv, WorkerInv, WorkerTold, NotSpawned, SeenRunning, MaybeAsked, Starting
      <3>5. QED  BY <3>2, <3>3, <3>4 DEF IndInv
    <2>6. CASE ~Gone(i)
      <3>1. /\ status_' = [status_ EXCEPT ![i] = "kStopping"] /\ RunInLoop(i, "StopInLoop")
            /\ IF wait THEN pc' = "exit" /\ UNCHANGED <<i, started_>> ELSE StopNext
        BY <1>2, <2>6 DEF StopThread
      <3>2. /\ tasks' \in [Threads -> Seq({"plain", "stop", "StopInLoop"})]
            /\ \A u \in Threads : \A k \in DOMAIN tasks'[u] :
                  (\A j \in DOMAIN tasks[u] : tasks[u][j] # "stop") => tasks'[u][k] # "stop"
            /\ misplaced' \in BOOLEAN
            /\ tid_[i] = "worker" => misplaced' = misplaced
        BY <2>2, <3>1, RunInLoopStep
      <3>3. /\ \/ pc' = "exit" /\ i' = i
               \/ pc' = "stop" /\ i' = i + 1
               \/ pc' = "stopped"
            /\ i' \in Threads /\ i \in Nat /\ started_' \in BOOLEAN
        <4>1. i \in Threads /\ i \in Nat /\ started_ \in BOOLEAN
          BY <2>2 DEF TypeOK, Threads
        <4>2. QED  BY <3>1, <4>1, StopNextStep
      <3>4. TypeOK'
        BY <2>1, <2>2, <3>1, <3>2, <3>3 DEF TypeOK
      <3>5. OwnerInv'
        <4>1. pc' \notin Starting \cup {"started"} /\ waited' = waited /\ told' = told
          BY <2>1, <3>3 DEF Starting
        <4>2. waited => misplaced' = misplaced
          BY <2>3, <3>2
        <4>3. QED  BY <2>2, <2>4, <4>1, <4>2 DEF OwnerInv, Starting
      <3>6. ASSUME NEW t \in Threads  PROVE WorkerInv(t)'
        <4>1. t \in Nat /\ status_'[t] = (IF t = i THEN "kStopping" ELSE status_[t]) /\ WorkerInv(t)
          BY <2>2, <3>1 DEF TypeOK, Threads, IndInv
        <4>2. QED  BY <2>1, <3>2, <3>3, <4>1 DEF WorkerInv, WorkerTold, NotSpawned, SeenRunning,
                                                 MaybeAsked, Starting
      <3>7. QED  BY <3>4, <3>5, <3>6 DEF IndInv
    <2>7. QED  BY <2>5, <2>6
  <1>3. CASE StopSeesStopped
    <2>1. /\ pc = "exit"
          /\ \/ pc' = "stop" /\ i' = i + 1
             \/ pc' = "stopped"
          /\ i' \in Threads /\ i \in Nat /\ started_' \in BOOLEAN
          /\ UNCHANGED <<wait, size, next_, workers, loops, ghosts>>
      <3>1. i \in Threads /\ started_ \in BOOLEAN
        BY DEF IndInv, TypeOK
      <3>2. QED  BY <1>3, <3>1, StopNextStep DEF StopSeesStopped
    <2>2. TypeOK'
      BY <2>1 DEF IndInv, TypeOK, workers, loops, ghosts
    <2>3. OwnerInv'
      <3>1. pc' \notin Starting \cup {"started"} /\ UNCHANGED <<waited, told, misplaced, failed>>
        BY <2>1 DEF Starting, ghosts
      <3>2. QED  BY <3>1 DEF IndInv, OwnerInv, Starting
    <2>4. ASSUME NEW t \in Threads  PROVE WorkerInv(t)'
      <3>1. t \in Nat /\ WorkerInv(t)
        BY DEF IndInv, Threads
      <3>2. QED  BY <2>1, <3>1 DEF WorkerInv, WorkerTold, NotSpawned, SeenRunning, MaybeAsked,
                                   Starting, workers, loops, ghosts
    <2>5. QED  BY <2>2, <2>3, <2>4 DEF IndInv
  <1>4. CASE Destroy \/ Joined
    <2>1. /\ pc \in {"stopped", "joining"} /\ pc' \in {"joining", "deleted"}
          /\ UNCHANGED <<i, wait, size, next_, started_, workers, loops, waited, told, given, misplaced>>
          /\ failed' \subseteq failed \cup {"~EventLoopThreadPool"}
      BY <1>4 DEF Destroy, Joined, ghosts
    <2>2. TypeOK'
      BY <2>1 DEF IndInv, TypeOK, workers, loops
    <2>3. OwnerInv'
      BY <2>1 DEF IndInv, OwnerInv, Starting, workers, loops
    <2>4. ASSUME NEW t \in Threads  PROVE WorkerInv(t)'
      BY <2>1 DEF IndInv, WorkerInv, WorkerTold, NotSpawned, SeenRunning, MaybeAsked, Starting,
                  workers, loops
    <2>5. QED  BY <2>2, <2>3, <2>4 DEF IndInv
  <1>5. QED  BY <1>1, <1>2, <1>3, <1>4

\* The invariant is inductive.
LEMMA StepInv == IndInv /\ [Next]_vars => IndInv'
  <1>1. ASSUME IndInv, UNCHANGED vars PROVE IndInv'
    BY <1>1 DEF vars, owner, workers, loops, ghosts, IndInv, TypeOK, OwnerInv, WorkerInv, WorkerTold,
                NotSpawned, SeenRunning, MaybeAsked
  <1>2. QED  BY <1>1, StartingStep, WorkerStep, GetNextLoopStep, StoppingStep
             DEF Next, Owner, Application

\* The invariant holds in every reachable state.
LEMMA Invariance == Spec => []IndInv
  BY InitInv, StepInv, PTL DEF Spec

(* A task given to a loop of a pool started with Start(true) runs on that  *)
(* loop's thread, for every number of threads and every interleaving of    *)
(* the workers with the owner: EventLoop::Run sets tid_ before running_.   *)
THEOREM OwnThreadTheorem == Spec => []OnOwnThread
  <1>1. IndInv => OnOwnThread  BY DEF IndInv, OwnerInv, OnOwnThread
  <1>2. QED  BY <1>1, Invariance, PTL

(* status_ never says kStopped of a worker that may still use its loop,    *)
(* and the assertion of EventLoopThread::Stop holds after Start(true) as   *)
(* long as no task stops an io_service.                                    *)
THEOREM StatusTheorem == Spec => []StatusIsTrue
  <1>1. IndInv => StatusIsTrue
    BY DEF IndInv, OwnerInv, WorkerInv, WorkerTold, StatusIsTrue
  <1>2. QED  BY <1>1, Invariance, PTL

-----------------------------------------------------------------------------
(* Round robin.  Of m tasks given in turn from thread 1 on, thread t has    *)
(* been given Share(m, t); every overflow of next_ begins at thread 1.      *)

Share(m, t) == (m + thread_num_ - t) \div thread_num_

\* A division is determined by its quotient and its remainder.
LEMMA DivUnique ==
    ASSUME NEW a \in Nat, NEW b \in Nat \ {0}, NEW q \in Nat, NEW r \in 0 .. b - 1,
           a = b * q + r
    PROVE  a \div b = q /\ a % b = r
  OBVIOUS

\* A number is its quotient times the divisor and a remainder.
LEMMA DivMod ==
    ASSUME NEW a \in Nat, NEW b \in Nat \ {0}
    PROVE  a \div b \in Nat /\ a % b \in 0 .. b - 1 /\ a = (b * (a \div b)) + (a % b)
  OBVIOUS

\* The share of thread t in terms of the rounds completed and the threads
\* served since.
LEMMA ShareOf ==
    ASSUME NEW m \in Nat, NEW t \in Threads
    PROVE  Share(m, t) = (m \div thread_num_) + (IF t <= m % thread_num_ THEN 1 ELSE 0)
  <1> DEFINE q == m \div thread_num_
             r == m % thread_num_
  <1>1. thread_num_ \in Nat \ {0} /\ t \in Nat /\ 1 <= t /\ t <= thread_num_
    BY PoolAssumption DEF Threads
  <1>2. q \in Nat /\ r \in 0 .. thread_num_ - 1 /\ m = (thread_num_ * q) + r
    BY <1>1, DivMod
  <1> HIDE DEF q, r
  <1>3. CASE t <= r
    <2>1. /\ m + thread_num_ - t = thread_num_ * (q + 1) + (r - t)
          /\ r - t \in 0 .. thread_num_ - 1 /\ q + 1 \in Nat /\ m + thread_num_ - t \in Nat
      BY <1>1, <1>2, <1>3
    <2>2. Share(m, t) = q + 1
      BY <1>1, <2>1, DivUnique DEF Share
    <2>3. QED  BY <1>3, <2>2 DEF q, r
  <1>4. CASE ~(t <= r)
    <2>1. /\ m + thread_num_ - t = thread_num_ * q + (r + thread_num_ - t)
          /\ r + thread_num_ - t \in 0 .. thread_num_ - 1 /\ m + thread_num_ - t \in Nat
      BY <1>1, <1>2, <1>4
    <2>2. Share(m, t) = q
      BY <1>1, <1>2, <2>1, DivUnique DEF Share
    <2>3. QED  BY <1>2, <1>4, <2>2 DEF q, r
  <1>5. QED  BY <1>3, <1>4

\* The next task goes to thread m % thread_num_ + 1 and to no other.
LEMMA ShareNext ==
    ASSUME NEW m \in Nat, NEW t \in Threads
    PROVE  /\ Share(m, t) \in Nat
           /\ Share(m + 1, t) = Share(m, t) + (IF t = (m % thread_num_) + 1 THEN 1 ELSE 0)
  <1> DEFINE q == m \div thread_num_
             r == m % thread_num_
  <1>1. thread_num_ \in Nat \ {0} /\ t \in Nat /\ 1 <= t /\ t <= thread_num_
    BY PoolAssumption DEF Threads
  <1>2. q \in Nat /\ r \in 0 .. thread_num_ - 1 /\ m = (thread_num_ * q) + r
    BY <1>1, DivMod
  <1>3. Share(m, t) = q + (IF t <= r THEN 1 ELSE 0)
    BY ShareOf
  <1> HIDE DEF q, r
  <1>4. CASE r + 1 < thread_num_
    <2>1. m + 1 = thread_num_ * q + (r + 1) /\ r + 1 \in 0 .. thread_num_ - 1 /\ m + 1 \in Nat
      BY <1>1, <1>2, <1>4
    <2>2. (m + 1) \div thread_num_ = q /\ (m + 1) % thread_num_ = r + 1
      BY <1>1, <1>2, <2>1, DivUnique
    <2>3. Share(m + 1, t) = q + (IF t <= r + 1 THEN 1 ELSE 0)
      BY <2>1, <2>2, ShareOf
    <2>4. QED  BY <1>1, <1>2, <1>3, <2>3 DEF r
  <1>5. CASE r + 1 = thread_num_
    <2>1. m + 1 = thread_num_ * (q + 1) + 0 /\ 0 \in 0 .. thread_num_ - 1 /\ m + 1 \in Nat /\ q + 1 \in Nat
      BY <1>1, <1>2, <1>5
    <2>2. (m + 1) \div thread_num_ = q + 1 /\ (m + 1) % thread_num_ = 0
      BY <1>1, <2>1, DivUnique
    <2>3. Share(m + 1, t) = (q + 1) + (IF t <= 0 THEN 1 ELSE 0)
      BY <2>1, <2>2, ShareOf
    <2>4. QED  BY <1>1, <1>2, <1>3, <1>5, <2>3 DEF r
  <1>6. QED  BY <1>1, <1>2, <1>4, <1>5

\* Nobody has a share of no tasks.
LEMMA ShareZero == ASSUME NEW t \in Threads PROVE Share(0, t) = 0
  <1>1. /\ 0 + thread_num_ - t \in 0 .. thread_num_ - 1 /\ thread_num_ \in Nat \ {0}
        /\ 0 + thread_num_ - t = thread_num_ * 0 + (0 + thread_num_ - t)
    BY PoolAssumption DEF Threads
  <1>2. QED  BY <1>1, DivUnique DEF Share

\* No thread is given more than one task more than another.
LEMMA SharesAreEven ==
    ASSUME NEW m \in Nat, NEW t \in Threads, NEW u \in Threads
    PROVE  Share(m, t) - Share(m, u) <= 1
  <1>1. thread_num_ \in Nat \ {0}
    BY PoolAssumption
  <1>2. m \div thread_num_ \in Nat
    BY <1>1, DivMod
  <1>3. QED  BY <1>2, ShareOf

\* The tasks handed to the pool's threads.
Handed == {p \in Threads \X (1 .. MaxTasks) : p[2] <= given[p[1]]}
Total  == Cardinality(Handed)

\* next_ counts them modulo its width, and each thread has its shares.
RoundRobin ==
    /\ next_ = Total % 2 ^ Width
    /\ \A t \in Threads : given[t] = ((Total \div 2 ^ Width) * Share(2 ^ Width, t)) + Share(next_, t)

\* The tasks handed out are finitely many.
LEMMA HandedFinite == IsFiniteSet(Handed) /\ Total \in Nat
  <1>1. IsFiniteSet(Threads) /\ IsFiniteSet(1 .. MaxTasks)
    BY PoolAssumption, FS_Interval DEF Threads
  <1>2. IsFiniteSet(Threads \X (1 .. MaxTasks))
    BY <1>1, FS_Product
  <1>3. Handed \in SUBSET (Threads \X (1 .. MaxTasks))
    BY DEF Handed
  <1>4. IsFiniteSet(Handed)
    BY <1>2, <1>3, FS_Subset
  <1>5. QED  BY <1>4, FS_CardinalityType DEF Total

\* A pool that has handed out no task.
LEMMA InitRoundRobin == Init => RoundRobin
  <1> SUFFICES ASSUME Init PROVE RoundRobin
    OBVIOUS
  <1>1. \A t \in Threads : given[t] = 0
    BY PoolAssumption DEF Init, Threads
  <1>2. Handed = {}
    BY <1>1, PoolAssumption DEF Handed
  <1>3. Total = 0
    BY <1>2, FS_EmptySet DEF Total
  <1>4. 2 ^ Width \in Nat \ {0}
    BY WidthAssumption
  <1>5. 0 % 2 ^ Width = 0 /\ 0 \div 2 ^ Width = 0
    BY <1>4, DivUnique
  <1>6. ASSUME NEW t \in Threads
        PROVE  Share(0, t) = 0 /\ Share(2 ^ Width, t) \in Nat
    BY <1>4, <1>6, ShareZero, ShareNext
  <1>7. next_ = 0
    BY DEF Init
  <1>8. QED  BY <1>1, <1>3, <1>5, <1>6, <1>7 DEF RoundRobin

\* One more task for thread t.
LEMMA HandOne ==
    ASSUME given \in [0 .. thread_num_ -> 0 .. MaxTasks], NEW t \in Threads, given[t] < MaxTasks,
           given' = [given EXCEPT ![t] = @ + 1]
    PROVE  /\ Total' = Total + 1
           /\ \A u \in Threads : given'[u] = given[u] + (IF u = t THEN 1 ELSE 0)
  <1> DEFINE e == <<t, given[t] + 1>>
  <1>1. /\ t \in 0 .. thread_num_ /\ given[t] \in Nat /\ given[t] + 1 \in 1 .. MaxTasks
        /\ \A u \in Threads : u \in 0 .. thread_num_ /\ given[u] \in Nat
    BY PoolAssumption DEF Threads
  <1>2. \A u \in Threads : given'[u] = given[u] + (IF u = t THEN 1 ELSE 0)
    BY <1>1
  <1>3. e \notin Handed
    BY <1>1 DEF Handed
  <1>4. Handed' = Handed \cup {e}
    <2>1. ASSUME NEW p \in Threads \X (1 .. MaxTasks)
          PROVE  p[2] <= given'[p[1]] <=> p[2] <= given[p[1]] \/ p = e
      <3>1. p[1] \in Threads /\ p[2] \in Nat /\ p = <<p[1], p[2]>>
        OBVIOUS
      <3>2. given[p[1]] \in Nat /\ given'[p[1]] = given[p[1]] + (IF p[1] = t THEN 1 ELSE 0)
        BY <1>1, <1>2, <3>1
      <3>3. CASE p[1] # t
        BY <3>1, <3>2, <3>3
      <3>4. CASE p[1] = t
        <4>1. p[2] <= given'[p[1]] <=> p[2] <= given[t] \/ p[2] = given[t] + 1
          BY <1>1, <3>1, <3>2, <3>4
        <4>2. p = e <=> p[2] = given[t] + 1
          BY <3>1, <3>4
        <4>3. QED  BY <3>4, <4>1, <4>2
      <3>5. QED  BY <3>3, <3>4
    <2>2. e \in Threads \X (1 .. MaxTasks)
      BY <1>1
    <2> HIDE DEF e
    <2>3. QED  BY <2>1, <2>2 DEF Handed
  <1> HIDE DEF e
  <1>5. Cardinality(Handed \cup {e}) = Cardinality(Handed) + 1
    BY <1>3, HandedFinite, FS_AddElement
  <1>6. QED  BY <1>2, <1>4, <1>5 DEF Total

\* GetNextLoop gives thread next_ % size + 1 its next share.
LEMMA GetNextLoopRoundRobin ==
    ASSUME IndInv, RoundRobin, NEW task \in Tasks, GetNextLoop(task)
    PROVE  RoundRobin'
  <1> DEFINE M == 2 ^ Width
             w == Total \div M
             t == IF size = 0 THEN 0 ELSE Index + 1
  <1>1. M \in Nat \ {0} /\ thread_num_ \in Nat \ {0} /\ Total \in Nat
    BY WidthAssumption, PoolAssumption, HandedFinite
  <1>2. /\ given \in [0 .. thread_num_ -> 0 .. MaxTasks] /\ next_ \in Nat
        /\ given[t] < MaxTasks /\ given' = [given EXCEPT ![t] = @ + 1]
        /\ size = 0 \/ size = thread_num_
    BY <1>1 DEF GetNextLoop, IndInv, TypeOK, OwnerInv
  <1>3. CASE size = 0
    <2>1. t = 0 /\ next_' = next_ /\ 0 \in 0 .. thread_num_
      BY <1>1, <1>3 DEF GetNextLoop
    <2>2. \A u \in Threads : given'[u] = given[u]
      BY <1>1, <1>2, <2>1 DEF Threads
    <2>3. Handed' = Handed
      BY <2>2 DEF Handed
    <2>4. QED  BY <2>1, <2>2, <2>3 DEF RoundRobin, Total
  <1>4. CASE size # 0
    <2>1. t = (next_ % thread_num_) + 1 /\ next_' = (next_ + 1) % M
      <3>1. t = (next_ % thread_num_) + 1
        BY <1>2, <1>4 DEF Index
      <3>2. next_ % thread_num_ \in 0 .. thread_num_ - 1
        BY <1>1, <1>2, ModType
      <3>3. t # 0
        BY <3>1, <3>2
      <3>4. QED  BY <3>1, <3>3 DEF GetNextLoop
    <2>2. t \in Threads
      <3>1. next_ % thread_num_ \in 0 .. thread_num_ - 1
        BY <1>1, <1>2, ModType
      <3>2. QED  BY <1>1, <2>1, <3>1 DEF Threads
    <2> HIDE DEF t
    <2>3. /\ Total' = Total + 1
          /\ \A u \in Threads : given'[u] = given[u] + (IF u = t THEN 1 ELSE 0)
      BY <1>2, <2>2, HandOne
    <2>4. w \in Nat /\ next_ \in 0 .. M - 1 /\ Total = (M * w) + next_
      BY <1>1, DivMod DEF RoundRobin
    <2>5. \A u \in Threads :
             /\ given[u] = (w * Share(M, u)) + Share(next_, u)
             /\ Share(M, u) \in Nat /\ Share(next_, u) \in Nat
             /\ Share(next_ + 1, u) = Share(next_, u) + (IF u = t THEN 1 ELSE 0)
      BY <1>1, <1>2, <2>1, ShareNext DEF RoundRobin
    <2> HIDE DEF w, M
    <2>6. CASE next_ + 1 < M
      <3>1. Total + 1 = M * w + (next_ + 1) /\ next_ + 1 \in 0 .. M - 1 /\ Total + 1 \in Nat /\ next_ + 1 \in Nat
        BY <1>1, <2>4, <2>6
      <3>2. (Total + 1) \div M = w /\ (Total + 1) % M = next_ + 1 /\ (next_ + 1) % M = next_ + 1
        <4>1. (Total + 1) \div M = w /\ (Total + 1) % M = next_ + 1
          BY <1>1, <2>4, <3>1, DivUnique
        <4>2. next_ + 1 = M * 0 + (next_ + 1)
          BY <1>1, <3>1
        <4>3. (next_ + 1) % M = next_ + 1
          BY <1>1, <3>1, <4>2, DivUnique
        <4>4. QED  BY <4>1, <4>3
      <3>3. ASSUME NEW u \in Threads  PROVE given'[u] = (w * Share(M, u)) + Share(next_ + 1, u)
        <4>1. w * Share(M, u) \in Nat
          BY <2>4, <2>5
        <4>2. QED  BY <2>3, <2>5, <4>1
      <3>4. QED  BY <2>1, <2>3, <3>2, <3>3 DEF RoundRobin, M
    <2>7. CASE ~(next_ + 1 < M)
      <3>1. /\ next_ + 1 = M /\ Total + 1 = M * (w + 1) + 0 /\ 0 \in 0 .. M - 1
            /\ w + 1 \in Nat /\ Total + 1 \in Nat /\ M = M * 1 + 0 /\ M \in Nat
        BY <1>1, <2>4, <2>7
      <3>2. (Total + 1) \div M = w + 1 /\ (Total + 1) % M = 0 /\ (next_ + 1) % M = 0
        <4>1. (Total + 1) \div M = w + 1 /\ (Total + 1) % M = 0
          BY <1>1, <3>1, DivUnique
        <4>2. M % M = 0
          BY <1>1, <3>1, DivUnique
        <4>3. QED  BY <3>1, <4>1, <4>2
      <3>3. ASSUME NEW u \in Threads  PROVE given'[u] = ((w + 1) * Share(M, u)) + Share(0, u)
        <4>1. given'[u] = (w * Share(M, u)) + Share(M, u) /\ w * Share(M, u) \in Nat
          <5>1. w * Share(M, u) \in Nat
            BY <2>4, <2>5
          <5>2. Share(M, u) = Share(next_, u) + (IF u = t THEN 1 ELSE 0)
            BY <2>5, <3>1
          <5>3. given'[u] = given[u] + (IF u = t THEN 1 ELSE 0)
            BY <2>3
          <5>4. given[u] = (w * Share(M, u)) + Share(next_, u) /\ Share(next_, u) \in Nat
            BY <2>5
          <5>5. QED  BY <5>1, <5>2, <5>3, <5>4
        <4>2. Share(0, u) = 0
          BY <1>1, ShareZero
        <4>3. (w * Share(M, u)) + Share(M, u) = (w + 1) * Share(M, u)
          BY <2>4, <2>5
        <4>4. (w + 1) * Share(M, u) \in Nat
          BY <2>4, <2>5
        <4>5. QED  BY <4>1, <4>2, <4>3, <4>4
      <3>4. QED  BY <2>1, <2>3, <3>2, <3>3 DEF RoundRobin, M
    <2>8. QED  BY <2>6, <2>7
  <1>5. QED  BY <1>3, <1>4

\* Only GetNextLoop hands out tasks.
LEMMA StepRoundRobin == IndInv /\ RoundRobin /\ [Next]_vars => RoundRobin'
  <1> SUFFICES ASSUME IndInv, RoundRobin, [Next]_vars PROVE RoundRobin'
    OBVIOUS
  <1>1. CASE UNCHANGED <<next_, given>>
    BY <1>1 DEF RoundRobin, Total, Handed
  <1>2. CASE \E task \in Tasks : GetNextLoop(task)
    BY <1>2, GetNextLoopRoundRobin
  <1>3. ASSUME UNCHANGED vars \/ Owner \/ Start \/ Stop \/ Destroy \/ \E t \in Threads : Worker(t)
        PROVE  UNCHANGED <<next_, given>>
    <2>1. ASSUME NEW t \in Threads, Worker(t)  PROVE UNCHANGED <<next_, given>>
      BY <2>1 DEF owner, ghosts, Worker, RunReadsName, RunNames, RunEnters, LoopOwned, LoopRunning, RunTask,
                  LoopReturns, RunResets, RunEnds
    <2>2. CASE Owner
      BY <2>2 DEF ghosts, Owner, StartThread, StartSeesRunning, SetName, StopThread, StopSeesStopped, Joined
    <2>3. CASE Start \/ Stop \/ Destroy \/ UNCHANGED vars
      BY <2>3 DEF vars, owner, ghosts, Start, Stop, Destroy
    <2>4. QED  BY <1>3, <2>1, <2>2, <2>3
  <1>4. QED  BY <1>1, <1>2, <1>3 DEF Next, Application

\* A product of a natural number with a difference of at most one.
LEMMA ScaledDifference ==
    ASSUME NEW w \in Nat, NEW a \in Nat, NEW b \in Nat, a - b <= 1
    PROVE  (w * a) - (w * b) <= w /\ w * a \in Nat /\ w * b \in Nat
  <1>1. CASE a <= b
    OBVIOUS
  <1>2. CASE a = b + 1
    BY <1>2
  <1>3. QED  BY <1>1, <1>2

(* GetNextLoop is fair for every number of threads and every width of      *)
(* next_: the numbers of tasks given to two threads differ by at most one, *)
(* and by one more for each time next_ has overflowed.                     *)
THEOREM BalancedTheorem == Spec => []Balanced
  <1>1. RoundRobin => Balanced
    <2> SUFFICES ASSUME RoundRobin, NEW t \in Threads, NEW u \in Threads
                 PROVE  given[t] - given[u] <= 1 + Total \div 2 ^ Width
      BY DEF Balanced, Total, Handed
    <2> DEFINE w == Total \div 2 ^ Width
               M == 2 ^ Width
    <2>1. M \in Nat \ {0} /\ w \in Nat /\ next_ \in Nat
      <3>1. M \in Nat \ {0} /\ Total \in Nat
        BY WidthAssumption, HandedFinite
      <3>2. w \in Nat /\ Total % M \in 0 .. M - 1
        BY <3>1, DivMod
      <3>3. QED  BY <3>1, <3>2 DEF RoundRobin
    <2>2. /\ given[t] = (w * Share(M, t)) + Share(next_, t)
          /\ given[u] = (w * Share(M, u)) + Share(next_, u)
      BY DEF RoundRobin
    <2> HIDE DEF w, M
    <2>3. /\ Share(M, t) \in Nat /\ Share(M, u) \in Nat /\ Share(next_, t) \in Nat /\ Share(next_, u) \in Nat
          /\ Share(M, t) - Share(M, u) <= 1 /\ Share(next_, t) - Share(next_, u) <= 1
      BY <2>1, ShareNext, SharesAreEven
    <2>4. /\ (w * Share(M, t)) - (w * Share(M, u)) <= w
          /\ w * Share(M, t) \in Nat /\ w * Share(M, u) \in Nat
      BY <2>1, <2>3, ScaledDifference
    <2>5. given[t] - given[u] <= 1 + w
      BY <2>1, <2>2, <2>3, <2>4
    <2>6. QED  BY <2>5 DEF w
  <1>2. Spec => []RoundRobin
    BY InitRoundRobin, StepRoundRobin, Invariance, PTL DEF Spec
  <1>3. QED  BY <1>1, <1>2, PTL
=============================================================================
