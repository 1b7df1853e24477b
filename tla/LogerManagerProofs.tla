------------------------- MODULE LogerManagerProofs -------------------------
(***************************************************************************)
(* Theorems about LogerManager for any number of threads, loggers, logs    *)
(* and calls.                                                              *)
(***************************************************************************)
EXTENDS LogerManager, FiniteSetTheorems, TLAPS

\* Taking the oldest LogData off the queue.
LEMMA PopFacts ==
    ASSUME NEW S, NEW s \in Seq(S), s # <<>>
    PROVE  /\ RemoveAt(s, Oldest) = Tail(s) /\ s[Oldest] = Head(s)
           /\ Tail(s) \in Seq(S) /\ Head(s) \in S /\ Head(s) = s[1]
           /\ DOMAIN Tail(s) = 1 .. Len(s) - 1 /\ Len(Tail(s)) = Len(s) - 1
           /\ DOMAIN s = 1 .. Len(s) /\ Len(s) \in Nat /\ 1 <= Len(s)
           /\ \A i \in 1 .. Len(s) - 1 : Tail(s)[i] = s[i + 1]
  BY DEF RemoveAt, Oldest

\* Appending to a sequence.
LEMMA AppendFacts ==
    ASSUME NEW S, NEW s \in Seq(S), NEW x \in S
    PROVE  /\ Append(s, x) \in Seq(S)
           /\ Len(s) \in Nat /\ DOMAIN s = 1 .. Len(s)
           /\ Len(Append(s, x)) = Len(s) + 1
           /\ DOMAIN Append(s, x) = 1 .. Len(s) + 1
           /\ \A i \in 1 .. Len(s) : Append(s, x)[i] = s[i]
           /\ Append(s, x)[Len(s) + 1] = x
  OBVIOUS

-----------------------------------------------------------------------------
(* Where the threads are.                                                  *)

InLog == {"test", "direct", "make", "check", "push", "keep"}
InRun == {"none", "start", "boot", "pop", "handle", "keep", "flush", "quit", "done"}

\* A thread has a call exactly while it is in one, and a LogData exactly
\* from makeLogData to the end of pushLog or freeLogData.
ThreadInv ==
    \A t \in Threads :
        /\ pc[t] \in {"idle"} \cup InLog
        /\ pc[t] \in InLog => want[t] \in Call
        /\ hold[t] # 0 <=> pc[t] \in {"check", "push", "keep"}

\* The log thread holds the LogData it handles.
LogInv ==
    /\ pc[LogThread] \in InRun
    /\ hold[LogThread] # 0 <=> pc[LogThread] \in {"handle", "keep"}
    /\ pc[LogThread] \in {"handle", "keep"} => cur \in LogData

\* start, run and stop, in this order.
RunInv ==
    /\ app = "new" <=> pc[LogThread] = "none"
    /\ pc[LogThread] \in {"none", "start"} => ~_runing
    /\ pc[LogThread] \in {"none", "start", "boot"} => _semaphore = 0
    /\ app \in {"new", "waiting", "started"} =>
          /\ pc[LogThread] \notin {"none", "start"} => _runing
          /\ startOk => pc[LogThread] \notin {"none", "start", "boot"}
    /\ pc[LogThread] = "done" => ~_runing
    /\ app = "returned" /\ startOk => pc[LogThread] = "done"

-----------------------------------------------------------------------------
(* Every LogData has one place.                                            *)

\* No LogData is in two places of queue l, list f and hands h.
Apart(l, f, h) ==
    /\ \A i, j \in DOMAIN l : l[i].d = l[j].d => i = j
    /\ \A i, j \in DOMAIN f : f[i] = f[j] => i = j
    /\ \A i \in DOMAIN l, j \in DOMAIN f : l[i].d # f[j]
    /\ \A a \in Actors : h[a] # 0 =>
           /\ \A i \in DOMAIN l : l[i].d # h[a]
           /\ \A i \in DOMAIN f : f[i] # h[a]
           /\ \A b \in Actors \ {a} : h[b] # h[a]

\* LogData d is in none of them.
Fresh(d, l, f, h) ==
    /\ \A i \in DOMAIN l : l[i].d # d
    /\ \A i \in DOMAIN f : f[i] # d
    /\ \A a \in Actors : h[a] # d

Hands == [Actors -> {0} \cup Ids]

\* A thread gives its LogData away.
LEMMA Release ==
    ASSUME NEW l, NEW f, NEW h \in Hands, Apart(l, f, h), NEW a \in Actors, h[a] # 0,
           NEW g, g = [h EXCEPT ![a] = 0]
    PROVE  g \in Hands /\ Apart(l, f, g) /\ Fresh(h[a], l, f, g)
  <1>1. g \in Hands /\ g[a] = 0 /\ \A b \in Actors \ {a} : g[b] = h[b]
    BY DEF Hands
  <1>2. QED  BY <1>1 DEF Apart, Fresh

\* A thread gets a LogData that is nowhere else.
LEMMA Take ==
    ASSUME NEW l, NEW f, NEW h \in Hands, Apart(l, f, h), NEW a \in Actors, h[a] = 0,
           NEW d \in Ids, Fresh(d, l, f, h), NEW g, g = [h EXCEPT ![a] = d]
    PROVE  g \in Hands /\ Apart(l, f, g)
  <1>1. g \in Hands /\ g[a] = d /\ \A b \in Actors \ {a} : g[b] = h[b]
    BY DEF Hands
  <1>2. QED  BY <1>1 DEF Apart, Fresh

\* A LogData that is nowhere else enters the queue.
LEMMA Enqueue ==
    ASSUME NEW l \in Seq(LogData), NEW f, NEW h, Apart(l, f, h),
           NEW x \in LogData, Fresh(x.d, l, f, h)
    PROVE  Append(l, x) \in Seq(LogData) /\ Apart(Append(l, x), f, h)
  BY AppendFacts DEF Apart, Fresh

\* Or the list of those kept for reuse.
LEMMA Keep ==
    ASSUME NEW l, NEW f \in Seq(Ids), NEW h, Apart(l, f, h), NEW d \in Ids, Fresh(d, l, f, h)
    PROVE  Append(f, d) \in Seq(Ids) /\ Apart(l, Append(f, d), h)
  BY AppendFacts DEF Apart, Fresh

\* The oldest LogData leaves the queue.
LEMMA Dequeue ==
    ASSUME NEW l \in Seq(LogData), l # <<>>, NEW f \in Seq(Ids), NEW h \in Hands, Apart(l, f, h)
    PROVE  /\ Apart(Tail(l), f, h) /\ Fresh(Head(l).d, Tail(l), f, h)
  <1>1. /\ Head(l) \in LogData /\ Head(l) = l[1]
        /\ DOMAIN Tail(l) = 1 .. Len(l) - 1 /\ DOMAIN l = 1 .. Len(l) /\ Len(l) \in Nat /\ 1 <= Len(l)
        /\ \A i \in 1 .. Len(l) - 1 : Tail(l)[i] = l[i + 1]
    BY PopFacts
  <1>2. Head(l).d \in Ids /\ Head(l).d # 0
    BY <1>1 DEF LogData, Ids
  <1>3. 1 \in DOMAIN l /\ \A i \in DOMAIN Tail(l) : i + 1 \in DOMAIN l /\ i + 1 # 1
    BY <1>1
  <1>4. Apart(Tail(l), f, h)
    <2>1. \A i, j \in DOMAIN Tail(l) : Tail(l)[i].d = Tail(l)[j].d => i = j
      BY <1>1, <1>3 DEF Apart
    <2>2. \A i \in DOMAIN Tail(l) : \E k \in DOMAIN l : Tail(l)[i] = l[k]
      BY <1>1, <1>3
    <2>3. QED  BY <2>1, <2>2 DEF Apart
  <1>5. \A i \in DOMAIN Tail(l) : Tail(l)[i].d # Head(l).d
    BY <1>1, <1>3 DEF Apart
  <1>6. /\ \A i \in DOMAIN f : f[i] # Head(l).d
        /\ \A a \in Actors : h[a] # Head(l).d
    BY <1>1, <1>2, <1>3 DEF Apart
  <1>7. QED  BY <1>4, <1>5, <1>6 DEF Fresh

-----------------------------------------------------------------------------
(* There is always memory for one more LogData.                            *)

\* A function has at most as many values as arguments.
LEMMA ImageCardinality ==
    ASSUME NEW S, IsFiniteSet(S), NEW f, DOMAIN f = S
    PROVE  /\ IsFiniteSet({f[x] : x \in S})
           /\ Cardinality({f[x] : x \in S}) <= Cardinality(S)
  <1> DEFINE T == {f[x] : x \in S}
             g == [x \in S |-> f[x]]
  <1>1. g \in Surjection(S, T)
    BY DEF Surjection
  <1>2. QED  BY <1>1, FS_Surjection

\* The threads that are in a call, or handle a LogData.
Busy == {a \in Actors : pc[a] \in InLog \cup {"handle"}}

\* Every LogData in use was made for a call that was made, or for a line of
\* the log thread's own; a call makes no more than one.
Budget == Len(_logs) + Len(_freeLogDatas) + Cardinality(Busy) <= calls + (BootLines - boot)

Holders == {a \in Actors : hold[a] # 0}

\* Threads are finitely many.
LEMMA ActorsFinite ==
    /\ IsFiniteSet(Actors) /\ IsFiniteSet(Busy) /\ IsFiniteSet(Holders)
    /\ Cardinality(Busy) \in Nat /\ Cardinality(Holders) \in Nat
  <1>1. IsFiniteSet(Actors)
    BY ThreadAssumption, FS_AddElement DEF Actors
  <1>2. Busy \in SUBSET Actors /\ Holders \in SUBSET Actors
    BY DEF Busy, Holders
  <1>3. QED  BY <1>1, <1>2, FS_Subset, FS_CardinalityType

\* With fewer LogDatas in the queue and in hands than there are in all, one is unused.
LEMMA Unused ==
    ASSUME _logs \in Seq(LogData), _freeLogDatas = <<>>, hold \in Hands,
           Len(_logs) + Cardinality(Holders) < MaxCalls + BootLines
    PROVE  New \in Ids /\ New \notin InUse
  <1> DEFINE Q == {_logs[i].d : i \in DOMAIN _logs}
             f == [i \in DOMAIN _logs |-> _logs[i].d]
             H == {hold[a] : a \in Holders}
             g == [a \in Holders |-> hold[a]]
  <1>0. MaxCalls \in Nat /\ LastId \in Nat /\ BootLines \in Nat /\ 1 <= MaxCalls + BootLines
    BY LimitAssumption DEF BootLines
  <1>1. DOMAIN _logs = 1 .. Len(_logs) /\ Len(_logs) \in Nat
    OBVIOUS
  <1>2. IsFiniteSet(DOMAIN _logs) /\ Cardinality(DOMAIN _logs) = Len(_logs)
    <2>1. IsFiniteSet(1 .. Len(_logs)) /\ Cardinality(1 .. Len(_logs)) = Len(_logs)
      <3>1. 1 \in Int /\ Len(_logs) \in Int /\ (1 > Len(_logs) => Len(_logs) = 0)
            /\ Len(_logs) - 1 + 1 = Len(_logs)
        BY <1>1
      <3>2. QED  BY <3>1, FS_Interval
    <2>2. QED  BY <1>1, <2>1
  <1>3. IsFiniteSet(Q) /\ Cardinality(Q) <= Len(_logs)
    <2>1. DOMAIN f = DOMAIN _logs /\ Q = {f[i] : i \in DOMAIN _logs}
      OBVIOUS
    <2> HIDE DEF f, Q
    <2>2. QED  BY <1>2, <2>1, ImageCardinality
  <1>4. IsFiniteSet(H) /\ Cardinality(H) <= Cardinality(Holders)
    <2>1. DOMAIN g = Holders /\ H = {g[a] : a \in Holders}
      OBVIOUS
    <2> HIDE DEF g, H
    <2>2. QED  BY <2>1, ImageCardinality, ActorsFinite
  <1>5. InUse = Q \cup H
    BY DEF InUse, Held, Holders
  <1> HIDE DEF Q, H
  <1>6. IsFiniteSet(Q \cup H) /\ Cardinality(Q \cup H) <= Cardinality(Q) + Cardinality(H)
    <2>1. /\ IsFiniteSet(Q \cup H)
          /\ Cardinality(Q \cup H) = Cardinality(Q) + Cardinality(H) - Cardinality(Q \cap H)
      BY <1>3, <1>4, FS_Union
    <2>2. IsFiniteSet(Q \cap H)
      BY <1>3, FS_Subset
    <2>3. Cardinality(Q \cap H) \in Nat /\ Cardinality(Q) \in Nat /\ Cardinality(H) \in Nat
      BY <1>3, <1>4, <2>2, FS_CardinalityType
    <2>4. QED  BY <2>1, <2>3
  <1>7. Cardinality(InUse) < MaxCalls + BootLines /\ IsFiniteSet(InUse)
    BY <1>0, <1>1, <1>3, <1>4, <1>5, <1>6, FS_CardinalityType, ActorsFinite
  <1>8. IsFiniteSet(Ids) /\ Cardinality(Ids) = MaxCalls + BootLines
    BY <1>0, FS_Interval DEF Ids
  <1>9. \E d \in Ids : d \notin InUse
    <2>1. SUFFICES ASSUME Ids \in SUBSET InUse PROVE FALSE
      OBVIOUS
    <2>2. Cardinality(Ids) <= Cardinality(InUse)
      BY <1>7, <2>1, FS_Subset
    <2>3. QED  BY <1>0, <1>7, <1>8, <2>2, FS_CardinalityType
  <1>10. QED  BY <1>9 DEF New

\* makeLogData returns a LogData that is in nobody's hands.
LEMMA MadeFacts ==
    ASSUME _logs \in Seq(LogData), _freeLogDatas \in Seq(Ids), hold \in Hands,
           Apart(_logs, _freeLogDatas, hold),
           Len(_logs) + Cardinality(Holders) < MaxCalls + BootLines
    PROVE  /\ Made.d \in Ids /\ Made.rest \in Seq(Ids)
           /\ Len(Made.rest) <= Len(_freeLogDatas) /\ Len(Made.rest) \in Nat
           /\ Apart(_logs, Made.rest, hold)
           /\ Fresh(Made.d, _logs, Made.rest, hold)
  <1>1. CASE _freeLogDatas = <<>>
    <2>1. Made.d = New /\ Made.rest = <<>>
      BY <1>1 DEF Made
    <2>2. New \in Ids /\ New \notin InUse
      BY <1>1, Unused
    <2>3. New # 0
      BY <2>2, LimitAssumption DEF Ids
    <2>4. Fresh(New, _logs, <<>>, hold)
      BY <2>2, <2>3 DEF Fresh, InUse, Held
    <2>5. QED  BY <1>1, <2>1, <2>2, <2>4
  <1>2. CASE _freeLogDatas # <<>>
    <2> DEFINE n == Len(_freeLogDatas)
               r == SubSeq(_freeLogDatas, 1, n - 1)
    <2>1. Made.d = _freeLogDatas[n] /\ Made.rest = r
      BY <1>2 DEF Made
    <2>2. n \in Nat /\ n > 0 /\ DOMAIN _freeLogDatas = 1 .. n /\ _freeLogDatas[n] \in Ids
      BY <1>2
    <2>3. /\ r \in Seq(Ids) /\ Len(r) = n - 1 /\ DOMAIN r = 1 .. n - 1
          /\ \A i \in 1 .. n - 1 : r[i] = _freeLogDatas[i]
      BY <2>2
    <2> HIDE DEF n, r
    <2>4. n \in DOMAIN _freeLogDatas /\ \A i \in DOMAIN r : i \in DOMAIN _freeLogDatas /\ i # n
      BY <2>2, <2>3
    <2>5. Apart(_logs, r, hold)
      BY <2>2, <2>3, <2>4 DEF Apart
    <2>6. _freeLogDatas[n] # 0
      BY <2>2, LimitAssumption DEF Ids
    <2>7. Fresh(_freeLogDatas[n], _logs, r, hold)
      BY <2>2, <2>3, <2>4, <2>6 DEF Apart, Fresh
    <2>8. Len(r) <= Len(_freeLogDatas) /\ Len(r) \in Nat
      BY <2>2, <2>3 DEF n
    <2>9. QED  BY <2>1, <2>2, <2>3, <2>5, <2>7, <2>8
  <1>3. QED  BY <1>1, <1>2

-----------------------------------------------------------------------------
(* The inductive invariant.                                                *)

Places == {"idle", "test", "direct", "make", "check", "push", "keep",
           "none", "start", "boot", "pop", "handle", "flush", "quit", "done"}

\* TypeOK by what each group of actions changes.
StateOK ==
    /\ app \in {"new", "waiting", "started", "stopping", "returned"}
    /\ startOk \in BOOLEAN /\ _runing \in BOOLEAN /\ _semaphore \in 0 .. 1
ActorOK ==
    /\ pc \in [Actors -> Places] /\ hold \in Hands /\ want \in [Threads -> Call \cup {None}]
    /\ calls \in 0 .. MaxCalls /\ boot \in 0 .. BootLines /\ cur \in LogData \cup {None}
QueueOK == _logs \in Seq(LogData) /\ _freeLogDatas \in Seq(Ids)
OutputOK ==
    /\ _loggers \in [Loggers -> Logger] /\ needFlush \subseteq Loggers
    /\ file \in [Loggers -> [written : Seq(Actors \X Nat), flushed : Nat]]
GhostOK == restricted \subseteq Loggers /\ direct \subseteq Loggers /\ wronged \in BOOLEAN

ActInv == /\ ActorOK /\ QueueOK
          /\ Apart(_logs, _freeLogDatas, hold)
          /\ ThreadInv /\ LogInv /\ Budget

IndInv == /\ StateOK /\ RunInv
          /\ ActInv
          /\ OutputOK /\ GhostOK

\* The groups together are OnePlace.
LEMMA IndImplies == IndInv => OnePlace
  BY DEF IndInv, StateOK, ActInv, ActorOK, QueueOK, OutputOK, GhostOK, TypeOK, OnePlace,
         Apart, Hands, Places

\* Numbers and the log thread's name.
LEMMA Constants ==
    /\ {LastId, MaxLevel, QueueLimit, FreeLimit, MaxCalls, BootLines} \subseteq Nat
    /\ LogThread \in Actors /\ LogThread \notin Threads
    /\ \A t \in Threads : t \in Actors /\ t # LogThread
  BY ThreadAssumption, LimitAssumption DEF Actors, BootLines

-----------------------------------------------------------------------------
(* start, run and stop.                                                    *)

\* A step of an application's thread leaves the log thread and its state.
LEMMA ThreadLeavesRun ==
    ASSUME IndInv, NEW t \in Threads, InCall(t) \/ \E c \in Requests : Log(t, c) \/ Set(t, c)
    PROVE  UNCHANGED state /\ pc'[LogThread] = pc[LogThread] /\ boot' = boot
  <1>0. pc \in [Actors -> Places] /\ LogThread \in Actors /\ t \in Actors /\ t # LogThread
    BY Constants DEF IndInv, ActInv, ActorOK
  <1>1. \/ pc' = pc
        \/ \E p : pc' = [pc EXCEPT ![t] = p]
    BY <1>0 DEF InCall, Log, Set, hotChange, hotChangeDirect, makeLogData, pushLog, pushLogs,
                keepLogData, freeLogData, Returned
  <1>2. UNCHANGED state /\ boot' = boot
    BY DEF InCall, Log, Set, hotChange, hotChangeDirect, makeLogData, pushLog, pushLogs,
           keepLogData
  <1>3. QED  BY <1>0, <1>1, <1>2

\* Where a step of the log thread takes it.
LEMMA RunMoves ==
    ASSUME IndInv, Run
    PROVE  /\ \/ runStarts /\ pc[LogThread] = "start" /\ pc'[LogThread] = "boot"
              \/ runPosts /\ pc[LogThread] = "boot" /\ pc'[LogThread] = "pop" /\ UNCHANGED _runing
              \/ /\ UNCHANGED state
                 /\ \/ runLogs /\ pc'[LogThread] = "boot" /\ pc[LogThread] = "boot"
                    \/ /\ pc[LogThread] \in {"pop", "handle", "keep", "flush", "quit"}
                       /\ pc'[LogThread] \in {"pop", "handle", "keep", "flush", "quit"}
                    \/ runQuits /\ MayQuit /\ pc[LogThread] = "quit" /\ pc'[LogThread] = "done"
  <1>0. pc \in [Actors -> Places] /\ LogThread \in Actors
    BY Constants DEF IndInv, ActInv, ActorOK
  <1>1. CASE runStarts
    BY <1>0, <1>1 DEF runStarts, At
  <1>2. CASE runPosts
    BY <1>0, <1>2 DEF runPosts, At
  <1>3. CASE runLogs
    BY <1>0, <1>3 DEF runLogs
  <1>4. CASE popLog
    BY <1>0, <1>4 DEF popLog
  <1>5. CASE handleChange \/ handleDiscard \/ \E o, w \in BOOLEAN : handleLog(o, w)
    <2>1. UNCHANGED state /\ pc[LogThread] = "handle" /\ freeLogData(LogThread)
      BY <1>5 DEF handleChange, handleDiscard, handleLog
    <2>2. pc'[LogThread] \in {"pop", "keep"}
      BY <1>0, <2>1 DEF freeLogData, Returned
    <2>3. QED  BY <2>1, <2>2
  <1>6. CASE runFlushes
    BY <1>0, <1>6 DEF runFlushes, At
  <1>7. CASE runQuits
    BY <1>0, <1>7 DEF runQuits
  <1>8. CASE keepLogData(LogThread)
    BY <1>0, <1>8 DEF keepLogData, Returned
  <1>9. QED  BY <1>1, <1>2, <1>3, <1>4, <1>5, <1>6, <1>7, <1>8 DEF Run

\* start, run and stop keep RunInv.
LEMMA StepRun == ASSUME IndInv, [Next]_vars PROVE StateOK' /\ RunInv'
  <1>0. StateOK /\ RunInv /\ pc \in [Actors -> Places] /\ LogThread \in Actors
    BY Constants DEF IndInv, ActInv, ActorOK
  <1>1. ASSUME UNCHANGED state, pc'[LogThread] = pc[LogThread]  PROVE StateOK' /\ RunInv'
    BY <1>0, <1>1 DEF state, StateOK, RunInv
  <1>2. ASSUME NEW t \in Threads, InCall(t) \/ \E c \in Requests : Log(t, c) \/ Set(t, c)
        PROVE  StateOK' /\ RunInv'
    BY <1>1, <1>2, ThreadLeavesRun
  <1>3. CASE Run
    <2>1. CASE runStarts /\ pc[LogThread] = "start" /\ pc'[LogThread] = "boot"
      <3>1. _runing' = TRUE /\ UNCHANGED <<app, startOk, _semaphore>>
        BY <2>1 DEF runStarts
      <3>2. QED  BY <1>0, <2>1, <3>1 DEF StateOK, RunInv
    <2>2. CASE runPosts /\ pc[LogThread] = "boot" /\ pc'[LogThread] = "pop" /\ UNCHANGED _runing
      <3>1. _semaphore' = _semaphore + 1 /\ UNCHANGED <<app, startOk>> /\ _semaphore = 0
        BY <1>0, <2>2 DEF runPosts, RunInv
      <3>2. QED  BY <1>0, <2>2, <3>1 DEF StateOK, RunInv
    <2>3. CASE /\ UNCHANGED state
               /\ pc[LogThread] \in {"pop", "handle", "keep", "flush", "quit"}
               /\ pc'[LogThread] \in {"pop", "handle", "keep", "flush", "quit"}
      BY <1>0, <2>3 DEF state, StateOK, RunInv
    <2>4. CASE /\ UNCHANGED state
               /\ MayQuit /\ pc[LogThread] = "quit" /\ pc'[LogThread] = "done"
      BY <1>0, <2>4 DEF state, StateOK, RunInv, MayQuit
    <2>5. QED  BY <1>1, <1>3, <2>1, <2>2, <2>3, <2>4, RunMoves
  <1>4. CASE start
    <2>1. /\ app = "new" /\ app' = "waiting" /\ _semaphore' = 0 /\ UNCHANGED <<startOk, _runing>>
          /\ pc'[LogThread] = "start"
      BY <1>0, <1>4 DEF start
    <2>2. ~startOk /\ ~_runing
      BY <1>0, <1>4 DEF start, RunInv
    <2>3. QED  BY <1>0, <2>1, <2>2 DEF StateOK, RunInv
  <1>5. CASE stop
    <2>1. /\ app = "started" /\ app' = (IF _runing THEN "stopping" ELSE "returned")
          /\ _runing' = FALSE /\ startOk' = (startOk \/ _runing)
          /\ pc' = pc /\ _semaphore' = _semaphore
      BY <1>5 DEF stop, actors
    <2>2. QED  BY <1>0, <2>1 DEF StateOK, RunInv
  <1>6. CASE stopReturns
    BY <1>0, <1>6 DEF stopReturns, Joined, StateOK, RunInv, actors
  <1>7. ASSUME NEW ok \in BOOLEAN, startReturns(ok)  PROVE StateOK' /\ RunInv'
    <2>1. /\ app = "waiting" /\ app' = "started" /\ startOk' = ok /\ (ok <=> _semaphore = 1)
          /\ _semaphore' = (IF ok THEN _semaphore - 1 ELSE _semaphore)
          /\ UNCHANGED <<_runing, pc>>
      BY <1>7 DEF startReturns, Waited, actors
    <2>2. QED  BY <1>0, <2>1 DEF StateOK, RunInv
  <1>8. CASE UNCHANGED vars
    BY <1>1, <1>8 DEF vars, actors
  <1>9. QED
    BY <1>2, <1>3, <1>4, <1>5, <1>6, <1>7, <1>8 DEF Next, Application, Returns

-----------------------------------------------------------------------------
(* The loggers and their files.                                            *)

File == [written : Seq(Actors \X Nat), flushed : Nat]

\* A request names a logger, and a level or a switch.
LEMMA CallFacts ==
    ASSUME NEW c \in Call
    PROVE  c.id \in Loggers /\ c.num \in Levels /\ c.type \in Types
  BY DEF Call

\* onHotChange changes one attribute of one logger.
LEMMA ChangedFacts ==
    ASSUME OutputOK, NEW c \in Call
    PROVE  /\ Changed(c) \in [Loggers -> Logger]
           /\ \A l \in Loggers : l # c.id => Changed(c)[l] = _loggers[l]
           /\ Changed(c)[c.id].enable =
                 (IF c.type = "enable" THEN c.num # 0 ELSE _loggers[c.id].enable)
           /\ Changed(c)[c.id].level = (IF c.type = "level" THEN c.num ELSE _loggers[c.id].level)
  <1> DEFINE old == _loggers[c.id]
             new == CASE c.type = "enable"  -> [old EXCEPT !.enable = c.num # 0]
                      [] c.type = "level"   -> [old EXCEPT !.level = c.num]
                      [] c.type = "outfile" -> [old EXCEPT !.outfile = c.num # 0]
                      [] OTHER -> old
  <1>1. c.id \in Loggers /\ c.num \in Levels /\ _loggers \in [Loggers -> Logger] /\ old \in Logger
    BY CallFacts DEF OutputOK
  <1>2. Changed(c) = [_loggers EXCEPT ![c.id] = new]
    BY DEF Changed
  <1>3. /\ new \in Logger
        /\ new.enable = (IF c.type = "enable" THEN c.num # 0 ELSE old.enable)
        /\ new.level = (IF c.type = "level" THEN c.num ELSE old.level)
    <2> HIDE DEF old
    <2>1. CASE c.type = "enable"
      BY <1>1, <2>1 DEF Logger
    <2>2. CASE c.type = "level"
      BY <1>1, <2>2 DEF Logger
    <2>3. CASE c.type = "outfile"
      BY <1>1, <2>3 DEF Logger
    <2>4. CASE c.type \notin {"enable", "level", "outfile"}
      BY <1>1, <2>4
    <2>5. QED  BY <2>1, <2>2, <2>3, <2>4
  <1> HIDE DEF new
  <1>4. QED  BY <1>1, <1>2, <1>3

\* fflush and fclose.
LEMMA FlushedFacts ==
    ASSUME OutputOK, NEW l \in Loggers
    PROVE  Flushed(l) \in [Loggers -> File] /\ Flushed(l)[l] \in File
  <1>1. file \in [Loggers -> File] /\ file[l] \in File /\ Len(file[l].written) \in Nat
    BY DEF OutputOK, File
  <1>2. [file[l] EXCEPT !.flushed = Len(file[l].written)] \in File
    BY <1>1 DEF File
  <1>3. QED  BY <1>1, <1>2 DEF Flushed

\* Every step keeps the types of the loggers, the files and the records.
LEMMA StepOut == ASSUME IndInv, [Next]_vars PROVE OutputOK' /\ GhostOK'
  <1> USE DEF File
  <1>0. /\ OutputOK /\ GhostOK /\ pc \in [Actors -> Places]
        /\ _loggers \in [Loggers -> Logger] /\ file \in [Loggers -> File] /\ needFlush \subseteq Loggers
    BY DEF IndInv, ActInv, ActorOK, OutputOK
  <1>1. ASSUME UNCHANGED output, UNCHANGED ghosts  PROVE OutputOK' /\ GhostOK'
    BY <1>0, <1>1 DEF output, ghosts, OutputOK, GhostOK
  <1>2. ASSUME NEW t \in Threads, NEW c \in Requests, Set(t, c)  PROVE OutputOK' /\ GhostOK'
    <2>1. c \in Call /\ c.id \in Loggers
      BY CallFacts DEF Requests
    <2>2. /\ restricted' \in {restricted, restricted \cup {c.id}}
          /\ UNCHANGED <<direct, wronged, needFlush, file>>
          /\ _loggers' \in {_loggers, Changed(c)}
      BY <1>2 DEF Set
    <2>3. QED  BY <1>0, <2>1, <2>2, ChangedFacts DEF OutputOK, GhostOK
  <1>3. ASSUME NEW t \in Threads, hotChangeDirect(t)  PROVE OutputOK' /\ GhostOK'
    <2>1. want[t] \in Call /\ want[t].id \in Loggers
      BY <1>3, CallFacts DEF hotChangeDirect, IndInv, ActInv, ThreadInv, InLog
    <2>2. /\ direct' \in {direct, direct \cup {want[t].id}}
          /\ UNCHANGED <<restricted, wronged, needFlush, file>>
          /\ _loggers' = Changed(want[t])
      BY <1>3 DEF hotChangeDirect
    <2>3. QED  BY <1>0, <2>1, <2>2, ChangedFacts DEF OutputOK, GhostOK
  <1>4. ASSUME pc[LogThread] = "handle"
        PROVE  cur \in LogData /\ cur.call \in Call /\ Target \in Loggers /\ cur.from \in Actors \X Nat
    BY <1>4, CallFacts DEF IndInv, ActInv, LogInv, LogData, Target
  <1>5. CASE handleChange
    <2>1. /\ _loggers' = [Changed(cur.call) EXCEPT ![Target].open = FALSE]
          /\ file' = Flushed(Target) /\ UNCHANGED needFlush /\ UNCHANGED ghosts
          /\ pc[LogThread] = "handle"
      BY <1>5 DEF handleChange
    <2>2. Changed(cur.call) \in [Loggers -> Logger] /\ Target \in Loggers
      BY <1>0, <1>4, <2>1, ChangedFacts
    <2>3. _loggers' \in [Loggers -> Logger]
      BY <2>1, <2>2 DEF Logger
    <2>4. QED  BY <1>0, <2>1, <2>2, <2>3, FlushedFacts DEF OutputOK, GhostOK, ghosts
  <1>6. CASE handleDiscard
    BY <1>0, <1>6 DEF handleDiscard, OutputOK, GhostOK
  <1>7. ASSUME NEW o \in BOOLEAN, NEW w \in BOOLEAN, handleLog(o, w)
        PROVE  OutputOK' /\ GhostOK'
    <2>1. UNCHANGED ghosts /\ Target \in Loggers /\ cur.from \in Actors \X Nat
      BY <1>4, <1>7 DEF handleLog
    <2>2. /\ _loggers' \in {_loggers, [_loggers EXCEPT ![Target].outfile = FALSE],
                             [_loggers EXCEPT ![Target].open = w]}
          /\ file' \in {file, Flushed(Target), [file EXCEPT ![Target].written = Append(@, cur.from)]}
          /\ needFlush' \in {needFlush, needFlush \cup {Target}}
      BY <1>7 DEF handleLog
    <2>3. _loggers' \in [Loggers -> Logger]
      <3>1. [_loggers EXCEPT ![Target].outfile = FALSE] \in [Loggers -> Logger]
        BY <1>0, <2>1 DEF Logger
      <3>2. [_loggers EXCEPT ![Target].open = w] \in [Loggers -> Logger]
        BY <1>0, <2>1 DEF Logger
      <3>3. QED  BY ONLY <1>0, <2>2, <3>1, <3>2, Zenon
    <2>4. [file EXCEPT ![Target].written = Append(@, cur.from)] \in [Loggers -> File]
      <3>1. file[Target] \in File /\ file[Target].written \in Seq(Actors \X Nat)
        BY <1>0, <2>1
      <3>2. Append(file[Target].written, cur.from) \in Seq(Actors \X Nat)
        BY <2>1, <3>1, AppendFacts
      <3>3. [file[Target] EXCEPT !.written = Append(file[Target].written, cur.from)] \in File
        BY <3>1, <3>2
      <3>4. [file EXCEPT ![Target].written = Append(@, cur.from)] =
               [file EXCEPT ![Target] = [file[Target] EXCEPT !.written = Append(file[Target].written, cur.from)]]
        BY <1>0, <2>1
      <3> HIDE DEF File
      <3>5. QED  BY <1>0, <2>1, <3>3, <3>4
    <2> HIDE DEF File
    <2>5. file' \in [Loggers -> File]
      <3>1. Flushed(Target) \in [Loggers -> File]
        BY <1>0, <2>1, FlushedFacts
      <3>2. QED  BY ONLY <1>0, <2>2, <2>4, <3>1, Zenon
    <2> USE DEF File
    <2>6. QED  BY <1>0, <2>1, <2>2, <2>3, <2>5 DEF OutputOK, GhostOK, ghosts
  <1>8. CASE runFlushes
    <2>1. /\ file' = [l \in Loggers |-> IF l \in ToFlush \cup ToClose THEN Flushed(l)[l] ELSE file[l]]
          /\ needFlush' = needFlush \ ToFlush /\ UNCHANGED ghosts
          /\ _loggers' = [l \in Loggers |-> [_loggers[l] EXCEPT !.open = @ /\ l \notin ToClose]]
      BY <1>8 DEF runFlushes
    <2>2. file' \in [Loggers -> File]
      BY <1>0, <2>1, FlushedFacts
    <2>3. _loggers' \in [Loggers -> Logger]
      BY <1>0, <2>1 DEF Logger
    <2>4. QED  BY <1>0, <2>1, <2>2, <2>3 DEF OutputOK, GhostOK, ghosts
  <1>9. CASE runQuits
    <2>1. CASE MayQuit
      <3>1. /\ file' = [l \in Loggers |-> IF _loggers[l].enable THEN Flushed(l)[l] ELSE file[l]]
            /\ _loggers' = [l \in Loggers |->
                   [_loggers[l] EXCEPT !.enable = FALSE, !.open = @ /\ ~_loggers[l].enable]]
            /\ UNCHANGED needFlush /\ UNCHANGED ghosts
        BY <1>9, <2>1 DEF runQuits
      <3>2. file' \in [Loggers -> File]
        BY <1>0, <3>1, FlushedFacts
      <3>3. _loggers' \in [Loggers -> Logger]
        BY <1>0, <3>1 DEF Logger
      <3>4. QED  BY <1>0, <3>1, <3>2, <3>3 DEF OutputOK, GhostOK, ghosts
    <2>2. CASE ~MayQuit
      BY <1>1, <1>9, <2>2 DEF runQuits, output
    <2>3. QED  BY <2>1, <2>2
  <1>10. CASE start \/ stop \/ stopReturns \/ \E ok \in BOOLEAN : startReturns(ok)
    BY <1>1, <1>10 DEF start, stop, stopReturns, startReturns
  <1>11. CASE \E t \in Threads : \/ hotChange(t) \/ makeLogData(t) \/ pushLog(t) \/ pushLogs(t)
                                 \/ keepLogData(t) \/ \E c \in Requests : Log(t, c)
    BY <1>1, <1>11 DEF hotChange, makeLogData, pushLog, pushLogs, keepLogData, Log
  <1>12. CASE runStarts \/ runLogs \/ runPosts \/ popLog \/ keepLogData(LogThread) \/ UNCHANGED vars
    BY <1>1, <1>12 DEF runStarts, runLogs, runPosts, popLog, keepLogData, vars
  <1>13. QED
    BY <1>2, <1>3, <1>5, <1>6, <1>7, <1>8, <1>9, <1>10, <1>11, <1>12
       DEF Next, Application, Returns, Run, InCall

-----------------------------------------------------------------------------
(* The threads and the LogDatas.                                           *)

\* One thread moves, and the number of busy ones follows.
LEMMA BusyMoves ==
    ASSUME pc \in [Actors -> Places], pc' \in [Actors -> Places], NEW a \in Actors,
           \A b \in Actors \ {a} : pc'[b] = pc[b]
    PROVE  /\ Cardinality(Busy) \in Nat
           /\ Cardinality(Busy') = Cardinality(Busy)
                 + (IF pc'[a] \in InLog \cup {"handle"} THEN 1 ELSE 0)
                 - (IF pc[a] \in InLog \cup {"handle"} THEN 1 ELSE 0)
  <1> DEFINE B == InLog \cup {"handle"}
  <1>1. IsFiniteSet(Busy) /\ Cardinality(Busy) \in Nat
    BY ActorsFinite
  <1>2. /\ Cardinality(Busy \cup {a}) = IF a \in Busy THEN Cardinality(Busy) ELSE Cardinality(Busy) + 1
        /\ Cardinality(Busy \ {a}) = IF a \in Busy THEN Cardinality(Busy) - 1 ELSE Cardinality(Busy)
    BY <1>1, FS_AddElement, FS_RemoveElement
  <1>3. a \in Busy <=> pc[a] \in B
    BY DEF Busy
  <1>4. CASE pc'[a] \in B
    <2>1. Busy' = Busy \cup {a}
      BY <1>4 DEF Busy
    <2>2. QED  BY <1>1, <1>2, <1>3, <1>4, <2>1
  <1>5. CASE pc'[a] \notin B
    <2>1. Busy' = Busy \ {a}
      BY <1>5 DEF Busy
    <2>2. QED  BY <1>1, <1>2, <1>3, <1>5, <2>1
  <1>6. QED  BY <1>4, <1>5

\* Thread t moves to p with h in its hands, asking for w.
Moves(t, p, h, w) ==
    /\ pc' = [pc EXCEPT ![t] = p] /\ hold' = [hold EXCEPT ![t] = h]
    /\ want' = [want EXCEPT ![t] = w] /\ cur' = cur

\* An application's thread moves.
LEMMA ThreadMove ==
    ASSUME ActorOK, ThreadInv, LogInv, NEW t \in Threads, NEW p \in {"idle"} \cup InLog,
           NEW h \in {0} \cup Ids, NEW w \in Call \cup {None}, Moves(t, p, h, w),
           p \in InLog => w \in Call, h # 0 <=> p \in {"check", "push", "keep"},
           calls' \in 0 .. MaxCalls, boot' \in 0 .. BootLines
    PROVE  /\ ActorOK' /\ ThreadInv' /\ LogInv'
           /\ Cardinality(Busy) \in Nat
           /\ Cardinality(Busy') = Cardinality(Busy) + (IF p \in InLog THEN 1 ELSE 0)
                                                     - (IF pc[t] \in InLog THEN 1 ELSE 0)
  <1>1. t \in Actors /\ t # LogThread /\ LogThread \in Actors /\ \A u \in Threads : u \in Actors
    BY Constants
  <1>2. /\ pc' \in [Actors -> Places] /\ hold' \in Hands /\ want' \in [Threads -> Call \cup {None}]
    BY <1>1 DEF Moves, ActorOK, Hands, Places, InLog
  <1>3. /\ pc'[t] = p /\ hold'[t] = h /\ want'[t] = w
        /\ \A a \in Actors \ {t} : pc'[a] = pc[a] /\ hold'[a] = hold[a]
        /\ \A u \in Threads \ {t} : want'[u] = want[u]
    BY <1>1 DEF Moves, ActorOK, Hands
  <1>4. ActorOK'
    BY <1>2 DEF ActorOK, Moves, Hands
  <1>5. ThreadInv'
    BY <1>1, <1>3 DEF ThreadInv
  <1>6. LogInv'
    BY <1>1, <1>3 DEF LogInv, Moves
  <1>7. p \in InLog \cup {"handle"} <=> p \in InLog
    BY DEF InLog
  <1>8. pc[t] \in InLog \cup {"handle"} <=> pc[t] \in InLog
    BY DEF ThreadInv, InLog
  <1>9. QED  BY <1>1, <1>2, <1>3, <1>4, <1>5, <1>6, <1>7, <1>8, BusyMoves DEF ActorOK

\* The log thread moves to p with h in its hands, which is cur.
RunGoes(p, h) ==
    /\ pc' = [pc EXCEPT ![LogThread] = p] /\ hold' = [hold EXCEPT ![LogThread] = h]
    /\ want' = want

\* The log thread moves.
LEMMA LogMove ==
    ASSUME ActorOK, ThreadInv, LogInv, NEW p \in InRun, NEW h \in {0} \cup Ids, RunGoes(p, h),
           cur' \in LogData \cup {None},
           p \in {"handle", "keep"} => cur' \in LogData, h # 0 <=> p \in {"handle", "keep"},
           calls' \in 0 .. MaxCalls, boot' \in 0 .. BootLines
    PROVE  /\ ActorOK' /\ ThreadInv' /\ LogInv'
           /\ Cardinality(Busy) \in Nat
           /\ Cardinality(Busy') = Cardinality(Busy)
                 + (IF p \in {"handle", "keep"} THEN 1 ELSE 0)
                 - (IF pc[LogThread] \in {"handle", "keep"} THEN 1 ELSE 0)
  <1>1. LogThread \in Actors /\ \A u \in Threads : u \in Actors /\ u # LogThread
    BY Constants
  <1>2. pc' \in [Actors -> Places] /\ hold' \in Hands
    BY <1>1 DEF ActorOK, Hands, Places, RunGoes, InRun
  <1>3. /\ pc'[LogThread] = p /\ hold'[LogThread] = h
        /\ \A a \in Actors \ {LogThread} : pc'[a] = pc[a] /\ hold'[a] = hold[a]
    BY <1>1 DEF ActorOK, Hands, RunGoes
  <1>4. ActorOK'
    BY <1>2 DEF ActorOK, Hands, RunGoes
  <1>5. ThreadInv'
    BY <1>1, <1>3 DEF ThreadInv, RunGoes
  <1>6. LogInv'
    BY <1>1, <1>3 DEF LogInv, InRun
  <1>7. p \in InLog \cup {"handle"} <=> p \in {"handle", "keep"}
    BY DEF InLog, InRun
  <1>8. pc[LogThread] \in InLog \cup {"handle"} <=> pc[LogThread] \in {"handle", "keep"}
    BY DEF LogInv, InLog, InRun
  <1>9. QED  BY <1>1, <1>2, <1>3, <1>4, <1>5, <1>6, <1>7, <1>8, BusyMoves DEF ActorOK

\* makeLogData finds memory when a thread is about to make a LogData, and so
\* does the log thread for a line of its own.
LEMMA MayMake ==
    ASSUME ActInv, (\E t \in Threads : pc[t] = "make") \/ boot > 0
    PROVE  Len(_logs) + Cardinality(Holders) < MaxCalls + BootLines
  <1>1. /\ Len(_logs) \in Nat /\ Len(_freeLogDatas) \in Nat
        /\ calls \in 0 .. MaxCalls /\ boot \in 0 .. BootLines
        /\ MaxCalls \in Nat /\ BootLines \in Nat
    BY Constants DEF ActInv, ActorOK, QueueOK
  <1>2. Holders \subseteq Busy
    BY DEF ActInv, ThreadInv, LogInv, Holders, Busy, InLog, Actors
  <1>3. IsFiniteSet(Busy) /\ Cardinality(Busy) \in Nat /\ Cardinality(Holders) \in Nat
    BY ActorsFinite
  <1>4. Cardinality(Holders) <= Cardinality(Busy)
    BY <1>2, <1>3, FS_Subset
  <1>5. CASE boot > 0
    BY <1>1, <1>3, <1>4, <1>5 DEF ActInv, Budget
  <1>6. ASSUME NEW t \in Threads, pc[t] = "make"
        PROVE  Cardinality(Holders) < Cardinality(Busy)
    <2>1. t \in Busy /\ t \notin Holders
      BY <1>6, Constants DEF ActInv, ThreadInv, Holders, Busy, InLog
    <2>2. Holders \in SUBSET (Busy \ {t})
      BY <1>2, <2>1
    <2>3. IsFiniteSet(Busy \ {t}) /\ Cardinality(Busy \ {t}) = Cardinality(Busy) - 1
      BY <1>3, <2>1, FS_RemoveElement
    <2>4. Cardinality(Holders) <= Cardinality(Busy \ {t})
      BY <2>2, <2>3, FS_Subset
    <2>5. QED  BY <1>3, <2>3, <2>4
  <1>7. CASE \E t \in Threads : pc[t] = "make"
    BY <1>1, <1>3, <1>6, <1>7 DEF ActInv, Budget
  <1>8. QED  BY <1>5, <1>7

\* The end of a call, and of the handling of a LogData.
LEMMA ReturnedFacts ==
    ASSUME ActorOK
    PROVE  /\ \A t \in Threads : Returned(t) =>
                 pc' = [pc EXCEPT ![t] = "idle"] /\ want' = [want EXCEPT ![t] = None] /\ cur' = cur
           /\ Returned(LogThread) =>
                 pc' = [pc EXCEPT ![LogThread] = "pop"] /\ want' = want /\ cur' = None
  <1>1. \A t \in Threads : t # LogThread
    BY Constants
  <1>2. want \in [Threads -> Call \cup {None}]
    BY DEF ActorOK
  <1>3. ASSUME NEW t \in Threads, Returned(t)
        PROVE  pc' = [pc EXCEPT ![t] = "idle"] /\ want' = [want EXCEPT ![t] = None] /\ cur' = cur
    BY <1>1, <1>2, <1>3 DEF Returned
  <1>4. ASSUME Returned(LogThread)
        PROVE  pc' = [pc EXCEPT ![LogThread] = "pop"] /\ want' = want /\ cur' = None
    BY <1>1, <1>2, <1>4 DEF Returned
  <1>5. QED  BY <1>3, <1>4

\* The parts of the invariant the steps need.
LEMMA ActFacts ==
    ASSUME ActInv
    PROVE  /\ ActorOK /\ ThreadInv /\ LogInv /\ Apart(_logs, _freeLogDatas, hold) /\ Budget
           /\ _logs \in Seq(LogData) /\ _freeLogDatas \in Seq(Ids) /\ hold \in Hands
           /\ Len(_logs) \in Nat /\ Len(_freeLogDatas) \in Nat
           /\ calls \in 0 .. MaxCalls /\ calls \in Nat /\ boot \in 0 .. BootLines
           /\ MaxCalls \in Nat /\ BootLines \in Nat
           /\ pc \in [Actors -> Places] /\ want \in [Threads -> Call \cup {None}]
           /\ cur \in LogData \cup {None}
  BY Constants DEF ActInv, ActorOK, QueueOK

\* What is left of the budget b after a step from n, c, m to x, d, y.
LEMMA BudgetArithmetic ==
    ASSUME NEW k \in Int, NEW n \in Int, NEW x \in Int, NEW c \in Int, NEW d \in Int,
           NEW m \in Int, NEW y \in Int, NEW b \in Int,
           k + n <= c + (b - m), x - (d - y) <= n - (c - m)
    PROVE  k + x <= d + (b - y)
  OBVIOUS

\* A step that leaves the queue, the list and the hands alone.
LEMMA QuietAct ==
    ASSUME ActInv, ActorOK', ThreadInv', LogInv', UNCHANGED <<queue, hold>>,
           Cardinality(Busy) \in Nat, Cardinality(Busy') \in Nat,
           Cardinality(Busy') - (calls' - boot') <= Cardinality(Busy) - (calls - boot)
    PROVE  ActInv'
  <1>1. QueueOK' /\ Apart(_logs, _freeLogDatas, hold)'
    BY DEF ActInv, QueueOK, queue, Apart
  <1>2. /\ calls \in Int /\ boot \in Int /\ calls' \in Int /\ boot' \in Int
        /\ Len(_logs) \in Nat /\ Len(_freeLogDatas) \in Nat /\ BootLines \in Nat
    BY ActFacts, Constants DEF ActorOK
  <1>3. Budget'
    <2>1. Len(_logs)' = Len(_logs) /\ Len(_freeLogDatas)' = Len(_freeLogDatas)
      BY DEF queue
    <2>2. Len(_logs) + Len(_freeLogDatas) + Cardinality(Busy) <= calls + (BootLines - boot)
      BY DEF ActInv, Budget
    <2>3. Len(_logs) + Len(_freeLogDatas) + Cardinality(Busy') <= calls' + (BootLines - boot')
      <3>1. Len(_logs) + Len(_freeLogDatas) \in Int
        BY <1>2
      <3>2. Cardinality(Busy') \in Int /\ Cardinality(Busy) \in Int /\ BootLines \in Int
        BY <1>2
      <3>3. Cardinality(Busy') - (calls' - boot') <= Cardinality(Busy) - (calls - boot)
        OBVIOUS
      <3>4. QED  BY ONLY <1>2, <2>2, <3>1, <3>2, <3>3, BudgetArithmetic
    <2>4. QED  BY <2>1, <2>3 DEF Budget
  <1>4. QED  BY <1>1, <1>3 DEF ActInv

\* Calls that begin, and hotChange, move a thread and nothing else.
LEMMA BeginStep ==
    ASSUME IndInv, NEW t \in Threads,
           hotChange(t) \/ hotChangeDirect(t) \/ \E c \in Requests : Log(t, c) \/ Set(t, c)
    PROVE  ActInv'
  <1>0. ActInv
    BY DEF IndInv
  <1> USE <1>0, ActFacts
  <1>1. ASSUME NEW c \in Requests, Log(t, c) \/ Set(t, c)  PROVE ActInv'
    <2>1. /\ pc[t] = "idle" /\ calls < MaxCalls /\ calls' = calls + 1 /\ c \in Call
          /\ UNCHANGED <<hold, cur, boot, queue>>
      BY <1>1 DEF Log, Set, Requests
    <2>2. calls' \in 0 .. MaxCalls /\ boot' \in 0 .. BootLines /\ hold[t] = 0 /\ t \in Actors
      BY <2>1, Constants, SMTT(30) DEF ThreadInv
    <2>3. CASE UNCHANGED <<pc, want>>
      <3>1. ActorOK' /\ ThreadInv' /\ LogInv' /\ Busy' = Busy
        BY <2>1, <2>2, <2>3 DEF ActorOK, ThreadInv, LogInv, Busy
      <3>2. QED  BY <2>1, <3>1, QuietAct, ActorsFinite
    <2>4. ASSUME NEW p \in {"make", "test"}, pc' = [pc EXCEPT ![t] = p], want' = [want EXCEPT ![t] = c]
          PROVE  ActInv'
      <3>1. Moves(t, p, 0, c)
        BY <2>1, <2>2, <2>4 DEF Moves, Hands
      <3>2. p \in InLog /\ p \notin {"check", "push", "keep"} /\ pc[t] \notin InLog
        BY <2>1, <2>4 DEF InLog
      <3>3. /\ ActorOK' /\ ThreadInv' /\ LogInv'
            /\ Cardinality(Busy) \in Nat
            /\ Cardinality(Busy') = Cardinality(Busy) + 1
        BY <2>1, <2>2, <3>1, <3>2, ThreadMove
      <3>4. QED  BY <2>1, <3>3, QuietAct, SMTT(30)
    <2>5. QED  BY <1>1, <2>3, <2>4 DEF Log, Set
  <1>2. CASE hotChange(t)
    <2>1. PICK p \in {"make", "direct"} : pc' = [pc EXCEPT ![t] = p]
      BY <1>2 DEF hotChange
    <2>2. pc[t] = "test" /\ UNCHANGED <<hold, want, cur, calls, boot, queue>>
      BY <1>2 DEF hotChange
    <2>3. hold[t] = 0 /\ want[t] \in Call /\ t \in Actors
      BY <2>2, Constants DEF ThreadInv, InLog
    <2>4. Moves(t, p, 0, want[t])
      BY <2>1, <2>2, <2>3 DEF Moves, Hands
    <2>5. p \in InLog /\ p \notin {"check", "push", "keep"} /\ pc[t] \in InLog
      BY <2>1, <2>2 DEF InLog
    <2>6. /\ ActorOK' /\ ThreadInv' /\ LogInv'
          /\ Cardinality(Busy) \in Nat /\ Cardinality(Busy') = Cardinality(Busy)
      BY <2>2, <2>3, <2>4, <2>5, ThreadMove
    <2>7. QED  BY <2>2, <2>6, QuietAct
  <1>3. CASE hotChangeDirect(t)
    <2>1. pc[t] = "direct" /\ Returned(t) /\ UNCHANGED <<hold, calls, boot, queue>>
      BY <1>3 DEF hotChangeDirect
    <2>2. hold[t] = 0 /\ t \in Actors
      BY <2>1, Constants DEF ThreadInv
    <2>3. Moves(t, "idle", 0, None)
      BY <2>1, <2>2, ReturnedFacts DEF Moves, Hands
    <2>4. pc[t] \in InLog /\ "idle" \notin InLog
      BY <2>1 DEF InLog
    <2>5. /\ ActorOK' /\ ThreadInv' /\ LogInv'
          /\ Cardinality(Busy) \in Nat /\ Cardinality(Busy') = Cardinality(Busy) - 1
      BY <2>1, <2>3, <2>4, ThreadMove
    <2>6. Cardinality(Busy') \in Nat
      <3>1. t \in Busy
        BY <2>2, <2>4 DEF Busy
      <3>2. Cardinality(Busy) # 0
        BY <3>1, ActorsFinite, FS_EmptySet
      <3>3. QED  BY <2>5, <3>2
    <2>7. QED  BY <2>1, <2>5, <2>6, QuietAct
  <1>4. QED  BY <1>1, <1>2, <1>3

\* A busy thread is counted.
LEMMA SomeBusy ==
    ASSUME NEW a \in Actors, pc[a] \in InLog \cup {"handle"}
    PROVE  Cardinality(Busy) \in Nat /\ Cardinality(Busy) >= 1
  <1>1. a \in Busy
    BY DEF Busy
  <1>2. Cardinality(Busy) # 0
    BY <1>1, ActorsFinite, FS_EmptySet
  <1>3. QED  BY <1>2, ActorsFinite

\* A thread makes its LogData.
LEMMA MakeStep ==
    ASSUME IndInv, NEW t \in Threads, makeLogData(t)
    PROVE  ActInv'
  <1>0. ActInv
    BY DEF IndInv
  <1> USE <1>0, ActFacts
  <1>1. /\ pc[t] = "make" /\ hold' = [hold EXCEPT ![t] = Made.d] /\ _freeLogDatas' = Made.rest
        /\ UNCHANGED <<want, cur, calls, boot, _logs>>
    BY DEF makeLogData
  <1>2. PICK p \in {"check", "push"} : pc' = [pc EXCEPT ![t] = p]
    BY DEF makeLogData
  <1>3. t \in Actors /\ hold[t] = 0 /\ want[t] \in Call
    BY <1>1, Constants DEF ThreadInv, InLog
  <1>4. /\ Made.d \in Ids /\ Made.rest \in Seq(Ids)
        /\ Len(Made.rest) <= Len(_freeLogDatas) /\ Len(Made.rest) \in Nat
        /\ Apart(_logs, Made.rest, hold)
        /\ Fresh(Made.d, _logs, Made.rest, hold)
    BY <1>1, MayMake, MadeFacts
  <1>5. Apart(_logs', _freeLogDatas', hold')
    BY <1>1, <1>3, <1>4, Take
  <1>6. Made.d # 0
    BY <1>4 DEF Ids
  <1>7. Moves(t, p, Made.d, want[t])
    BY <1>1, <1>2, <1>3 DEF Moves
  <1>8. p \in InLog /\ pc[t] \in InLog
    BY <1>1, <1>2 DEF InLog
  <1>9. /\ ActorOK' /\ ThreadInv' /\ LogInv'
        /\ Cardinality(Busy) \in Nat /\ Cardinality(Busy') = Cardinality(Busy)
    BY <1>1, <1>3, <1>4, <1>6, <1>7, <1>8, ThreadMove
  <1>10. Budget'
    <2>1. Len(_logs) + Len(_freeLogDatas) + Cardinality(Busy) <= calls + (BootLines - boot)
      BY DEF Budget
    <2>2. Len(_logs) + Len(Made.rest) + Cardinality(Busy) <= calls + (BootLines - boot)
      BY <1>4, <1>9, <2>1, SMTT(30)
    <2>3. QED  BY <1>1, <1>9, <2>2 DEF Budget
  <1>11. QueueOK'
    BY <1>1, <1>4 DEF QueueOK
  <1>12. QED  BY <1>5, <1>9, <1>10, <1>11 DEF ActInv

\* freeLogData, called by thread t or by the log thread.
LEMMA FreeStep ==
    ASSUME IndInv, NEW a \in Actors, freeLogData(a), UNCHANGED <<calls, boot, queue>>,
           pc[a] = (IF a = LogThread THEN "handle" ELSE "check")
    PROVE  ActInv'
  <1>0. ActInv
    BY DEF IndInv
  <1> USE <1>0, ActFacts
  <1>1. CASE KeepsFree
    <2>1. pc' = [pc EXCEPT ![a] = "keep"] /\ UNCHANGED <<hold, want, cur>>
      BY <1>1 DEF freeLogData
    <2>2. hold = [hold EXCEPT ![a] = hold[a]] /\ hold[a] \in {0} \cup Ids
      BY DEF Hands
    <2>3. CASE a = LogThread
      <3>0. hold[a] # 0 /\ cur \in LogData
        BY <2>3 DEF LogInv
      <3>1. RunGoes("keep", hold[a]) /\ "keep" \in InRun
        BY <2>1, <2>2, <2>3 DEF RunGoes, InRun
      <3>2. /\ ActorOK' /\ ThreadInv' /\ LogInv'
            /\ Cardinality(Busy) \in Nat /\ Cardinality(Busy') = Cardinality(Busy)
        BY <2>1, <2>2, <2>3, <3>1, <3>0, LogMove
      <3>3. QED  BY <2>1, <3>2, QuietAct
    <2>4. CASE a # LogThread
      <3>1. a \in Threads
        BY <2>4 DEF Actors
      <3>2. hold[a] # 0 /\ want[a] \in Call /\ pc[a] \in InLog /\ "keep" \in InLog
        BY <2>4, <3>1 DEF ThreadInv, InLog
      <3>3. Moves(a, "keep", hold[a], want[a])
        BY <2>1, <2>2, <3>1 DEF Moves
      <3>4. /\ ActorOK' /\ ThreadInv' /\ LogInv'
            /\ Cardinality(Busy) \in Nat /\ Cardinality(Busy') = Cardinality(Busy)
        BY <2>2, <3>1, <3>2, <3>3, ThreadMove
      <3>5. QED  BY <2>1, <3>4, QuietAct
    <2>5. QED  BY <2>3, <2>4
  <1>2. CASE ~KeepsFree
    <2>1. hold' = [hold EXCEPT ![a] = 0] /\ Returned(a)
      BY <1>2 DEF freeLogData
    <2>2. /\ ActorOK' /\ ThreadInv' /\ LogInv'
          /\ Cardinality(Busy) \in Nat /\ Cardinality(Busy') = Cardinality(Busy) - 1
          /\ hold[a] # 0
      <3>1. CASE a = LogThread
        <4>1. RunGoes("pop", 0) /\ cur' = None /\ "pop" \in InRun /\ hold[a] # 0
          BY <2>1, <3>1, ReturnedFacts DEF RunGoes, InRun, LogInv
        <4>2. QED  BY <3>1, <4>1, LogMove
      <3>2. CASE a # LogThread
        <4>1. a \in Threads
          BY <3>2 DEF Actors
        <4>2. hold[a] # 0 /\ pc[a] \in InLog /\ "idle" \notin InLog
          BY <3>2, <4>1 DEF ThreadInv, InLog
        <4>3. Moves(a, "idle", 0, None)
          BY <2>1, <4>1, ReturnedFacts DEF Moves
        <4>4. QED  BY <4>1, <4>2, <4>3, ThreadMove
      <3>3. QED  BY <3>1, <3>2
    <2>3. Apart(_logs', _freeLogDatas', hold')
      <3>1. Apart(_logs, _freeLogDatas, hold')
        BY <2>1, <2>2, Release
      <3>2. QED  BY <3>1 DEF queue
    <2>4. Budget'
      <3>1. Len(_logs) + Len(_freeLogDatas) + Cardinality(Busy) <= calls + (BootLines - boot)
        BY DEF Budget
      <3>2. Len(_logs) + Len(_freeLogDatas) + (Cardinality(Busy) - 1) <= calls + (BootLines - boot)
        BY <2>2, <3>1
      <3>3. QED  BY <2>2, <3>2 DEF Budget, queue
    <2>5. QED  BY <2>2, <2>3, <2>4 DEF ActInv, QueueOK, queue
  <1>3. QED  BY <1>1, <1>2

\* pushLog goes on, or gives the LogData back.
LEMMA PushStep ==
    ASSUME IndInv, NEW t \in Threads, pushLog(t)
    PROVE  ActInv'
  <1>0. ActInv
    BY DEF IndInv
  <1> USE <1>0, ActFacts
  <1>1. pc[t] = "check" /\ UNCHANGED <<calls, boot, queue>> /\ t \in Actors /\ t # LogThread
    BY Constants DEF pushLog
  <1>2. CASE freeLogData(t)
    BY <1>1, <1>2, FreeStep
  <1>3. CASE pc' = [pc EXCEPT ![t] = "push"] /\ UNCHANGED <<hold, want, cur>>
    <2> DEFINE h == hold[t]
               w == want[t]
    <2>1. /\ h # 0 /\ w \in Call /\ pc[t] \in InLog /\ "push" \in InLog /\ h \in {0} \cup Ids
          /\ calls' \in 0 .. MaxCalls /\ boot' \in 0 .. BootLines
      BY <1>1 DEF ThreadInv, InLog, Hands
    <2>2. Moves(t, "push", h, w)
      BY <1>1, <1>3, <2>1 DEF Moves, Hands
    <2> HIDE DEF h, w
    <2>3. /\ ActorOK' /\ ThreadInv' /\ LogInv'
          /\ Cardinality(Busy) \in Nat /\ Cardinality(Busy') = Cardinality(Busy)
      BY <2>1, <2>2, ThreadMove
    <2>4. QED  BY <1>1, <1>3, <2>3, QuietAct
  <1>4. QED  BY <1>2, <1>3 DEF pushLog

\* A LogData that is made and filled fits the queue.
LEMMA EnteringFacts ==
    ASSUME NEW d \in Ids, NEW c \in Call, NEW a \in Actors, NEW n \in Nat
    PROVE  Entering(d, c, <<a, n>>) \in LogData /\ Entering(d, c, <<a, n>>).d = d
  <1>1. <<a, n>> \in Actors \X Nat
    OBVIOUS
  <1>2. (c.id \in restricted) \in BOOLEAN /\ (~_runing) \in BOOLEAN
    OBVIOUS
  <1>3. QED  BY <1>1, <1>2 DEF Entering, LogData

\* A thread's LogData enters the queue.
LEMMA PushesStep ==
    ASSUME IndInv, NEW t \in Threads, pushLogs(t)
    PROVE  ActInv'
  <1>0. ActInv
    BY DEF IndInv
  <1> USE <1>0, ActFacts
  <1> DEFINE x == Entering(hold[t], want[t], <<t, calls>>)
  <1>1. /\ pc[t] = "push" /\ _logs' = Append(_logs, x) /\ hold' = [hold EXCEPT ![t] = 0]
        /\ Returned(t) /\ UNCHANGED <<calls, boot, _freeLogDatas>>
    BY DEF pushLogs
  <1>2. /\ t \in Actors /\ t # LogThread /\ hold[t] # 0 /\ hold[t] \in Ids /\ want[t] \in Call
        /\ pc[t] \in InLog /\ "idle" \notin InLog
    BY <1>1, Constants DEF ThreadInv, InLog, Hands
  <1>3. x \in LogData /\ x.d = hold[t]
    BY <1>2, EnteringFacts
  <1> HIDE DEF x
  <1>4. hold' \in Hands /\ Apart(_logs, _freeLogDatas, hold') /\ Fresh(hold[t], _logs, _freeLogDatas, hold')
    BY <1>1, <1>2, Release
  <1>5. _logs' \in Seq(LogData) /\ Apart(_logs', _freeLogDatas', hold')
    BY <1>1, <1>3, <1>4, Enqueue
  <1>6. Moves(t, "idle", 0, None)
    BY <1>1, <1>2, ReturnedFacts DEF Moves
  <1>7. /\ ActorOK' /\ ThreadInv' /\ LogInv'
        /\ Cardinality(Busy) \in Nat /\ Cardinality(Busy') = Cardinality(Busy) - 1
    BY <1>1, <1>2, <1>6, ThreadMove
  <1>8. Len(_logs') = Len(_logs) + 1
    BY <1>1, <1>3, AppendFacts
  <1>9. Budget'
    <2>1. Len(_logs) + Len(_freeLogDatas) + Cardinality(Busy) <= calls + (BootLines - boot)
      BY DEF Budget
    <2>2. Len(_logs) + 1 + Len(_freeLogDatas) + (Cardinality(Busy) - 1) <= calls + (BootLines - boot)
      BY <1>7, <2>1
    <2>3. QED  BY <1>1, <1>7, <1>8, <2>2 DEF Budget
  <1>10. QED  BY <1>1, <1>5, <1>7, <1>9 DEF ActInv, QueueOK

\* A LogData is kept for reuse.
LEMMA KeepStep ==
    ASSUME IndInv, NEW a \in Actors, keepLogData(a)
    PROVE  ActInv'
  <1>0. ActInv
    BY DEF IndInv
  <1> USE <1>0, ActFacts
  <1>1. /\ pc[a] = "keep" /\ _freeLogDatas' = Append(_freeLogDatas, hold[a])
        /\ hold' = [hold EXCEPT ![a] = 0]
        /\ Returned(a) /\ UNCHANGED <<calls, boot, _logs>>
    BY DEF keepLogData
  <1>2. hold[a] # 0 /\ hold[a] \in Ids
    BY <1>1 DEF ThreadInv, LogInv, Hands, Actors
  <1>3. hold' \in Hands /\ Apart(_logs, _freeLogDatas, hold') /\ Fresh(hold[a], _logs, _freeLogDatas, hold')
    BY <1>1, <1>2, Release
  <1>4. _freeLogDatas' \in Seq(Ids) /\ Apart(_logs', _freeLogDatas', hold')
    BY <1>1, <1>2, <1>3, Keep
  <1>5. /\ ActorOK' /\ ThreadInv' /\ LogInv'
        /\ Cardinality(Busy) \in Nat /\ Cardinality(Busy') = Cardinality(Busy) - 1
    <2>1. CASE a = LogThread
      <3>1. RunGoes("pop", 0) /\ cur' = None /\ "pop" \in InRun
        BY <1>1, <2>1, ReturnedFacts DEF RunGoes, InRun
      <3>2. QED  BY <1>1, <2>1, <3>1, LogMove
    <2>2. CASE a # LogThread
      <3>1. a \in Threads /\ pc[a] \in InLog /\ "idle" \notin InLog
        BY <1>1, <2>2 DEF Actors, InLog
      <3>2. Moves(a, "idle", 0, None)
        BY <1>1, <3>1, ReturnedFacts DEF Moves
      <3>3. QED  BY <1>1, <3>1, <3>2, ThreadMove
    <2>3. QED  BY <2>1, <2>2
  <1>6. Len(_freeLogDatas') = Len(_freeLogDatas) + 1
    BY <1>1, <1>2, AppendFacts
  <1>7. Budget'
    <2>1. Len(_logs) + Len(_freeLogDatas) + Cardinality(Busy) <= calls + (BootLines - boot)
      BY DEF Budget
    <2>2. Len(_logs) + (Len(_freeLogDatas) + 1) + (Cardinality(Busy) - 1) <= calls + (BootLines - boot)
      BY <1>5, <2>1
    <2>3. QED  BY <1>1, <1>5, <1>6, <2>2 DEF Budget
  <1>8. QED  BY <1>1, <1>4, <1>5, <1>7 DEF ActInv, QueueOK

\* The log thread logs a line of its own.
LEMMA BootStep ==
    ASSUME IndInv, runLogs
    PROVE  ActInv'
  <1>0. ActInv
    BY DEF IndInv
  <1> USE <1>0, ActFacts
  <1> DEFINE c == [type |-> "general", id |-> 0, num |-> MaxLevel]
             x == Entering(Made.d, c, <<LogThread, BootLines - boot>>)
  <1>1. boot > 0 /\ boot' = boot - 1 /\ UNCHANGED <<pc, hold, want, cur, calls>>
    BY DEF runLogs
  <1>2. boot' \in 0 .. BootLines
    BY <1>1
  <1>3. ActorOK' /\ ThreadInv' /\ LogInv' /\ Busy' = Busy /\ Cardinality(Busy) \in Nat
    BY <1>1, <1>2, ActorsFinite DEF ActorOK, ThreadInv, LogInv, Busy
  <1>4. CASE UNCHANGED queue
    BY <1>1, <1>3, <1>4, QuietAct
  <1>5. CASE _freeLogDatas' = Made.rest /\ _logs' = Append(_logs, x)
    <2>1. /\ Made.d \in Ids /\ Made.rest \in Seq(Ids)
          /\ Len(Made.rest) <= Len(_freeLogDatas) /\ Len(Made.rest) \in Nat
          /\ Apart(_logs, Made.rest, hold)
          /\ Fresh(Made.d, _logs, Made.rest, hold)
      BY <1>1, MayMake, MadeFacts
    <2>2. c \in Call
      BY Constants DEF Call, Types, Loggers, Levels
    <2> HIDE DEF c
    <2>3. LogThread \in Actors /\ BootLines - boot \in Nat
      BY Constants
    <2>4. x \in LogData /\ x.d = Made.d
      BY <2>1, <2>2, <2>3, EnteringFacts
    <2> HIDE DEF x
    <2>5. _logs' \in Seq(LogData) /\ Apart(_logs', _freeLogDatas', hold')
      BY <1>1, <1>5, <2>1, <2>4, Enqueue
    <2>6. Len(_logs') = Len(_logs) + 1
      BY <1>5, <2>4, AppendFacts
    <2>7. Budget'
      <3>1. Len(_logs) + Len(_freeLogDatas) + Cardinality(Busy) <= calls + (BootLines - boot)
        BY DEF Budget
      <3>2. PICK n \in Nat : n = Len(Made.rest) /\ n <= Len(_freeLogDatas)
        BY <2>1
      <3>3. Len(_logs) + 1 + n + Cardinality(Busy) <= calls + (BootLines - (boot - 1))
        <4>1. n <= Len(_freeLogDatas)
          BY <3>2
        <4>2. QED  BY <1>3, <3>1, <4>1, SMTT(30)
      <3>4. QED  BY <1>1, <1>3, <1>5, <2>6, <3>2, <3>3 DEF Budget
    <2>8. QED  BY <1>3, <1>5, <2>1, <2>5, <2>7 DEF ActInv, QueueOK
  <1>6. QED  BY <1>4, <1>5 DEF runLogs

\* The log thread takes the oldest LogData.
LEMMA PopStep ==
    ASSUME IndInv, popLog
    PROVE  ActInv'
  <1>0. ActInv
    BY DEF IndInv
  <1> USE <1>0, ActFacts
  <1>1. /\ pc[LogThread] = "pop" /\ UNCHANGED <<want, calls, boot, _freeLogDatas>>
        /\ hold[LogThread] = 0 /\ LogThread \in Actors
    BY Constants DEF popLog, LogInv
  <1>2. CASE _logs = <<>>
    <2>1. pc' = [pc EXCEPT ![LogThread] = "flush"] /\ UNCHANGED <<hold, cur, _logs>>
      BY <1>2 DEF popLog
    <2>2. RunGoes("flush", 0) /\ "flush" \in InRun
      BY <1>1, <2>1 DEF RunGoes, InRun, Hands
    <2>3. /\ ActorOK' /\ ThreadInv' /\ LogInv'
          /\ Cardinality(Busy) \in Nat /\ Cardinality(Busy') = Cardinality(Busy)
      BY <1>1, <2>1, <2>2, LogMove
    <2>4. QED  BY <1>1, <2>1, <2>3, QuietAct DEF queue
  <1>3. CASE _logs # <<>>
    <2>1. PICK x \in LogData :
             /\ x = Head(_logs) /\ RemoveAt(_logs, Oldest) = Tail(_logs) /\ _logs[Oldest] = x
             /\ Tail(_logs) \in Seq(LogData) /\ Len(Tail(_logs)) = Len(_logs) - 1
      BY <1>3, PopFacts
    <2>2. PICK d \in Ids : d = x.d /\ d # 0
      BY DEF LogData, Ids
    <2>3. /\ pc' = [pc EXCEPT ![LogThread] = "handle"]
          /\ hold' = [hold EXCEPT ![LogThread] = d]
          /\ cur' = x /\ _logs' = Tail(_logs)
      BY <1>3, <2>1, <2>2 DEF popLog
    <2>4. Apart(Tail(_logs), _freeLogDatas, hold) /\ Fresh(d, Tail(_logs), _freeLogDatas, hold)
      BY <1>3, <2>1, <2>2, Dequeue
    <2>5. Apart(_logs', _freeLogDatas', hold')
      BY <1>1, <2>2, <2>3, <2>4, Take
    <2>6. RunGoes("handle", d) /\ "handle" \in InRun
      BY <1>1, <2>3 DEF RunGoes, InRun
    <2>7. /\ ActorOK' /\ ThreadInv' /\ LogInv'
          /\ Cardinality(Busy) \in Nat /\ Cardinality(Busy') = Cardinality(Busy) + 1
      <3>1. /\ d # 0 /\ cur' \in LogData /\ pc[LogThread] \notin {"handle", "keep"}
            /\ calls' \in 0 .. MaxCalls /\ boot' \in 0 .. BootLines
        BY <1>1, <2>2, <2>3
      <3>2. d \in {0} \cup Ids /\ cur' \in LogData \cup {None}
        BY <3>1
      <3>3. ActorOK /\ ThreadInv /\ LogInv
        OBVIOUS
      <3>4. QED  BY ONLY <2>6, <3>1, <3>2, <3>3, LogMove
    <2>8. Budget'
      <3>1. Len(_logs) + Len(_freeLogDatas) + Cardinality(Busy) <= calls + (BootLines - boot)
        BY DEF Budget
      <3>2. (Len(_logs) - 1) + Len(_freeLogDatas) + (Cardinality(Busy) + 1) <= calls + (BootLines - boot)
        BY <2>7, <3>1
      <3>3. QED  BY <1>1, <2>1, <2>3, <2>7, <3>2 DEF Budget
    <2>9. QED  BY <1>1, <2>1, <2>3, <2>5, <2>7, <2>8 DEF ActInv, QueueOK
  <1>4. QED  BY <1>2, <1>3

\* The steps of the log thread that touch no LogData.
LEMMA QuietRun ==
    ASSUME IndInv, start \/ runStarts \/ runPosts \/ runFlushes \/ runQuits
    PROVE  ActInv'
  <1>0. ActInv
    BY DEF IndInv
  <1> USE <1>0, ActFacts
  <1>1. /\ pc[LogThread] \in {"none", "start", "boot", "flush", "quit"}
        /\ UNCHANGED <<hold, want, cur, calls, boot, queue>>
    BY DEF start, runStarts, runPosts, runFlushes, runQuits, At, IndInv, RunInv
  <1>2. PICK p \in {"start", "boot", "pop", "quit", "done"} : pc' = [pc EXCEPT ![LogThread] = p]
    BY DEF start, runStarts, runPosts, runFlushes, runQuits, At
  <1>3. hold[LogThread] = 0 /\ LogThread \in Actors
    BY <1>1, Constants DEF LogInv
  <1>4. RunGoes(p, 0) /\ p \in InRun
    BY <1>1, <1>2, <1>3 DEF RunGoes, InRun, Hands
  <1>5. /\ ActorOK' /\ ThreadInv' /\ LogInv'
        /\ Cardinality(Busy) \in Nat /\ Cardinality(Busy') = Cardinality(Busy)
    BY <1>1, <1>2, <1>4, LogMove, SMTT(30)
  <1>6. QED  BY <1>1, <1>5, QuietAct

\* Every step keeps the threads and the LogDatas apart.
LEMMA StepAct == ASSUME IndInv, [Next]_vars PROVE ActInv'
  <1>1. ASSUME NEW t \in Threads, InCall(t) \/ \E c \in Requests : Log(t, c) \/ Set(t, c)
        PROVE  ActInv'
    BY <1>1, BeginStep, MakeStep, PushStep, PushesStep, KeepStep, Constants DEF InCall
  <1>2. CASE handleChange \/ handleDiscard \/ \E o, w \in BOOLEAN : handleLog(o, w)
    <2>1. pc[LogThread] = "handle" /\ freeLogData(LogThread) /\ UNCHANGED <<calls, boot, queue>>
      BY <1>2 DEF handleChange, handleDiscard, handleLog
    <2>2. QED  BY <2>1, FreeStep, Constants
  <1>3. CASE UNCHANGED actors /\ UNCHANGED queue
    <2>1. ActInv
      BY DEF IndInv
    <2>2. ActorOK' /\ ThreadInv' /\ LogInv' /\ Busy' = Busy /\ Cardinality(Busy) \in Nat
      BY <1>3, <2>1, ActorsFinite DEF ActInv, actors, ActorOK, ThreadInv, LogInv, Busy
    <2>3. calls \in Int /\ boot \in Int /\ UNCHANGED <<calls, boot, hold>>
      BY <1>3, <2>1, ActFacts DEF actors
    <2>4. QED  BY <1>3, <2>1, <2>2, <2>3, QuietAct
  <1>4. CASE stop \/ stopReturns \/ (\E ok \in BOOLEAN : startReturns(ok)) \/ UNCHANGED vars
    BY <1>3, <1>4 DEF stop, stopReturns, startReturns, vars
  <1>5. CASE Run
    BY <1>2, <1>5, QuietRun, BootStep, PopStep, KeepStep, Constants DEF Run
  <1>6. QED  BY <1>1, <1>4, <1>5, QuietRun DEF Next, Application, Returns

\* Initially no LogData has been made.
LEMMA InitInv == Init => IndInv
  <1> SUFFICES ASSUME Init PROVE IndInv
    OBVIOUS
  <1>1. StateOK /\ GhostOK
    <2>1. StateOK
      <3>1. startOk \in BOOLEAN /\ _runing \in BOOLEAN
        BY Zenon DEF Init
      <3>2. QED  BY <3>1 DEF Init, StateOK
    <2>2. GhostOK
      BY DEF Init, GhostOK
    <2>3. QED  BY <2>1, <2>2
  <1>2. /\ LogThread \in Actors /\ pc[LogThread] = "none" /\ hold[LogThread] = 0
        /\ \A t \in Threads : t \in Actors /\ pc[t] = "idle" /\ hold[t] = 0
        /\ \A a \in Actors : pc[a] \in {"none", "idle"} /\ hold[a] = 0
    BY Constants DEF Init
  <1>3. RunInv
    BY <1>2 DEF Init, RunInv
  <1>4. OutputOK
    <2>1. 0 \in Levels /\ 0 \in Nat
      BY Constants DEF Levels
    <2>2. [enable |-> TRUE, level |-> 0, outfile |-> TRUE, open |-> FALSE] \in Logger
      BY <2>1 DEF Logger
    <2>3. [written |-> <<>>, flushed |-> 0] \in [written : Seq(Actors \X Nat), flushed : Nat]
      OBVIOUS
    <2>4. QED  BY <2>2, <2>3 DEF Init, OutputOK
  <1>5. ActorOK
    <2>1. pc \in [Actors -> Places] /\ hold \in Hands /\ want \in [Threads -> Call \cup {None}]
      BY DEF Init, Places, Hands
    <2>2. QED  BY <2>1, Constants DEF Init, ActorOK
  <1>6. ThreadInv /\ LogInv
    BY <1>2 DEF ThreadInv, LogInv, InLog, InRun
  <1>7. QueueOK /\ Apart(_logs, _freeLogDatas, hold)
    BY <1>2 DEF Init, QueueOK, Apart
  <1>8. Budget
    <2>1. Busy = {}
      BY <1>2 DEF Busy, InLog
    <2>2. Cardinality(Busy) = 0
      BY <2>1, FS_EmptySet
    <2>3. QED  BY <2>2, Constants DEF Init, Budget
  <1>9. QED  BY <1>1, <1>3, <1>4, <1>5, <1>6, <1>7, <1>8 DEF IndInv, ActInv

\* The invariant holds of every state.
LEMMA Invariance == Spec => []IndInv
  <1>1. IndInv /\ [Next]_vars => IndInv'
    BY StepRun, StepOut, StepAct DEF IndInv
  <1>2. QED  BY <1>1, InitInv, PTL DEF Spec

\* A LogData is queued once, kept for reuse once, or in the hands of one
\* thread: makeLogData and freeLogData share them among any number of threads
\* without giving one to two.
THEOREM OnePlaceTheorem == Spec => []OnePlace
  BY Invariance, IndImplies, PTL

-----------------------------------------------------------------------------
(* What is in the queue when run ends.                                     *)

\* Only logs pushed after stop are left behind.
LateInv == pc[LogThread] = "done" => \A i \in DOMAIN _logs : _logs[i].late

\* The LogData d of a line the log thread logs about itself.
Line(d) == Entering(d, [type |-> "general", id |-> 0, num |-> MaxLevel], <<LogThread, BootLines - boot>>)

\* What a step does to the queue.
LEMMA QueueSteps ==
    ASSUME IndInv, [Next]_vars
    PROVE  \/ _logs' = _logs /\ (pc'[LogThread] = "handle" => pc[LogThread] = "handle" /\ cur' = cur)
           \/ \E t \in Threads :
                 pushLogs(t) /\ _logs' = Append(_logs, Entering(hold[t], want[t], <<t, calls>>))
           \/ runLogs /\ _logs' = Append(_logs, Line(Made.d))
           \/ /\ popLog /\ _logs # <<>> /\ cur' = Head(_logs) /\ _logs' = Tail(_logs)
              /\ pc[LogThread] = "pop"
  <1>0. /\ LogThread \in Actors /\ pc \in [Actors -> Places] /\ _logs \in Seq(LogData)
        /\ \A t \in Threads : t # LogThread
    BY Constants DEF IndInv, ActInv, ActorOK, QueueOK
  <1>1. ASSUME NEW t \in Threads, \/ hotChange(t) \/ hotChangeDirect(t) \/ makeLogData(t) \/ pushLog(t)
                                  \/ keepLogData(t) \/ \E c \in Requests : Log(t, c) \/ Set(t, c)
        PROVE  _logs' = _logs /\ cur' = cur /\ pc'[LogThread] = pc[LogThread]
    <2>1. _logs' = _logs /\ cur' = cur
      BY <1>0, <1>1 DEF hotChange, hotChangeDirect, makeLogData, pushLog, keepLogData,
         Log, Set, freeLogData, Returned, queue
    <2>2. QED  BY <1>1, <2>1, ThreadLeavesRun DEF InCall
  <1>2. CASE handleChange \/ handleDiscard \/ \E o, w \in BOOLEAN : handleLog(o, w)
    <2>1. pc[LogThread] = "handle" /\ freeLogData(LogThread) /\ _logs' = _logs
      BY <1>2 DEF handleChange, handleDiscard, handleLog, queue
    <2>2. pc'[LogThread] \in {"keep", "pop"}
      BY <1>0, <2>1 DEF freeLogData, Returned
    <2>3. QED  BY <2>1, <2>2
  <1>3. CASE keepLogData(LogThread)
    BY <1>0, <1>3 DEF keepLogData, Returned
  <1>4. CASE runStarts \/ runPosts \/ runFlushes \/ runQuits \/ start
    BY <1>0, <1>4 DEF runStarts, runPosts, runFlushes, runQuits, start, At, queue
  <1>5. CASE stop \/ stopReturns \/ (\E ok \in BOOLEAN : startReturns(ok)) \/ UNCHANGED vars
    BY <1>5 DEF stop, stopReturns, startReturns, vars, actors, queue
  <1>6. CASE runLogs
    <2>1. pc' = pc /\ cur' = cur
      BY <1>6 DEF runLogs
    <2>2. UNCHANGED queue \/ _logs' = Append(_logs, Line(Made.d))
      BY <1>6 DEF runLogs, Line
    <2>3. QED  BY <1>6, <2>1, <2>2 DEF queue
  <1>7. CASE popLog
    <2>1. CASE _logs = <<>>
      BY <1>0, <1>7, <2>1 DEF popLog
    <2>2. CASE _logs # <<>>
      BY <1>0, <1>7, <2>2, PopFacts DEF popLog
    <2>3. QED  BY <2>1, <2>2
  <1>8. ASSUME NEW t \in Threads, pushLogs(t)
        PROVE  _logs' = Append(_logs, Entering(hold[t], want[t], <<t, calls>>))
    BY <1>8 DEF pushLogs
  <1>9. QED
    BY <1>1, <1>2, <1>3, <1>4, <1>5, <1>6, <1>7, <1>8 DEF Next, Application, Returns, Run, InCall

\* run ends once, and with an empty queue.
LEMMA DoneSteps ==
    ASSUME IndInv, [Next]_vars
    PROVE  /\ pc[LogThread] = "done" => pc'[LogThread] = "done"
           /\ pc'[LogThread] = "done" /\ pc[LogThread] # "done" => _logs = <<>> /\ _logs' = <<>>
  <1>0. pc \in [Actors -> Places] /\ LogThread \in Actors /\ RunInv
    BY Constants DEF IndInv, ActInv, ActorOK
  <1>1. CASE Run
    <2>1. CASE runQuits /\ MayQuit
      BY <2>1 DEF runQuits, MayQuit, queue
    <2>2. QED  BY <1>1, <2>1, RunMoves
  <1>2. CASE start
    BY <1>0, <1>2 DEF start, RunInv
  <1>3. CASE stop \/ Returns \/ UNCHANGED vars
    BY <1>3 DEF stop, Returns, stopReturns, startReturns, vars, actors
  <1>4. ASSUME NEW t \in Threads, InCall(t) \/ \E c \in Requests : Log(t, c) \/ Set(t, c)
        PROVE  pc'[LogThread] = pc[LogThread]
    BY <1>4, ThreadLeavesRun
  <1>5. QED  BY <1>1, <1>2, <1>3, <1>4 DEF Next, Application

\* A log that is pushed while run is over was pushed after stop.
LEMMA LateStep == ASSUME IndInv, LateInv, [Next]_vars PROVE LateInv'
  <1> SUFFICES ASSUME pc'[LogThread] = "done" PROVE \A i \in DOMAIN _logs' : _logs'[i].late
    BY DEF LateInv
  <1>1. CASE pc[LogThread] # "done"
    BY <1>1, DoneSteps
  <1>2. CASE pc[LogThread] = "done"
    <2>1. ~_runing /\ _logs \in Seq(LogData)
      BY <1>2 DEF IndInv, RunInv, ActInv, QueueOK
    <2>2. ASSUME NEW t \in Threads, pushLogs(t),
                 _logs' = Append(_logs, Entering(hold[t], want[t], <<t, calls>>))
          PROVE  \A i \in DOMAIN _logs' : _logs'[i].late
      <3> DEFINE x == Entering(hold[t], want[t], <<t, calls>>)
      <3>1. x.late
        BY <2>1 DEF Entering
      <3>2. hold[t] \in Ids /\ want[t] \in Call /\ t \in Actors /\ calls \in Nat
        BY <2>2, Constants DEF pushLogs, IndInv, ActInv, ActorOK, ThreadInv, InLog, Hands
      <3>3. x \in LogData
        BY <3>2, EnteringFacts
      <3> HIDE DEF x
      <3>4. QED  BY <1>2, <2>1, <2>2, <3>1, <3>3, AppendFacts DEF LateInv, x
    <2>3. ~runLogs
      BY <1>2 DEF runLogs
    <2>4. CASE _logs' = _logs
      BY <1>2, <2>4 DEF LateInv
    <2>5. QED  BY <1>2, <2>2, <2>3, <2>4, QueueSteps
  <1>3. QED  BY <1>1, <1>2

\* "logger will not loss any log on process normal exit": of the logs pushed
\* before stop none is left when run ends, and stop waits for that.
THEOREM DrainedTheorem == Spec => []DrainedAtExit
  <1>1. Init => LateInv
    BY DEF Init, LateInv
  <1>2. IndInv /\ LateInv /\ [Next]_vars => LateInv'
    BY LateStep
  <1>3. IndInv /\ LateInv => DrainedAtExit
    BY DEF IndInv, RunInv, LateInv, DrainedAtExit
  <1>4. QED  BY <1>1, <1>2, <1>3, Invariance, PTL DEF Spec

-----------------------------------------------------------------------------
(* Logs pushed before a change are handled before it.                      *)

\* Nobody has made logger l write less.
Open(l) == _loggers[l].enable /\ _loggers[l].level = 0

\* LogData x is a log that no change may discard.
Earlier(x) == x.call.type = "general" /\ ~x.after /\ x.call.id \notin direct

\* LogData x carries a change that would discard the log in y.
Disturbs(x, y) == Restricts(x.call) /\ x.call.id = y.call.id

\* A change that restricts a logger was asked for before it is anywhere.
AskedInv ==
    /\ \A t \in Threads : pc[t] \in InLog /\ Restricts(want[t]) => want[t].id \in restricted
    /\ \A i \in DOMAIN _logs : Restricts(_logs[i].call) => _logs[i].call.id \in restricted
    /\ pc[LogThread] = "handle" /\ Restricts(cur.call) => cur.call.id \in restricted
    /\ app = "new" => \A t \in Threads : pc[t] = "idle"

\* While run goes on, a logger nobody asked to restrict is open, and so is
\* the logger of every log that must be kept, with no change ahead of it.
OpenInv ==
    pc[LogThread] # "done" =>
        /\ \A l \in Loggers : l \notin restricted => Open(l)
        /\ \A i \in DOMAIN _logs : Earlier(_logs[i]) =>
              /\ Open(_logs[i].call.id)
              /\ \A j \in DOMAIN _logs : j < i => ~Disturbs(_logs[j], _logs[i])
              /\ pc[LogThread] = "handle" => ~Disturbs(cur, _logs[i])
        /\ pc[LogThread] = "handle" /\ Earlier(cur) => Open(cur.call.id)

EarlierInv == AskedInv /\ OpenInv /\ ~wronged

\* The log thread and the application that starts and stops it leave the
\* calls of the threads alone.
LEMMA RunLeavesThreads ==
    ASSUME IndInv, Run \/ start \/ stop \/ Returns \/ UNCHANGED vars
    PROVE  /\ \A t \in Threads : pc'[t] = pc[t] /\ want'[t] = want[t]
           /\ UNCHANGED <<restricted, direct>>
  <1>0. /\ pc \in [Actors -> Places] /\ LogThread \in Actors /\ want \in [Threads -> Call \cup {None}]
        /\ \A t \in Threads : t # LogThread /\ t \in Actors
    BY Constants DEF IndInv, ActInv, ActorOK
  <1>1. UNCHANGED <<restricted, direct>>
    BY DEF Run, start, stop, Returns, stopReturns, startReturns, vars, ghosts, runStarts, runLogs,
           runPosts, popLog, handleChange, handleDiscard, handleLog, runFlushes, runQuits, keepLogData
  <1>2. want' = want \/ Returned(LogThread)
    BY DEF Run, start, stop, Returns, stopReturns, startReturns, vars, actors, runStarts, runLogs,
           runPosts, popLog, handleChange, handleDiscard, handleLog, runFlushes, runQuits, keepLogData,
           freeLogData
  <1>3. \/ pc' = pc
        \/ \E p : pc' = [pc EXCEPT ![LogThread] = p]
    BY DEF Run, start, stop, Returns, stopReturns, startReturns, vars, actors, runStarts, runLogs,
           runPosts, popLog, handleChange, handleDiscard, handleLog, runFlushes, runQuits, keepLogData,
           freeLogData, Returned, At
  <1>4. \A t \in Threads : want'[t] = want[t]
    BY <1>0, <1>2 DEF Returned
  <1>5. QED  BY <1>0, <1>1, <1>3, <1>4

\* A thread takes up a call only while it is idle and the log thread exists,
\* a change that restricts a logger is on record by then, and the thread
\* keeps it to the end of the call.
LEMMA CallSteps ==
    ASSUME IndInv, NEW t \in Threads, InCall(t) \/ \E c \in Requests : Log(t, c) \/ Set(t, c)
    PROVE  /\ \A u \in Threads \ {t} : pc'[u] = pc[u] /\ want'[u] = want[u]
           /\ pc'[t] \in InLog => \/ pc[t] \in InLog /\ want'[t] = want[t]
                                  \/ ~Restricts(want'[t])
                                  \/ want'[t].id \in restricted'
           /\ restricted \subseteq restricted' /\ direct \subseteq direct'
           /\ cur' = cur /\ wronged' = wronged
           /\ pc[t] \in InLog \/ app # "new"
  <1>0. /\ pc \in [Actors -> Places] /\ LogThread \in Actors /\ want \in [Threads -> Call \cup {None}]
        /\ t # LogThread /\ \A u \in Threads : u \in Actors
    BY Constants DEF IndInv, ActInv, ActorOK
  <1>1. ASSUME Returned(t)  PROVE /\ \A u \in Threads \ {t} : pc'[u] = pc[u] /\ want'[u] = want[u]
                                  /\ pc'[t] = "idle" /\ pc'[t] \notin InLog /\ cur' = cur
    BY <1>0, <1>1 DEF Returned, InLog
  <1>2. ASSUME NEW p \in InLog, pc' = [pc EXCEPT ![t] = p], UNCHANGED <<want, cur>>, pc[t] \in InLog
        PROVE  /\ \A u \in Threads \ {t} : pc'[u] = pc[u] /\ want'[u] = want[u]
               /\ pc[t] \in InLog /\ want'[t] = want[t] /\ cur' = cur
    BY <1>0, <1>2
  <1>3. ASSUME freeLogData(t), pc[t] \in InLog
        PROVE  /\ \A u \in Threads \ {t} : pc'[u] = pc[u] /\ want'[u] = want[u]
               /\ pc'[t] \in InLog => pc[t] \in InLog /\ want'[t] = want[t]
               /\ cur' = cur
    <2>1. "keep" \in InLog
      BY DEF InLog
    <2>2. QED  BY <1>1, <1>2, <1>3, <2>1 DEF freeLogData
  <1>4. ASSUME NEW c \in Requests, Log(t, c) \/ Set(t, c)
        PROVE  /\ \A u \in Threads \ {t} : pc'[u] = pc[u] /\ want'[u] = want[u]
               /\ pc'[t] \in InLog => ~Restricts(want'[t]) \/ want'[t].id \in restricted'
               /\ restricted \subseteq restricted' /\ direct' = direct
               /\ cur' = cur /\ wronged' = wronged /\ app # "new"
    <2>1. pc[t] = "idle" /\ pc[t] \notin InLog /\ app # "new"
      BY <1>4 DEF Log, Set, InLog
    <2>2. \/ UNCHANGED <<pc, want>>
          \/ \E p : pc' = [pc EXCEPT ![t] = p] /\ want' = [want EXCEPT ![t] = c]
      BY <1>4 DEF Log, Set
    <2>3. ~Restricts(c) \/ c.id \in restricted'
      BY <1>4 DEF Log, Set, Restricts
    <2>4. restricted \subseteq restricted' /\ direct' = direct /\ cur' = cur /\ wronged' = wronged
      BY <1>4 DEF Log, Set, ghosts
    <2>5. QED  BY <1>0, <2>1, <2>2, <2>3, <2>4
  <1>5. ASSUME InCall(t)
        PROVE  /\ \A u \in Threads \ {t} : pc'[u] = pc[u] /\ want'[u] = want[u]
               /\ pc'[t] \in InLog => pc[t] \in InLog /\ want'[t] = want[t]
               /\ cur' = cur /\ pc[t] \in InLog
    <2>1. pc[t] \in InLog /\ {"make", "direct", "check", "push"} \subseteq InLog
      BY <1>5 DEF InCall, hotChange, hotChangeDirect, makeLogData, pushLog, pushLogs, keepLogData, InLog
    <2>2. \/ Returned(t) \/ freeLogData(t)
          \/ \E p \in InLog : pc' = [pc EXCEPT ![t] = p] /\ UNCHANGED <<want, cur>>
      BY <1>5, <2>1 DEF InCall, hotChange, hotChangeDirect, makeLogData, pushLog, pushLogs, keepLogData
    <2>3. QED  BY <1>1, <1>2, <1>3, <2>1, <2>2
  <1>6. ASSUME InCall(t)  PROVE restricted' = restricted /\ direct \subseteq direct' /\ wronged' = wronged
    BY <1>6 DEF InCall, hotChange, hotChangeDirect, makeLogData, pushLog, pushLogs, keepLogData, ghosts
  <1>7. QED  BY <1>4, <1>5, <1>6

\* Requests to log less only become more, and so do the loggers restricted
\* past the queue.
LEMMA RecordSteps ==
    ASSUME IndInv, [Next]_vars
    PROVE  /\ restricted \subseteq restricted' /\ direct \subseteq direct'
           /\ \A u \in Threads : pc'[u] \in InLog => \/ pc[u] \in InLog /\ want'[u] = want[u]
                                                     \/ ~Restricts(want'[u])
                                                     \/ want'[u].id \in restricted'
  <1>1. CASE Run \/ start \/ stop \/ Returns \/ UNCHANGED vars
    BY <1>1, RunLeavesThreads
  <1>2. ASSUME NEW t \in Threads, InCall(t) \/ \E c \in Requests : Log(t, c) \/ Set(t, c)
        PROVE  /\ restricted \subseteq restricted' /\ direct \subseteq direct'
               /\ \A u \in Threads : pc'[u] \in InLog => \/ pc[u] \in InLog /\ want'[u] = want[u]
                                                         \/ ~Restricts(want'[u])
                                                         \/ want'[u].id \in restricted'
    BY <1>2, CallSteps
  <1>3. QED  BY <1>1, <1>2 DEF Next, Application

\* Before start nobody logs.
LEMMA NewSteps ==
    ASSUME IndInv, AskedInv, [Next]_vars, app' = "new"
    PROVE  \A t \in Threads : pc'[t] = "idle"
  <1>1. CASE Run \/ start \/ stop \/ Returns \/ UNCHANGED vars
    <2>1. app = "new"
      BY <1>1, RunMoves DEF start, stop, Returns, stopReturns, startReturns, vars, state,
                            runStarts, runPosts
    <2>2. QED  BY <1>1, <2>1, RunLeavesThreads DEF AskedInv
  <1>2. ASSUME NEW t \in Threads, InCall(t) \/ \E c \in Requests : Log(t, c) \/ Set(t, c)
        PROVE  FALSE
    <2>1. app = "new" /\ pc[t] \in InLog
      BY <1>2, CallSteps, ThreadLeavesRun DEF state
    <2>2. QED  BY <2>1 DEF AskedInv, InLog
  <1>3. QED  BY <1>1, <1>2 DEF Next, Application

\* LogData x enters the queue, and nothing else happens.
Enters(x) ==
    /\ _logs' = Append(_logs, x) /\ pc'[LogThread] = pc[LogThread]
    /\ UNCHANGED <<cur, _loggers, ghosts>>
    /\ Restricts(x.call) => x.call.id \in restricted
    /\ ~x.after => x.call.id \notin restricted

\* The log thread takes the oldest one.
Taken ==
    /\ _logs # <<>> /\ pc[LogThread] = "pop" /\ cur' = Head(_logs) /\ _logs' = Tail(_logs)
    /\ UNCHANGED <<_loggers, ghosts>>

\* Neither.
Stays ==
    _logs' = _logs /\ (pc'[LogThread] = "handle" => pc[LogThread] = "handle" /\ cur' = cur)

\* What a step does to the queue, the changes in it being on record.
LEMMA QueueMoves ==
    ASSUME IndInv, AskedInv, [Next]_vars
    PROVE  Stays \/ Taken \/ \E x \in LogData : Enters(x)
  <1>0. ActInv /\ GhostOK
    BY DEF IndInv
  <1>1. ASSUME NEW t \in Threads, pushLogs(t)
        PROVE  \E x \in LogData : Enters(x)
    <2> DEFINE x == Entering(hold[t], want[t], <<t, calls>>)
    <2>1. /\ pc[t] = "push" /\ _logs' = Append(_logs, x) /\ UNCHANGED <<_loggers, ghosts>>
      BY <1>1 DEF pushLogs, output
    <2>2. /\ hold[t] \in Ids /\ want[t] \in Call /\ t \in Actors /\ calls \in Nat
          /\ pc[t] \in InLog
      BY <1>0, <2>1, Constants DEF ActInv, ActorOK, ThreadInv, InLog, Hands
    <2>3. x \in LogData
      BY <2>2, EnteringFacts
    <2>4. x.call = want[t] /\ x.after = (want[t].id \in restricted)
      BY DEF Entering
    <2> HIDE DEF x
    <2>5. Restricts(x.call) => x.call.id \in restricted
      BY <2>2, <2>4 DEF AskedInv
    <2>6. cur' = cur /\ pc'[LogThread] = pc[LogThread]
      BY <1>1, CallSteps, ThreadLeavesRun DEF InCall
    <2>7. QED  BY <2>1, <2>3, <2>4, <2>5, <2>6 DEF Enters
  <1>2. ASSUME runLogs, _logs' = Append(_logs, Line(Made.d))
        PROVE  \E x \in LogData : Enters(x)
    <2> DEFINE c == [type |-> "general", id |-> 0, num |-> MaxLevel]
               x == Line(Made.d)
    <2>1. boot > 0 /\ UNCHANGED <<pc, cur, _loggers, ghosts>>
      BY <1>2 DEF runLogs, output
    <2>2. Made.d \in Ids
      BY <1>0, <2>1, MayMake, MadeFacts DEF ActInv, ActorOK, QueueOK
    <2>3. c \in Call /\ ~Restricts(c)
      BY Constants DEF Call, Types, Loggers, Levels, Restricts
    <2>4. LogThread \in Actors /\ BootLines - boot \in Nat
      BY <1>0, Constants, ActFacts
    <2>5. x.call = c /\ x.after = (c.id \in restricted)
      BY DEF Line, Entering
    <2> HIDE DEF c
    <2>6. x \in LogData
      BY <2>2, <2>3, <2>4, EnteringFacts DEF Line, c
    <2> HIDE DEF x
    <2>7. QED  BY <1>2, <2>1, <2>3, <2>5, <2>6 DEF Enters, x
  <1>3. ASSUME popLog, _logs # <<>>, cur' = Head(_logs), _logs' = Tail(_logs), pc[LogThread] = "pop"
        PROVE  Taken
    BY <1>3 DEF Taken, popLog, output
  <1>4. QED  BY <1>1, <1>2, <1>3, QueueSteps DEF Stays

\* A change that restricts a logger stays on record.
LEMMA AskedStep == ASSUME IndInv, AskedInv, [Next]_vars PROVE AskedInv'
  <1>1. \A t \in Threads : pc'[t] \in InLog /\ Restricts(want'[t]) => want'[t].id \in restricted'
    <2>1. SUFFICES ASSUME NEW t \in Threads, pc'[t] \in InLog, Restricts(want'[t])
                   PROVE  want'[t].id \in restricted'
      OBVIOUS
    <2>2. CASE pc[t] \in InLog /\ want'[t] = want[t]
      <3>1. Restricts(want[t])
        BY <2>1, <2>2
      <3>2. QED  BY <2>2, <3>1, RecordSteps DEF AskedInv
    <2>3. QED  BY <2>1, <2>2, RecordSteps
  <1>2. restricted \subseteq restricted' /\ _logs \in Seq(LogData)
    BY RecordSteps DEF IndInv, ActInv, QueueOK
  <1>3. /\ \A i \in DOMAIN _logs' : Restricts(_logs'[i].call) => _logs'[i].call.id \in restricted'
        /\ (pc'[LogThread] = "handle" /\ Restricts(cur'.call)) => cur'.call.id \in restricted'
    <2>1. CASE Stays
      BY <1>2, <2>1 DEF AskedInv, Stays
    <2>2. ASSUME NEW x \in LogData, Enters(x)
          PROVE  /\ \A i \in DOMAIN _logs' : Restricts(_logs'[i].call) => _logs'[i].call.id \in restricted'
                 /\ (pc'[LogThread] = "handle" /\ Restricts(cur'.call)) => cur'.call.id \in restricted'
      BY <1>2, <2>2, AppendFacts DEF AskedInv, Enters
    <2>3. CASE Taken
      BY <1>2, <2>3, PopFacts DEF AskedInv, Taken
    <2>4. QED  BY <2>1, <2>2, <2>3, QueueMoves
  <1>4. QED  BY <1>1, <1>3, NewSteps DEF AskedInv

\* A change that makes logger l write less is made.
Narrows(l) ==
    \/ \E t \in Threads : hotChangeDirect(t) /\ Restricts(want[t]) /\ want[t].id = l
    \/ handleChange /\ Restricts(cur.call) /\ cur.call.id = l

\* A change that does not restrict a logger leaves it open, and one that is
\* applied at once does not restrict an open one.
LEMMA ChangedOpen ==
    ASSUME OutputOK, NEW c \in Call, NEW l \in Loggers, Open(l),
           ~(Restricts(c) /\ c.id = l) \/ Lowers(c)
    PROVE  Changed(c)[l].enable /\ Changed(c)[l].level = 0
  <1>1. CASE c.id # l
    BY <1>1, ChangedFacts DEF Open
  <1>2. CASE c.id = l
    <2>1. c.num \in Nat /\ c.type \in Types
      BY CallFacts, Constants DEF Levels
    <2>2. ~Restricts(c)
      BY <1>2, <2>1 DEF Lowers, Restricts, Open
    <2>3. /\ c.type = "enable" => c.num # 0
          /\ c.type = "level" => c.num = 0
      BY <2>1, <2>2 DEF Restricts
    <2>4. QED  BY <1>2, <2>3, ChangedFacts DEF Open
  <1>3. QED  BY <1>1, <1>2

\* Nothing else than such a change, or the end of run, makes a logger write less.
LEMMA OpenSteps ==
    ASSUME IndInv, [Next]_vars, pc'[LogThread] # "done", NEW l \in Loggers, Open(l), ~Narrows(l)
    PROVE  _loggers'[l].enable /\ _loggers'[l].level = 0
  <1>0. /\ OutputOK /\ _loggers \in [Loggers -> Logger] /\ _loggers[l] \in Logger
        /\ _loggers[l].enable /\ _loggers[l].level = 0
        /\ pc \in [Actors -> Places] /\ LogThread \in Actors
    BY Constants DEF IndInv, OutputOK, Open, ActInv, ActorOK
  <1>1. CASE UNCHANGED _loggers
    BY <1>0, <1>1
  <1>2. ASSUME NEW t \in Threads, NEW c \in Requests, Set(t, c)
        PROVE  _loggers'[l].enable /\ _loggers'[l].level = 0
    <2>1. c \in Call
      BY DEF Requests
    <2>2. UNCHANGED _loggers \/ (Lowers(c) /\ _loggers' = Changed(c))
      BY <1>2 DEF Set, AtOnce
    <2>3. QED  BY <1>0, <1>1, <2>1, <2>2, ChangedOpen
  <1>3. ASSUME NEW t \in Threads, hotChangeDirect(t)
        PROVE  _loggers'[l].enable /\ _loggers'[l].level = 0
    <2>1. want[t] \in Call /\ _loggers' = Changed(want[t])
      BY <1>3 DEF hotChangeDirect, IndInv, ActInv, ThreadInv, InLog
    <2>2. ~(Restricts(want[t]) /\ want[t].id = l)
      BY <1>3 DEF Narrows
    <2>3. QED  BY <1>0, <2>1, <2>2, ChangedOpen
  <1>4. CASE handleChange
    <2>1. /\ _loggers' = [Changed(cur.call) EXCEPT ![Target].open = FALSE]
          /\ cur.call \in Call /\ Target \in Loggers
      BY <1>4, CallFacts DEF handleChange, IndInv, ActInv, LogInv, LogData, Target
    <2>2. ~(Restricts(cur.call) /\ cur.call.id = l)
      BY <1>4 DEF Narrows
    <2>3. /\ Changed(cur.call)[l].enable /\ Changed(cur.call)[l].level = 0
          /\ Changed(cur.call) \in [Loggers -> Logger]
      BY <1>0, <2>1, <2>2, ChangedOpen, ChangedFacts
    <2> DEFINE g == Changed(cur.call)
    <2>4. _loggers'[l] = IF l = Target THEN [g[l] EXCEPT !.open = FALSE] ELSE g[l]
      BY <2>1, <2>3
    <2> HIDE DEF g
    <2>5. g[l].enable /\ g[l].level = 0 /\ g[l] \in Logger
      BY <2>3 DEF g
    <2>6. QED  BY <2>4, <2>5 DEF Logger
  <1>5. ASSUME NEW o \in BOOLEAN, NEW w \in BOOLEAN, handleLog(o, w)
        PROVE  _loggers'[l].enable /\ _loggers'[l].level = 0
    <2>1. \/ UNCHANGED _loggers
          \/ _loggers' = [_loggers EXCEPT ![Target].outfile = FALSE]
          \/ _loggers' = [_loggers EXCEPT ![Target].open = w]
      BY <1>5 DEF handleLog
    <2>2. QED  BY <1>0, <1>1, <2>1 DEF Logger
  <1>6. CASE runFlushes
    BY <1>0, <1>6 DEF runFlushes, Logger
  <1>7. CASE runQuits
    BY <1>0, <1>1, <1>7 DEF runQuits
  <1>8. CASE \/ runStarts \/ runLogs \/ runPosts \/ popLog \/ handleDiscard \/ keepLogData(LogThread)
             \/ start \/ stop \/ stopReturns \/ (\E ok \in BOOLEAN : startReturns(ok)) \/ UNCHANGED vars
    BY <1>1, <1>8 DEF runStarts, runLogs, runPosts, popLog, handleDiscard, keepLogData, start, stop,
                      stopReturns, startReturns, vars, output
  <1>9. CASE \E t \in Threads : \/ hotChange(t) \/ makeLogData(t) \/ pushLog(t) \/ pushLogs(t)
                                \/ keepLogData(t) \/ \E c \in Requests : Log(t, c)
    BY <1>1, <1>9 DEF hotChange, makeLogData, pushLog, pushLogs, keepLogData, Log, output
  <1>10. QED
    BY <1>2, <1>3, <1>4, <1>5, <1>6, <1>7, <1>8, <1>9 DEF Next, Application, Returns, Run, InCall

\* A logger restricted past the queue is on record as such.
LEMMA NarrowedFacts ==
    ASSUME IndInv, AskedInv, [Next]_vars, pc[LogThread] # "done", NEW l \in Loggers, Narrows(l)
    PROVE  /\ l \in restricted
           /\ l \in direct' \/ (pc[LogThread] = "handle" /\ pc'[LogThread] # "handle" /\ Stays
                                   /\ Restricts(cur.call) /\ cur.call.id = l)
  <1>1. ASSUME NEW t \in Threads, hotChangeDirect(t), Restricts(want[t]), want[t].id = l
        PROVE  l \in restricted /\ l \in direct'
    <2>1. pc[t] = "direct" /\ pc[t] \in InLog /\ pc[t] # "idle"
      BY <1>1 DEF hotChangeDirect, InLog
    <2>2. pc[LogThread] \notin {"none", "done"}
      BY <2>1 DEF AskedInv, IndInv, RunInv
    <2>3. QED  BY <1>1, <2>1, <2>2 DEF hotChangeDirect, AskedInv
  <1>2. CASE handleChange /\ Restricts(cur.call) /\ cur.call.id = l
    <2>1. pc[LogThread] = "handle" /\ freeLogData(LogThread) /\ _logs' = _logs
      BY <1>2 DEF handleChange, queue
    <2>2. pc'[LogThread] \in {"keep", "pop"}
      BY <2>1, Constants DEF freeLogData, Returned, IndInv, ActInv, ActorOK
    <2>3. QED  BY <1>2, <2>1, <2>2 DEF AskedInv, Stays
  <1>3. QED  BY <1>1, <1>2 DEF Narrows

\* A logger that is open and not narrowed stays open.
LEMMA OpenStep == ASSUME IndInv, AskedInv, OpenInv, [Next]_vars PROVE OpenInv'
  <1> SUFFICES ASSUME pc'[LogThread] # "done"
               PROVE  /\ \A l \in Loggers : l \notin restricted' => Open(l)'
                      /\ \A i \in DOMAIN _logs' : Earlier(_logs[i])' =>
                            /\ Open(_logs[i].call.id)'
                            /\ \A j \in DOMAIN _logs' : j < i => ~Disturbs(_logs[j], _logs[i])'
                            /\ pc'[LogThread] = "handle" => ~Disturbs(cur, _logs[i])'
                      /\ (pc'[LogThread] = "handle" /\ Earlier(cur)') => Open(cur.call.id)'
    BY DEF OpenInv
  <1>0. /\ pc[LogThread] # "done" /\ _logs \in Seq(LogData)
        /\ restricted \subseteq restricted' /\ direct \subseteq direct'
    BY DoneSteps, RecordSteps DEF IndInv, ActInv, QueueOK
  <1>1. /\ \A l \in Loggers : l \notin restricted => Open(l)
        /\ \A i \in DOMAIN _logs : Earlier(_logs[i]) =>
              /\ Open(_logs[i].call.id)
              /\ \A j \in DOMAIN _logs : j < i => ~Disturbs(_logs[j], _logs[i])
              /\ pc[LogThread] = "handle" => ~Disturbs(cur, _logs[i])
        /\ (pc[LogThread] = "handle" /\ Earlier(cur)) => Open(cur.call.id)
    BY <1>0 DEF OpenInv
  <1>2. \A i \in DOMAIN _logs : _logs[i] \in LogData /\ _logs[i].call.id \in Loggers
    <2>1. \A y \in LogData : y.call \in Call
      BY DEF LogData
    <2>2. \A i \in DOMAIN _logs : _logs[i] \in LogData
      BY <1>0
    <2>3. QED  BY <2>1, <2>2, CallFacts
  <1>3. ASSUME NEW l \in Loggers, l \notin restricted'
        PROVE  Open(l)'
    <2>1. Open(l) /\ ~Narrows(l)
      BY <1>0, <1>1, <1>3, NarrowedFacts
    <2>2. QED  BY <2>1, OpenSteps DEF Open
  <1>4. ASSUME NEW y \in LogData, Earlier(y), y.call.id \notin direct', Open(y.call.id),
               pc[LogThread] = "handle" /\ pc'[LogThread] # "handle" /\ Stays => ~Disturbs(cur, y)
        PROVE  _loggers'[y.call.id].enable /\ _loggers'[y.call.id].level = 0
    <2>1. y.call.id \in Loggers
      BY CallFacts DEF LogData
    <2>2. ~Narrows(y.call.id)
      BY <1>0, <1>4, <2>1, NarrowedFacts DEF Disturbs
    <2>3. QED  BY <1>4, <2>1, <2>2, OpenSteps
  <1>5. CASE Stays
    <2>1. ASSUME NEW i \in DOMAIN _logs', Earlier(_logs[i])'
          PROVE  /\ Open(_logs[i].call.id)'
                 /\ \A j \in DOMAIN _logs' : j < i => ~Disturbs(_logs[j], _logs[i])'
                 /\ pc'[LogThread] = "handle" => ~Disturbs(cur, _logs[i])'
      <3>1. i \in DOMAIN _logs /\ _logs' = _logs
        BY <1>5, <2>1 DEF Stays
      <3>2. Earlier(_logs[i]) /\ _logs[i].call.id \notin direct'
        BY <1>0, <2>1, <3>1 DEF Earlier
      <3>3. /\ _loggers'[_logs[i].call.id].enable /\ _loggers'[_logs[i].call.id].level = 0
        BY <1>1, <1>2, <1>4, <3>1, <3>2
      <3>4. QED  BY <1>1, <1>5, <3>1, <3>2, <3>3 DEF Open, Stays, Disturbs
    <2>2. ASSUME pc'[LogThread] = "handle", Earlier(cur)'  PROVE Open(cur.call.id)'
      <3>1. pc[LogThread] = "handle" /\ cur' = cur /\ cur \in LogData
        BY <1>5, <2>2 DEF Stays, IndInv, ActInv, LogInv
      <3>2. Earlier(cur) /\ cur.call.id \notin direct'
        BY <1>0, <2>2, <3>1 DEF Earlier
      <3>3. _loggers'[cur.call.id].enable /\ _loggers'[cur.call.id].level = 0
        BY <1>1, <1>4, <2>2, <3>1, <3>2
      <3>4. QED  BY <3>1, <3>3 DEF Open
    <2>3. QED  BY <1>3, <2>1, <2>2
  <1>6. ASSUME NEW x \in LogData, Enters(x)
        PROVE  /\ \A i \in DOMAIN _logs' : Earlier(_logs[i])' =>
                     /\ Open(_logs[i].call.id)'
                     /\ \A j \in DOMAIN _logs' : j < i => ~Disturbs(_logs[j], _logs[i])'
                     /\ pc'[LogThread] = "handle" => ~Disturbs(cur, _logs[i])'
               /\ (pc'[LogThread] = "handle" /\ Earlier(cur)') => Open(cur.call.id)'
    <2>0. /\ _logs' = Append(_logs, x) /\ pc'[LogThread] = pc[LogThread]
          /\ cur' = cur /\ _loggers' = _loggers /\ direct' = direct
          /\ ~x.after => x.call.id \notin restricted
          /\ x.call.id \in Loggers
      BY <1>6, CallFacts DEF Enters, ghosts, LogData
    <2>1. /\ Len(_logs) \in Nat /\ DOMAIN _logs = 1 .. Len(_logs) /\ DOMAIN _logs' = 1 .. Len(_logs) + 1
          /\ \A i \in 1 .. Len(_logs) : _logs'[i] = _logs[i]
          /\ _logs'[Len(_logs) + 1] = x
      BY <1>0, <2>0, AppendFacts
    <2>2. ASSUME NEW i \in DOMAIN _logs', Earlier(_logs[i])'
          PROVE  /\ Open(_logs[i].call.id)'
                 /\ \A j \in DOMAIN _logs' : j < i => ~Disturbs(_logs[j], _logs[i])'
                 /\ pc'[LogThread] = "handle" => ~Disturbs(cur, _logs[i])'
      <3>1. CASE i \in DOMAIN _logs
        <4>1. _logs'[i] = _logs[i] /\ Earlier(_logs[i])
          BY <2>0, <2>1, <2>2, <3>1 DEF Earlier
        <4>2. \A j \in DOMAIN _logs' : j < i => j \in DOMAIN _logs /\ _logs'[j] = _logs[j]
          BY <2>1, <3>1
        <4>3. QED  BY <1>1, <2>0, <3>1, <4>1, <4>2 DEF Open, Disturbs
      <3>2. CASE i = Len(_logs) + 1
        <4>1. _logs'[i] = x /\ x.call.id \notin restricted
          BY <2>0, <2>1, <2>2, <3>2 DEF Earlier
        <4>2. Open(x.call.id)
          BY <1>1, <2>0, <4>1
        <4>3. \A j \in DOMAIN _logs' : j < i => ~Disturbs(_logs'[j], x)
          <5>1. \A j \in DOMAIN _logs' : j < i => j \in DOMAIN _logs /\ _logs'[j] = _logs[j]
            BY <2>1, <3>2
          <5>2. QED  BY <4>1, <5>1 DEF AskedInv, Disturbs
        <4>4. pc'[LogThread] = "handle" => ~Disturbs(cur', x)
          BY <2>0, <4>1 DEF AskedInv, Disturbs
        <4>5. QED  BY <2>0, <4>1, <4>2, <4>3, <4>4 DEF Open, Disturbs
      <3>3. QED  BY <2>1, <3>1, <3>2
    <2>3. (pc'[LogThread] = "handle" /\ Earlier(cur)') => Open(cur.call.id)'
      BY <1>1, <2>0 DEF Open, Earlier
    <2>4. QED  BY <2>2, <2>3
  <1>7. CASE Taken
    <2>0. /\ _logs # <<>> /\ pc[LogThread] = "pop" /\ cur' = Head(_logs) /\ _logs' = Tail(_logs)
          /\ _loggers' = _loggers /\ direct' = direct
      BY <1>7 DEF Taken, ghosts
    <2>1. /\ Len(_logs) \in Nat /\ DOMAIN _logs = 1 .. Len(_logs) /\ DOMAIN _logs' = 1 .. Len(_logs) - 1
          /\ \A i \in 1 .. Len(_logs) - 1 : _logs'[i] = _logs[i + 1]
          /\ cur' = _logs[1] /\ 1 \in DOMAIN _logs
      BY <1>0, <2>0, PopFacts
    <2>2. ASSUME NEW i \in DOMAIN _logs', Earlier(_logs[i])'
          PROVE  /\ Open(_logs[i].call.id)'
                 /\ \A j \in DOMAIN _logs' : j < i => ~Disturbs(_logs[j], _logs[i])'
                 /\ pc'[LogThread] = "handle" => ~Disturbs(cur, _logs[i])'
      <3>1. i + 1 \in DOMAIN _logs /\ _logs'[i] = _logs[i + 1] /\ 1 < i + 1
        BY <2>1
      <3>2. Earlier(_logs[i + 1])
        BY <2>0, <2>2, <3>1 DEF Earlier
      <3>3. \A j \in DOMAIN _logs' : j < i => j + 1 \in DOMAIN _logs /\ j + 1 < i + 1 /\ _logs'[j] = _logs[j + 1]
        BY <2>1
      <3>4. /\ Open(_logs[i + 1].call.id)
            /\ \A k \in DOMAIN _logs : k < i + 1 => ~Disturbs(_logs[k], _logs[i + 1])
        BY <1>1, <3>1, <3>2
      <3>5. QED  BY <2>0, <2>1, <3>1, <3>3, <3>4 DEF Open, Disturbs
    <2>3. (pc'[LogThread] = "handle" /\ Earlier(cur)') => Open(cur.call.id)'
      <3>1. Earlier(cur)' => Earlier(_logs[1])
        BY <2>0, <2>1 DEF Earlier
      <3>2. QED  BY <1>1, <2>0, <2>1, <3>1 DEF Open
    <2>4. QED  BY <1>3, <2>2, <2>3
  <1>8. QED  BY <1>3, <1>5, <1>6, <1>7, QueueMoves

\* A log that must be kept is not discarded.
LEMMA KeptStep == ASSUME IndInv, OpenInv, ~wronged, [Next]_vars PROVE ~wronged'
  <1>1. CASE handleDiscard
    <2>1. /\ pc[LogThread] = "handle" /\ cur.call.type = "general" /\ ~Listens(cur.call)
          /\ wronged' = (wronged \/ (~cur.after /\ cur.call.id \notin direct))
          /\ cur.call \in Call
      BY <1>1 DEF handleDiscard, Target, IndInv, ActInv, LogInv, LogData
    <2>2. cur.call.num \in Nat
      BY <2>1, CallFacts, Constants DEF Levels
    <2>3. ~Earlier(cur)
      BY <2>1, <2>2 DEF OpenInv, Open, Listens
    <2>4. QED  BY <2>1, <2>3 DEF Earlier
  <1>2. CASE UNCHANGED wronged
    BY <1>2
  <1>3. CASE start \/ stop \/ Returns \/ UNCHANGED vars \/ (Run /\ ~handleDiscard)
    BY <1>2, <1>3 DEF Run, start, stop, Returns, stopReturns, startReturns, vars, ghosts, runStarts,
           runLogs, runPosts, popLog, handleChange, handleLog, runFlushes, runQuits, keepLogData
  <1>4. ASSUME NEW t \in Threads, InCall(t) \/ \E c \in Requests : Log(t, c) \/ Set(t, c)
        PROVE  UNCHANGED wronged
    BY <1>4, CallSteps
  <1>5. QED  BY <1>1, <1>2, <1>3, <1>4 DEF Next, Application

\* A change that makes a logger write less does not reach the logs pushed
\* before it was asked for, unless hotChange applies it past the queue.
THEOREM EarlierTheorem == Spec => []EarlierKept
  <1>1. Init => EarlierInv
    <2> SUFFICES ASSUME Init PROVE EarlierInv
      OBVIOUS
    <2>1. \A t \in Threads : pc[t] = "idle" /\ pc[t] \notin InLog
      BY Constants DEF Init, InLog
    <2>2. pc[LogThread] = "none" /\ _logs = <<>> /\ DOMAIN _logs = {}
      BY Constants DEF Init
    <2>3. AskedInv
      BY <2>1, <2>2 DEF AskedInv
    <2>4. \A l \in Loggers : _loggers[l].enable /\ _loggers[l].level = 0
      BY DEF Init
    <2>5. OpenInv
      BY <2>2, <2>4 DEF OpenInv, Open
    <2>6. QED  BY <2>3, <2>5 DEF EarlierInv, Init
  <1>2. IndInv /\ EarlierInv /\ [Next]_vars => EarlierInv'
    BY AskedStep, OpenStep, KeptStep DEF EarlierInv
  <1>3. EarlierInv => EarlierKept
    BY DEF EarlierInv, EarlierKept
  <1>4. QED  BY <1>1, <1>2, <1>3, Invariance, PTL DEF Spec
=============================================================================
