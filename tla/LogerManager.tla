---------------------------- MODULE LogerManager ----------------------------
(***************************************************************************)
(* LogerManager of log4z.cpp as threads use it: they log and change the    *)
(* loggers' attributes while the log thread takes LogDatas off the queue   *)
(* and writes them to files, and the application starts and stops it.      *)
(*                                                                         *)
(* _runing, _loggers and the size of _freeLogDatas are read and written    *)
(* without a lock; a step is what no other thread can come between.  The   *)
(* text of a log is LogStream's, the files and their names LogConfig's.    *)
(***************************************************************************)
EXTENDS Integers, FiniteSets, SequencesExt

CONSTANTS Threads,      \* threads of the application that use the logger
          LogThread,    \* the thread LogerManager::run
          LastId,       \* _lastId: the loggers are 0 .. LastId, 0 the main one
          MaxLevel,     \* LOG_LEVEL_FATAL
          QueueLimit,   \* LOG4Z_LOG_QUEUE_LIMIT_SIZE (10000)
          FreeLimit,    \* LogDatas kept for reuse (200)
          Calls,        \* what the threads do: see Call
          Faults,       \* which of fopen and fwrite may fail
          MaxCalls      \* bound: calls made by the threads

ASSUME ThreadAssumption == IsFiniteSet(Threads) /\ LogThread \notin Threads
ASSUME LimitAssumption == {LastId, MaxLevel, QueueLimit, FreeLimit, MaxCalls} \subseteq Nat
ASSUME CallAssumption ==
    Calls \subseteq {"log", "enable", "disable", "level", "outfile"} /\ Faults \subseteq {"open", "write"}

VARIABLES
    app, startOk,   \* the thread that calls start and stop; what start returned,
                    \* or true once stop has found run started
    _runing, _semaphore,
    pc, hold, want, \* of every thread: where it is, its LogData (0: none), its call
    cur,            \* the LogData run has taken off the queue
    calls,          \* calls made so far
    boot,           \* the lines run has still to log about itself
    _logs, _freeLogDatas,
    _loggers, needFlush,
    file,           \* of each logger: what has been written, what has been flushed
    restricted,     \* loggers somebody has asked to log less
    direct,         \* loggers restricted past the queue while the log thread ran
    wronged         \* a log was discarded by a change asked for after it

state   == <<app, startOk, _runing, _semaphore>>
actors  == <<pc, hold, want, cur, calls, boot>>
queue   == <<_logs, _freeLogDatas>>
output  == <<_loggers, needFlush, file>>
ghosts  == <<restricted, direct, wronged>>
vars    == <<state, actors, queue, output, ghosts>>

Loggers == 0 .. LastId
Levels  == 0 .. MaxLevel
Actors  == Threads \cup {LogThread}
BootLines == LastId + 2   \* what run logs about itself, and about each logger
Ids     == 1 .. MaxCalls + BootLines
Types   == {"general", "enable", "level", "outfile"}

\* What a thread asks for and a LogData carries: num is the level of a log.
Call == [type : Types, id : Loggers, num : Levels]
None == [type |-> "none", id |-> 0, num |-> 0]

\* The requests that make a difference.
Requests == {c \in Call : /\ c.type = "general" /\ "level" \notin Calls => c.num = MaxLevel
                          /\ c.type \in {"enable", "outfile"} => c.num <= 1}

\* In the queue: who pushed it, as which of its calls, whether stop had been
\* called, and whether its logger had been restricted by then.
LogData == [call : Call, from : Actors \X Nat, late : BOOLEAN, after : BOOLEAN,
            d : Ids]  \* which object it is

Logger == [enable : BOOLEAN, level : Levels, outfile : BOOLEAN, open : BOOLEAN]

\* Types.
TypeOK ==
    /\ app \in {"new", "waiting", "started", "stopping", "returned"}
    /\ {startOk, _runing, wronged} \subseteq BOOLEAN /\ _semaphore \in 0 .. 1
    /\ pc \in [Actors -> {"idle", "test", "direct", "make", "check", "push", "keep",
                          "none", "start", "boot", "pop", "handle", "flush", "quit", "done"}]
    /\ hold \in [Actors -> {0} \cup Ids] /\ want \in [Threads -> Call \cup {None}]
    /\ calls \in 0 .. MaxCalls /\ boot \in 0 .. BootLines
    /\ _logs \in Seq(LogData) /\ _freeLogDatas \in Seq(Ids) /\ cur \in LogData \cup {None}
    /\ _loggers \in [Loggers -> Logger] /\ needFlush \subseteq Loggers
    /\ file \in [Loggers -> [written : Seq(Actors \X Nat), flushed : Nat]]
    /\ restricted \subseteq Loggers /\ direct \subseteq Loggers

Init ==
    /\ app = "new" /\ startOk = FALSE /\ _runing = FALSE /\ _semaphore = 0
    /\ pc = [a \in Actors |-> IF a = LogThread THEN "none" ELSE "idle"]
    /\ hold = [a \in Actors |-> 0] /\ want = [t \in Threads |-> None]
    /\ calls = 0 /\ boot = BootLines
    /\ _logs = <<>> /\ _freeLogDatas = <<>> /\ cur = None
    /\ _loggers = [l \in Loggers |-> [enable |-> TRUE, level |-> 0, outfile |-> TRUE, open |-> FALSE]]
    /\ needFlush = {} /\ file = [l \in Loggers |-> [written |-> <<>>, flushed |-> 0]]
    /\ restricted = {} /\ direct = {} /\ wronged = FALSE

-----------------------------------------------------------------------------
(* start and stop.                                                         *)

start ==
    /\ app = "new" /\ ~_runing
    /\ app' = "waiting" /\ _semaphore' = 0
    /\ pc' = [pc EXCEPT ![LogThread] = "start"]
    /\ UNCHANGED <<startOk, _runing, hold, want, cur, calls, boot, queue, output, ghosts>>

\* sem_trywait.
Waited(ok) == IF ok THEN _semaphore - 1 ELSE _semaphore

\* SemHelper::wait(3000): its last sem_trywait decides, the thread may not
\* have come to post by then.
startReturns(ok) ==
    /\ app = "waiting" /\ ok = (_semaphore = 1)
    /\ app' = "started" /\ startOk' = ok
    /\ _semaphore' = Waited(ok)
    /\ UNCHANGED <<_runing, actors, queue, output, ghosts>>

\* pthread_join.
Joined == pc[LogThread] = "done"

stop ==
    /\ app = "started"
    /\ app' = IF _runing THEN "stopping" ELSE "returned"
    /\ _runing' = FALSE /\ startOk' = (startOk \/ _runing)
    /\ UNCHANGED <<_semaphore, actors, queue, output, ghosts>>

stopReturns ==
    /\ app = "stopping" /\ Joined
    /\ app' = "returned"
    /\ UNCHANGED <<startOk, _runing, _semaphore, actors, queue, output, ghosts>>

-----------------------------------------------------------------------------
(* The queue of LogDatas and the list of those kept for reuse.             *)

Held  == {hold[a] : a \in Actors} \ {0}
InUse == {_logs[i].d : i \in DOMAIN _logs} \cup {_freeLogDatas[i] : i \in DOMAIN _freeLogDatas} \cup Held
New   == CHOOSE d \in Ids : d \notin InUse   \* operator new

\* Mutant of Made: the reused LogData stays in the list.
MadeShared ==
    IF _freeLogDatas = <<>> THEN [d |-> New, rest |-> <<>>]
    ELSE [d |-> _freeLogDatas[Len(_freeLogDatas)], rest |-> _freeLogDatas]

\* makeLogData: the last one of the list, or a new one.
Made ==
    IF _freeLogDatas = <<>> THEN [d |-> New, rest |-> <<>>]
    ELSE LET n == Len(_freeLogDatas) IN [d |-> _freeLogDatas[n], rest |-> SubSeq(_freeLogDatas, 1, n - 1)]

\* A call of thread t ends, or the log thread goes on to the next log.
Returned(a) ==
    /\ pc' = [pc EXCEPT ![a] = IF a = LogThread THEN "pop" ELSE "idle"]
    /\ want' = [t \in Threads |-> IF t = a THEN None ELSE want[t]]
    /\ cur' = IF a = LogThread THEN None ELSE cur

KeepsFree == Len(_freeLogDatas) < FreeLimit

\* freeLogData looks at the size of the list without the lock, in the step of
\* its caller ...
freeLogData(a) ==
    IF KeepsFree THEN pc' = [pc EXCEPT ![a] = "keep"] /\ UNCHANGED <<hold, want, cur>>
    ELSE hold' = [hold EXCEPT ![a] = 0] /\ Returned(a)

\* ... and appends to it with the lock.
keepLogData(a) ==
    /\ pc[a] = "keep"
    /\ _freeLogDatas' = Append(_freeLogDatas, hold[a])
    /\ hold' = [hold EXCEPT ![a] = 0] /\ Returned(a)
    /\ UNCHANGED <<state, calls, boot, _logs, output, ghosts>>

\* The contents of a LogData that enters the queue now.
Entering(d, c, from) ==
    [call |-> c, from |-> from, late |-> ~_runing, after |-> c.id \in restricted, d |-> d]

-----------------------------------------------------------------------------
(* The application's threads: LOG_STREAM, and the setters.                 *)

Listens(c) == _loggers[c.id].enable /\ c.num >= _loggers[c.id].level

prePushLog(c) == _runing /\ Listens(c) /\ Len(_logs) <= QueueLimit

Log(t, c) ==
    /\ app # "new" /\ pc[t] = "idle" /\ calls < MaxCalls /\ "log" \in Calls /\ c.type = "general"
    /\ calls' = calls + 1
    /\ IF prePushLog(c) THEN pc' = [pc EXCEPT ![t] = "make"] /\ want' = [want EXCEPT ![t] = c]
       ELSE UNCHANGED <<pc, want>>
    /\ UNCHANGED <<state, hold, cur, boot, queue, output, ghosts>>

Lowers(c) == (c.type = "enable" /\ c.num # 0) \/ (c.type = "level" /\ c.num <= _loggers[c.id].level)

\* onHotChange.
Changed(c) ==
    [_loggers EXCEPT ![c.id] =
        CASE c.type = "enable"  -> [@ EXCEPT !.enable = c.num # 0]
          [] c.type = "level"   -> [@ EXCEPT !.level = c.num]
          [] c.type = "outfile" -> [@ EXCEPT !.outfile = c.num # 0]
          [] OTHER -> @]

Named(c) == CASE c.type = "enable" -> (IF c.num = 0 THEN "disable" ELSE "enable")
              [] OTHER -> c.type

Restricts(c) == (c.type = "enable" /\ c.num = 0) \/ (c.type = "level" /\ c.num > 0)

\* Mutant of AtOnce: every change is applied at once.
AtOnceAlways(c) == TRUE

\* enableLogger and setLoggerLevel apply a change that makes the logger write
\* more at once; every other change goes the way of the logs.
AtOnce(c) == Lowers(c)

Set(t, c) ==
    /\ app # "new" /\ pc[t] = "idle" /\ calls < MaxCalls /\ c.type # "general" /\ Named(c) \in Calls
    /\ calls' = calls + 1
    /\ restricted' = IF Restricts(c) THEN restricted \cup {c.id} ELSE restricted
    /\ IF AtOnce(c) THEN _loggers' = Changed(c) /\ UNCHANGED <<pc, want>>
       ELSE pc' = [pc EXCEPT ![t] = "test"] /\ want' = [want EXCEPT ![t] = c] /\ UNCHANGED _loggers
    /\ UNCHANGED <<state, hold, cur, boot, queue, needFlush, file, direct, wronged>>

\* hotChange looks at _runing ...
hotChange(t) ==
    /\ pc[t] = "test"
    /\ pc' = [pc EXCEPT ![t] = IF _runing THEN "make" ELSE "direct"]
    /\ UNCHANGED <<state, hold, want, cur, calls, boot, queue, output, ghosts>>

\* ... and changes the logger itself if there is no log thread to do it.
hotChangeDirect(t) ==
    /\ pc[t] = "direct"
    /\ _loggers' = Changed(want[t])
    /\ direct' = IF Restricts(want[t]) /\ pc[LogThread] \notin {"none", "done"}
                 THEN direct \cup {want[t].id} ELSE direct
    /\ Returned(t)
    /\ UNCHANGED <<state, hold, calls, boot, queue, needFlush, file, restricted, wronged>>

makeLogData(t) ==
    /\ pc[t] = "make"
    /\ hold' = [hold EXCEPT ![t] = Made.d] /\ _freeLogDatas' = Made.rest
    /\ pc' = [pc EXCEPT ![t] = IF want[t].type = "general" THEN "check" ELSE "push"]
    /\ UNCHANGED <<state, want, cur, calls, boot, _logs, output, ghosts>>

\* pushLog looks again before it takes the lock.
pushLog(t) ==
    /\ pc[t] = "check"
    /\ IF _runing /\ Listens(want[t])
       THEN pc' = [pc EXCEPT ![t] = "push"] /\ UNCHANGED <<hold, want, cur>>
       ELSE freeLogData(t)
    /\ UNCHANGED <<state, calls, boot, queue, output, ghosts>>

\* The end of pushLog and of hotChange, under the lock.
pushLogs(t) ==
    /\ pc[t] = "push"
    /\ _logs' = Append(_logs, Entering(hold[t], want[t], <<t, calls>>))
    /\ hold' = [hold EXCEPT ![t] = 0] /\ Returned(t)
    /\ UNCHANGED <<state, calls, boot, _freeLogDatas, output, ghosts>>

-----------------------------------------------------------------------------
(* The log thread: run.                                                    *)

At(from, to) == pc[LogThread] = from /\ pc' = [pc EXCEPT ![LogThread] = to]

runStarts ==
    /\ At("start", "boot")
    /\ _runing' = TRUE
    /\ UNCHANGED <<app, startOk, _semaphore, hold, want, cur, calls, boot, queue, output, ghosts>>

\* LOGA, once and once more for each enabled logger: the whole of LOG_STREAM.
runLogs ==
    LET c == [type |-> "general", id |-> 0, num |-> MaxLevel]
        line == BootLines - boot
    IN  /\ pc[LogThread] = "boot" /\ boot > 0
        /\ boot' = boot - 1
        /\ IF (line > 0 => _loggers[line - 1].enable) /\ prePushLog(c)
           THEN /\ _freeLogDatas' = Made.rest
                /\ _logs' = Append(_logs, Entering(Made.d, c, <<LogThread, line>>))
           ELSE UNCHANGED queue
        /\ UNCHANGED <<state, pc, hold, want, cur, calls, output, ghosts>>

runPosts ==
    /\ boot = 0 /\ At("boot", "pop")
    /\ _semaphore' = _semaphore + 1
    /\ UNCHANGED <<app, startOk, _runing, hold, want, cur, calls, boot, queue, output, ghosts>>

\* Which LogData is the next.
Oldest == 1

popLog ==
    /\ pc[LogThread] = "pop"
    /\ IF _logs = <<>> THEN pc' = [pc EXCEPT ![LogThread] = "flush"] /\ UNCHANGED <<hold, cur, _logs>>
       ELSE /\ pc' = [pc EXCEPT ![LogThread] = "handle"]
            /\ hold' = [hold EXCEPT ![LogThread] = _logs[Oldest].d]
            /\ cur' = _logs[Oldest] /\ _logs' = RemoveAt(_logs, Oldest)
    /\ UNCHANGED <<state, want, calls, boot, _freeLogDatas, output, ghosts>>

Target == cur.call.id

\* fflush or fclose.
Flushed(l) == [file EXCEPT ![l].flushed = Len(file[l].written)]

\* A change of an attribute; the next log opens the file again.
handleChange ==
    /\ pc[LogThread] = "handle" /\ cur.call.type # "general"
    /\ _loggers' = [Changed(cur.call) EXCEPT ![Target].open = FALSE]
    /\ file' = Flushed(Target)
    /\ freeLogData(LogThread)
    /\ UNCHANGED <<state, calls, boot, queue, needFlush, ghosts>>

handleDiscard ==
    /\ pc[LogThread] = "handle" /\ cur.call.type = "general" /\ ~Listens(cur.call)
    /\ wronged' = (wronged \/ (~cur.after /\ Target \notin direct))
    /\ freeLogData(LogThread)
    /\ UNCHANGED <<state, calls, boot, queue, _loggers, needFlush, file, restricted, direct>>

\* openLogger, unless the file is open, and the write.  A file that cannot be
\* opened ends the output of its logger, a failed write closes it.
handleLog(opens, writes) ==
    /\ ~opens => "open" \in Faults
    /\ ~writes => "write" \in Faults
    /\ pc[LogThread] = "handle" /\ cur.call.type = "general" /\ Listens(cur.call)
    /\ LET l == Target
           usable == _loggers[l].open \/ opens
       IN  \/ ~_loggers[l].outfile /\ UNCHANGED <<_loggers, file, needFlush>>
           \/ /\ _loggers[l].outfile /\ ~usable
              /\ _loggers' = [_loggers EXCEPT ![l].outfile = FALSE]
              /\ UNCHANGED <<file, needFlush>>
           \/ /\ _loggers[l].outfile /\ usable
              /\ _loggers' = [_loggers EXCEPT ![l].open = writes]
              /\ file' = IF writes THEN [file EXCEPT ![l].written = Append(@, cur.from)]
                         ELSE Flushed(l)
              /\ needFlush' = needFlush \cup {l}
    /\ freeLogData(LogThread)
    /\ UNCHANGED <<state, calls, boot, queue, ghosts>>

\* Mutant of ToFlush: the counter of logs to flush is never looked at.
ToFlushNever == {}

ToFlush == {l \in needFlush : _loggers[l].enable}
ToClose == {l \in Loggers : ~_loggers[l].enable /\ _loggers[l].open}

\* The queue was found empty: flush what was written, close what is disabled.
runFlushes ==
    /\ At("flush", "quit")
    /\ file' = [l \in Loggers |-> IF l \in ToFlush \cup ToClose THEN Flushed(l)[l] ELSE file[l]]
    /\ needFlush' = needFlush \ ToFlush
    /\ _loggers' = [l \in Loggers |-> [_loggers[l] EXCEPT !.open = @ /\ l \notin ToClose]]
    /\ UNCHANGED <<state, hold, want, cur, calls, boot, queue, ghosts>>

\* Mutants of MayQuit: the queue is not looked at again; run waits for the
\* loggers to be disabled.
MayQuitEarly == ~_runing
MayQuitDisabled == ~_runing /\ _logs = <<>> /\ \A l \in Loggers : ~_loggers[l].enable

MayQuit == ~_runing /\ _logs = <<>>

\* After the sleep: another round, or the end, which closes what is enabled.
runQuits ==
    /\ pc[LogThread] = "quit"
    /\ IF MayQuit
       THEN /\ pc' = [pc EXCEPT ![LogThread] = "done"]
            /\ file' = [l \in Loggers |-> IF _loggers[l].enable THEN Flushed(l)[l] ELSE file[l]]
            /\ _loggers' = [l \in Loggers |->
                   [_loggers[l] EXCEPT !.enable = FALSE, !.open = @ /\ ~_loggers[l].enable]]
       ELSE pc' = [pc EXCEPT ![LogThread] = "pop"] /\ UNCHANGED <<file, _loggers>>
    /\ UNCHANGED <<state, hold, want, cur, calls, boot, queue, needFlush, ghosts>>

-----------------------------------------------------------------------------
Run ==
    \/ runStarts \/ runLogs \/ runPosts \/ popLog \/ handleChange \/ handleDiscard
    \/ \E opens, writes \in BOOLEAN : handleLog(opens, writes)
    \/ runFlushes \/ runQuits \/ keepLogData(LogThread)

InCall(t) ==
    \/ hotChange(t) \/ hotChangeDirect(t) \/ makeLogData(t) \/ pushLog(t) \/ pushLogs(t)
    \/ keepLogData(t)

Application == start \/ stop \/ \E t \in Threads, c \in Requests : Log(t, c) \/ Set(t, c)

Returns == stopReturns \/ \E ok \in BOOLEAN : startReturns(ok)

Next == Run \/ Application \/ Returns \/ \E t \in Threads : InCall(t)

Spec == Init /\ [][Next]_vars

\* The threads are scheduled and a call once made is carried on; start and
\* stop need not be called.
Fairness == WF_vars(Run) /\ WF_vars(Returns) /\ \A t \in Threads : WF_vars(InCall(t))

FairSpec == Spec /\ Fairness
-----------------------------------------------------------------------------
(* Types, and a LogData is in one place: queued once, kept for reuse once, *)
(* or held by one thread.  No log is overwritten by the next before it is  *)
(* written, and none is freed twice.                                       *)
OnePlace ==
    /\ TypeOK
    /\ \A i, j \in DOMAIN _logs : _logs[i].d = _logs[j].d => i = j
    /\ \A i, j \in DOMAIN _freeLogDatas : _freeLogDatas[i] = _freeLogDatas[j] => i = j
    /\ \A i \in DOMAIN _logs, j \in DOMAIN _freeLogDatas : _logs[i].d # _freeLogDatas[j]
    /\ \A a \in Actors : hold[a] # 0 =>
           /\ \A i \in DOMAIN _logs : _logs[i].d # hold[a]
           /\ \A i \in DOMAIN _freeLogDatas : _freeLogDatas[i] # hold[a]
           /\ \A b \in Actors \ {a} : hold[b] # hold[a]

(* log4z.h:96: "logger will not loss any log on process normal exit".  Of  *)
(* the logs pushed before stop none is left in the queue when run ends,    *)
(* and once start has returned true, stop returns only after that.  Only a *)
(* thread that passed pushLog's test of _runing before stop, and pushes    *)
(* after it, can leave a log there.  (When start has timed out, _runing    *)
(* may still be false and stop returns at once.)                           *)
DrainedAtExit ==
    /\ pc[LogThread] = "done" => \A i \in DOMAIN _logs : _logs[i].late
    /\ app = "returned" /\ startOk => pc[LogThread] = "done"

(* A change that makes a logger write less does not reach the logs pushed  *)
(* before it was asked for, unless hotChange applies it directly, which it *)
(* does while run drains the queue after stop.                             *)
EarlierKept == ~wronged

(* stop returns, however many logs and changes are queued.                 *)
StopReturns == (app = "stopping") ~> (app = "returned")

(* What is written to a file while run goes on is flushed: a log is not    *)
(* kept in the buffer of a logger whose attributes change at that moment.  *)
WrittenIsFlushed ==
    \A l \in Loggers : (file[l].flushed < Len(file[l].written))
                           ~> (file[l].flushed = Len(file[l].written))
=============================================================================
