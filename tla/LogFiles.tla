------------------------------ MODULE LogFiles ------------------------------
(***************************************************************************)
(* The loggers of LogerManager and the files they write: configuration     *)
(* before start, hot changes and updates of the configuration through the  *)
(* queue of the log thread, and openLogger, which picks the file of every  *)
(* log by its day, name and path, rolls it and removes the old ones.       *)
(*                                                                         *)
(* Time is the day; where the second counts, openLogger is handled at any  *)
(* one of it.  How threads interleave inside these calls is          *)
(* LogerManager's; here each call is one step and so is every LogData run  *)
(* takes off the queue.                                                    *)
(***************************************************************************)
EXTENDS LogConfig, FiniteSets

CONSTANTS LOGGER_MAX,    \* LOG4Z_LOGGER_MAX (20)
          KeyOrder,      \* the keys of the loggers, in the order of std::map
          Slashed,       \* the paths that do not end in a slash, and with one
          Contents,      \* what the configuration file may hold
          Changes,       \* calls of the setters: a field and a value
          Width, MB,     \* bits of an unsigned int (32), bytes of a megabyte (2^20)
          DaySeconds,    \* the seconds of a day (86400)
          LogSize,       \* _contentLen of a log
          DaysPerMonth,
          OpenFails,     \* whether fopen may fail
          LastDay,       \* bound: days
          MaxCalls       \* bound: calls of the application

ASSUME MaxAssumption == LOGGER_MAX \in Nat \ {0} /\ LastDay \in Nat /\ MaxCalls \in Nat
ASSUME SizeAssumption == {Width, MB, DaySeconds, LogSize, DaysPerMonth, 2^Width} \subseteq Nat \ {0}
ASSUME KeyAssumption == KeyOrder \in Seq(STRING) /\ IsInjective(KeyOrder) /\ MainKey \in Range(KeyOrder)
ASSUME ValueAssumption ==
    /\ LOG4Z_DEFAULT_LIMITSIZE \in 0 .. 2^Width - 1 /\ LOG4Z_DEFAULT_RESERVEDAYS \in 1 .. 2^Width - 1
    /\ \A text \in DOMAIN Numerals : Numerals[text] \in 0 .. 2^Width - 1
    /\ \A c \in Contents : c \in Seq(Range(c)) /\ \A i \in DOMAIN c : Bytes(c[i]) \in Nat
    /\ \A c \in Changes : /\ c[1] \in Fields
                          /\ c[1] \in {"limitsize", "reservedays"} => c[2] \in 0 .. 2^Width - 1

VARIABLES _ids, _loggers,    \* key -> id, id -> attributes
          runtime,           \* id -> _curFileCreateTime, _curFileIndex, _curWriteLen, _handle
          _configFile, disk, \* whether config was called; the file, or NoFile
          _checksum, _runing, _logs,
          files,             \* what is on the disk: file -> length
          today, calls,
          asked              \* the content the loggers ought to follow

vars == <<_ids, _loggers, runtime, _configFile, disk, _checksum, _runing, _logs, files, today, calls, asked>>
core == <<_configFile, disk, _checksum, _runing>>

NoFile  == <<Section("no file")>>
NoHandle == [dir |-> "", month |-> -1, name |-> "", day |-> -1]
Unlinked == [NoHandle EXCEPT !.name = "unlinked"]  \* open, but removed from the disk
Nobody  == [content |-> <<>>, keys |-> {}]
_lastId == Cardinality(DOMAIN _ids) - 1
Fresh   == [created |-> -1, index |-> 0, len |-> 0, handle |-> NoHandle]

Init ==
    /\ _ids = [k \in {MainKey} |-> 0]
    /\ _loggers = [i \in {0} |-> LoggerInfo(TRUE, MainKey)] /\ runtime = [i \in {0} |-> Fresh]
    /\ _configFile = FALSE /\ disk \in Contents \cup {NoFile}
    /\ _checksum = 0 /\ _runing = FALSE /\ _logs = <<>>
    /\ files = <<>> /\ today = 0 /\ calls = 0 /\ asked = Nobody

Ask == calls < MaxCalls /\ calls' = calls + 1

-----------------------------------------------------------------------------
(* The setters: what each asks for, and whether it takes effect at once.   *)

\* (unsigned int)-1.
Unlimited == 2^Width - 1

\* What the setters make of their argument.
Asked(field, v) ==
    CASE field = "limitsize"   -> IF v = 0 THEN Unlimited ELSE v
      [] field = "reservedays" -> IF v = 0 THEN LOG4Z_DEFAULT_RESERVEDAYS ELSE v
      [] field = "path"        -> IF v \in DOMAIN Slashed THEN Slashed[v] ELSE v
      [] OTHER -> v

\* setLoggerName and setLoggerPath ignore an empty text.
Refused(field, v) == field \in {"name", "path"} /\ v = ""

\* The state the setters work on: the loggers and the queue.
Here == [loggers |-> _loggers, logs |-> _logs]

\* hotChange and onHotChange, past the queue if the log thread is not running.
hotChange(st, id, field, v) ==
    IF _runing THEN [st EXCEPT !.logs = Append(@, [type |-> field, id |-> id, value |-> v, day |-> today])]
    ELSE [st EXCEPT !.loggers[id][field] = v]

setLogger(st, id, field, value) ==
    LET v == Asked(field, value)
    IN  IF Refused(field, value) THEN st
        ELSE IF (field = "enable" /\ v) \/ (field = "level" /\ v <= st.loggers[id].level)
             THEN [st EXCEPT !.loggers[id][field] = v]
        ELSE hotChange(st, id, field, v)

Set(id, field, value) ==
    /\ Ask
    /\ LET st == setLogger(Here, id, field, value) IN _loggers' = st.loggers /\ _logs' = st.logs
    /\ asked' = Nobody
    /\ UNCHANGED <<_ids, runtime, core, files, today>>

-----------------------------------------------------------------------------
(* Creating loggers and loading a configuration.                           *)

Full(ids) == Cardinality(DOMAIN ids) >= LOGGER_MAX

\* createLogger, for the keys in ks in their order: those that are new get
\* the next ids.
Creations(ids, ks) ==
    LET m[i \in 0 .. Len(KeyOrder)] ==
            IF i = 0 THEN ids
            ELSE IF KeyOrder[i] \in ks \ DOMAIN m[i - 1] /\ ~Full(m[i - 1])
                 THEN With(m[i - 1], KeyOrder[i], Cardinality(DOMAIN m[i - 1]))
            ELSE m[i - 1]
    IN  m

created(ids, ks) == Creations(ids, ks)[Len(KeyOrder)]

\* The attributes of the loggers once those of ids exist; new has those of a
\* new one for every key.
WithNew(f, ids, new) ==
    [i \in {ids[k] : k \in DOMAIN ids} |->
        IF i \in DOMAIN f THEN f[i] ELSE new[CHOOSE k \in DOMAIN ids : ids[k] = i]]

NewLogger == [k \in Range(KeyOrder) |-> LoggerInfo(TRUE, k)]
NewFile   == [k \in Range(KeyOrder) |-> Fresh]

createLogger(key) ==
    /\ ~_runing /\ Ask
    /\ _ids' = created(_ids, {key})
    /\ _loggers' = WithNew(_loggers, _ids', NewLogger)
    /\ runtime' = WithNew(runtime, _ids', NewFile)
    /\ UNCHANGED <<_logs, core, files, today, asked>>

\* The order of configFromStringImpl's setters.
FieldOrder == <<"enable", "name", "path", "level", "fileline", "display", "outfile", "limitsize",
                "monthdir", "reservedays">>

\* The loggers and the queue after each of the setters of one logger, and
\* after those of each logger of infos that exists.
SetterCalls(st, id, info) ==
    LET t[i \in 0 .. Len(FieldOrder)] ==
            IF i = 0 THEN st ELSE setLogger(t[i - 1], id, FieldOrder[i], info[FieldOrder[i]])
    IN  t

Configurations(st, ids, infos) ==
    LET t[i \in 0 .. Len(KeyOrder)] ==
            IF i = 0 THEN st
            ELSE IF KeyOrder[i] \in DOMAIN infos \cap DOMAIN ids
                 THEN SetterCalls(t[i - 1], ids[KeyOrder[i]], infos[KeyOrder[i]])[Len(FieldOrder)]
            ELSE t[i - 1]
    IN  t

Loads(content) == checksum(content) # _checksum

configFromStringImpl(content, isUpdate) ==
    LET infos == parseConfigFromString(content)
        ids   == IF isUpdate THEN _ids ELSE created(_ids, DOMAIN infos)
        begin == [Here EXCEPT !.loggers = WithNew(@, ids, NewLogger)]
        st    == Configurations(begin, ids, infos)[Len(KeyOrder)]
    IN  IF Loads(content)
        THEN /\ _checksum' = checksum(content) /\ _ids' = ids
             /\ _loggers' = st.loggers /\ _logs' = st.logs
             /\ runtime' = WithNew(runtime, ids, NewFile)
             /\ asked' = IF \E i \in DOMAIN _logs : _logs[i].type # "general" THEN Nobody
                         ELSE [content |-> content, keys |-> DOMAIN infos \cap DOMAIN ids]
        ELSE UNCHANGED <<_checksum, _ids, _loggers, _logs, runtime, asked>>

\* config: only the first call counts, even if there is no file to read, which
\* bounds its calls.
config ==
    /\ ~_runing /\ ~_configFile
    /\ _configFile' = TRUE
    /\ IF disk = NoFile THEN UNCHANGED <<_checksum, _ids, _loggers, _logs, runtime, asked>>
       ELSE configFromStringImpl(disk, FALSE)
    /\ UNCHANGED <<disk, _runing, files, today, calls>>

configFromString(content) ==
    /\ ~_runing /\ Ask
    /\ configFromStringImpl(content, FALSE)
    /\ UNCHANGED <<_configFile, disk, _runing, files, today>>

\* updateConfig, called by the application or by run.
updateConfig ==
    /\ _configFile /\ disk # NoFile /\ Ask
    /\ configFromStringImpl(disk, TRUE)
    /\ UNCHANGED <<_configFile, disk, _runing, files, today>>

\* Somebody edits the configuration file, or makes one.
Edit(content) ==
    /\ _configFile /\ content # disk /\ Ask
    /\ disk' = content
    /\ UNCHANGED <<_ids, _loggers, runtime, _configFile, _checksum, _runing, _logs, files, today, asked>>

start ==
    /\ ~_runing /\ _runing' = TRUE
    /\ UNCHANGED <<_ids, _loggers, runtime, _configFile, disk, _checksum, _logs, files, today, calls, asked>>

-----------------------------------------------------------------------------
(* Logs, and the log thread's handling of what is queued.                  *)

\* A log passes prePushLog and pushLog, and carries the day it was made.  Its
\* level is one no logger rejects.
Log(id) ==
    /\ _runing /\ _loggers[id].enable /\ Ask
    /\ _logs' = Append(_logs, [type |-> "general", id |-> id, value |-> 0, day |-> today])
    /\ UNCHANGED <<_ids, _loggers, runtime, core, files, today, asked>>

NextDay ==
    /\ today < LastDay /\ today' = today + 1
    /\ UNCHANGED <<_ids, _loggers, runtime, core, _logs, files, calls, asked>>

\* The file for the logs of a day under the attributes a.
FileOf(a, day) ==
    [dir |-> a.path, month |-> IF a.monthdir THEN day \div DaysPerMonth ELSE -1, name |-> a.name, day |-> day]

\* The seconds openLogger goes back from now, in an unsigned int.
Kept(a) == (a.reservedays * DaySeconds) % 2^Width

\* Mutant of Expired: a day too many.
ExpiredEarly(a, second) == (today * DaySeconds + second - Kept(a)) \div DaySeconds

\* The newest day whose file openLogger removes at that second of today.
Expired(a, second) == (today * DaySeconds + second - Kept(a)) \div DaySeconds - 1

\* It goes back from there, day by day, to the first file that is not there.
Removed(a, f, second) ==
    LET last == Expired(a, second)
    IN  {g \in DOMAIN files : /\ a.reservedays # 0 /\ g = [f EXCEPT !.day = g.day]
                              /\ g.day <= last
                              /\ \A d \in g.day .. last : [f EXCEPT !.day = d] \in DOMAIN files}

Limit(a) == (a.limitsize * MB) % 2^Width

\* Mutants of Closes: an open file is kept for the next day; it is kept
\* whatever has been written.
ClosesFull(a, rt, day) == rt.len > Limit(a)
ClosesDaily(a, rt, day) == day # rt.created

Closes(a, rt, day) == day # rt.created \/ rt.len > Limit(a)

\* A change of an attribute, applied by the log thread.
handleChange ==
    /\ _logs # <<>> /\ Head(_logs).type # "general"
    /\ LET m == Head(_logs)
       IN  /\ _loggers' = [_loggers EXCEPT ![m.id][m.type] = m.value]
           /\ runtime' = [runtime EXCEPT ![m.id].handle = NoHandle]
    /\ _logs' = Tail(_logs)
    /\ UNCHANGED <<_ids, core, files, today, calls, asked>>

\* openLogger finds a file open that will do.
handleLog ==
    /\ _logs # <<>> /\ Head(_logs).type = "general"
    /\ LET m  == Head(_logs)
           a  == _loggers[m.id]
           rt == runtime[m.id]
       IN  IF a.enable /\ a.outfile
           THEN /\ rt.handle # NoHandle /\ ~Closes(a, rt, m.day)
                /\ files' = IF rt.handle = Unlinked THEN files
                            ELSE [files EXCEPT ![rt.handle] = @ + LogSize]
                /\ runtime' = [runtime EXCEPT ![m.id].len = (@ + LogSize) % 2^Width]
           ELSE UNCHANGED <<files, runtime>>
    /\ _logs' = Tail(_logs)
    /\ UNCHANGED <<_ids, _loggers, core, today, calls, asked>>

\* openLogger opens the file of the log's day, after it has removed old ones.
openLogger(ok, second) ==
    /\ _logs # <<>> /\ Head(_logs).type = "general" /\ (~ok => OpenFails)
    /\ LET m  == Head(_logs)
           a  == _loggers[m.id]
           rt == runtime[m.id]
           f  == FileOf(a, m.day)
           gone == Removed(a, f, second)
           kept == [g \in DOMAIN files \ gone |-> files[g]]
       IN  /\ a.enable /\ a.outfile
           /\ rt.handle = NoHandle \/ Closes(a, rt, m.day)
           /\ runtime' = [i \in DOMAIN runtime |->
                  IF i = m.id
                  THEN [created |-> m.day,
                        index   |-> IF ~Closes(a, rt, m.day) THEN rt.index
                                    ELSE IF m.day # rt.created THEN 0 ELSE rt.index + 1,
                        len     |-> IF ok THEN LogSize % 2^Width ELSE 0,
                        handle  |-> IF ok THEN f ELSE NoHandle]
                  ELSE IF runtime[i].handle \in gone
                  THEN [runtime[i] EXCEPT !.handle = Unlinked]
                  ELSE runtime[i]]
           /\ files' = IF ok THEN With(kept, f, LogSize + (IF f \in DOMAIN kept THEN kept[f] ELSE 0))
                       ELSE kept
           /\ _loggers' = IF ok THEN _loggers ELSE [_loggers EXCEPT ![m.id].outfile = FALSE]
    /\ _logs' = Tail(_logs)
    /\ UNCHANGED <<_ids, core, today, calls, asked>>

Next ==
    \/ \E key \in Range(KeyOrder) : createLogger(key)
    \/ \E c \in Contents : configFromString(c) \/ Edit(c)
    \/ config \/ updateConfig \/ start \/ NextDay
    \/ \E id \in DOMAIN _loggers : Log(id) \/ \E c \in Changes : Set(id, c[1], c[2])
    \/ handleChange \/ handleLog
    \/ \E ok \in BOOLEAN, second \in 0 .. DaySeconds - 1 : openLogger(ok, second)

Spec == Init /\ [][Next]_vars
-----------------------------------------------------------------------------
\* Types.
TypeOK ==
    /\ DOMAIN _ids \subseteq Range(KeyOrder) /\ DOMAIN _loggers = DOMAIN runtime
    /\ {_configFile, _runing} \subseteq BOOLEAN /\ _checksum \in Nat
    /\ disk \in Contents \cup {NoFile} /\ today \in 0 .. LastDay /\ calls \in 0 .. MaxCalls
    /\ \A i \in DOMAIN _loggers :
           /\ DOMAIN _loggers[i] = Fields
           /\ _loggers[i].limitsize \in 0 .. 2^Width - 1 /\ _loggers[i].reservedays \in 1 .. 2^Width - 1
           /\ runtime[i].created \in -1 .. LastDay /\ runtime[i].len \in 0 .. 2^Width - 1
           /\ runtime[i].handle \in DOMAIN files \cup {NoHandle, Unlinked}
    /\ \A i \in DOMAIN _logs : _logs[i].id \in DOMAIN _loggers

(* Once the changes a load has queued are applied, every logger the        *)
(* content mentions is as the content says: the last line on a field       *)
(* counts, in whichever section of that name it is, what is not mentioned  *)
(* has its default again, and an empty name or path changes nothing.       *)
(* Loads that find earlier changes still queued, and later calls of the    *)
(* setters, are left out: enableLogger and setLoggerLevel overtake those.  *)
FollowsContent ==
    \A k \in asked.keys : \A f \in Fields :
        LET said == Says(asked.content, k, f)
            now  == _loggers[_ids[k]][f]
        IN  \/ \E i \in DOMAIN _logs : _logs[i].type # "general"
            \/ Refused(f, said) \/ now = Asked(f, said)
            \/ f = "outfile" /\ OpenFails /\ ~now

(* log4z.h:61: "support one day one log file".  Every log is written to    *)
(* the file of the day it was made, of the name and path its logger has at *)
(* that moment, also when it waited in the queue past midnight, behind a   *)
(* change of the name or behind a log of another day.  (Through a handle   *)
(* whose file openLogger has removed for another logger it reaches no      *)
(* file.)                                                                  *)
FiledByDay ==
    [][\A f \in DOMAIN files' :
           (f \notin DOMAIN files \/ files'[f] # files[f])
               => f = FileOf(_loggers[Head(_logs).id], Head(_logs).day)]_vars

(* log4z.h:182: "support logger reserve days".  Only files older than the  *)
(* days to be kept are removed, and the newest one that old is gone when a *)
(* file of today is opened, at whatever second of it.  (Older ones survive *)
(* behind a day without a file, and in the directory of another month.)    *)
(* That is so as long as the days fit an unsigned int as seconds: from     *)
(* 49711 days on the product of log4z.cpp:1728 wraps, and files of the     *)
(* days to be kept are removed.                                            *)
KeepsReserveDays ==
    [][files' # files =>
           LET m == Head(_logs)
               a == _loggers[m.id]
           IN  a.reservedays * DaySeconds < 2^Width
                   => /\ \A g \in DOMAIN files \ DOMAIN files' : g.day < today - a.reservedays
                      /\ m.day = today /\ runtime'[m.id].handle # runtime[m.id].handle
                             => [FileOf(a, m.day) EXCEPT !.day = today - a.reservedays - 1] \notin DOMAIN files']_vars

(* Types, and the ids are the first ones of the array _loggers, which has  *)
(* room for them.  A file is written through one handle no further than    *)
(* its limit and one log more, whenever the limit is changed; the limit is *)
(* _limitsize megabytes in 32 bits.  (The name has no index, so the file   *)
(* that is opened next is the same one again and goes on growing.)         *)
RollsAtLimit ==
    /\ TypeOK
    /\ {_ids[k] : k \in DOMAIN _ids} = 0 .. _lastId /\ _lastId < LOGGER_MAX
    /\ \A i \in DOMAIN runtime : runtime[i].handle # NoHandle => runtime[i].len <= Limit(_loggers[i]) + LogSize
=============================================================================
