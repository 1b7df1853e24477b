-------------------------- MODULE TCPClientProofs --------------------------
(***************************************************************************)
(* The safety properties of TCPClient, for any bounds and any set of calls *)
(* of the application.                                                     *)
(***************************************************************************)
EXTENDS TCPClient, SequenceTheorems, TLAPS

-----------------------------------------------------------------------------
(* The invariants.                                                         *)

\* What the loop calls for a connection, and the handlers bound to one.
Callbacks == {"up_fn", "msg_fn", "down_fn"}
OfConn    == {"close", "failed", "read", "write"}

USE DEF Callbacks, OfConn

\* A handler of the loop is bound to a connection that was made, and so is a
\* callback that runs.
BoundInv ==
    /\ \A i \in DOMAIN queue : queue[i].kind \in OfConn => queue[i].c \in DOMAIN conns
    /\ pc \in Callbacks => cur \in DOMAIN conns
    /\ Len(conns) <= MaxConns
    /\ socket_ = "connected" => Len(conns) < MaxConns

\* The handlers of a connection's read.
ReadEnds(c) == {OnConn("read", c), OnConn("failed", c)}

\* conn_ is a connection of a living client that is not down, and something is
\* left that will say so when it is.
ConnInv ==
    conn_ # 0 => /\ alive /\ conn_ \in DOMAIN conns
                 /\ conns[conn_].close_fn_ /\ conns[conn_].status_ # "kDisconnected"
                 /\ \/ "read" \in conns[conn_].ops
                    \/ \E i \in DOMAIN queue : queue[i] \in ReadEnds(conn_)
                    \/ pc \in Callbacks /\ cur = conn_

Kinds    == {"dialled", "timer", "disconnect", "close", "read", "write", "failed"}
Handlers == [kind : Kinds, ok : BOOLEAN, c : 0 .. MaxConns]
Places   == {"~TCPClient", "DisconnectInLoop", "OnRemoveConn", "dangling"}

\* The types of the variables that hold neither connections nor handlers.
Types ==
    /\ auto_reconnect_ \in BOOLEAN /\ timer \in BOOLEAN /\ alive \in BOOLEAN /\ plain \in BOOLEAN
    /\ late \in BOOLEAN
    /\ reconnecting_times_ \in Nat /\ calls \in Nat /\ conn_ \in Nat
    /\ socket_ \in {"closed", "connecting", "connected"}
    /\ pc \in {"idle", "up_fn", "msg_fn", "down_fn", "terminated"}
    /\ failed \in SUBSET Places

Stores == conns \in Seq(Conn) /\ queue \in Seq(Handlers) /\ cur \in 0 .. Len(conns)

HeldInv == Types /\ Stores /\ BoundInv /\ ConnInv

\* At most one of a dial, a wait and a connection, and the number of attempts:
\* one that waits may still be made, and a connection starts the count again.
\* A client that was deleted makes none.
ChainInv ==
    /\ \A i \in DOMAIN queue : queue[i].kind # "disconnect"
    /\ \A i, j \in Attempts : i = j
    /\ reconnecting_times_ <= MaxReconnect
    /\ Attempts # {} => ~timer /\ socket_ # "connecting" /\ conn_ = 0
    /\ timer => socket_ # "connecting" /\ conn_ = 0
    /\ socket_ = "connecting" => conn_ = 0
    /\ timer => reconnecting_times_ < MaxReconnect
    /\ \A i \in DOMAIN queue : queue[i].kind = "timer" => reconnecting_times_ < MaxReconnect
    /\ conn_ # 0 => reconnecting_times_ = 0
    /\ ~alive => Attempts = {} /\ socket_ = "closed" /\ ~timer

\* What is left of an earlier connection fails before the next dial ends.
FailedFirst == \A i \in DOMAIN queue, j \in Attempts : queue[i].kind = "failed" => i < j

\* A connection that can start nothing that would fail and be noticed.
Gone(c) ==
    /\ conns[c].ops = {} /\ ~conns[c].open
    /\ conns[c].status_ = "kDisconnected" \/ (pc = "down_fn" /\ cur = c)

\* Of a client that lives, only the current connection can still fail, and no
\* other is reported down.
LiveInv ==
    /\ \A c \in DOMAIN conns : c # conn_ => Gone(c)
    /\ pc = "down_fn" => conns[cur].ops = {} /\ ~conns[cur].open
    /\ conn_ # 0 => /\ \A i \in DOMAIN queue : queue[i].kind = "failed" => queue[i].c = conn_
                    /\ pc = "down_fn" => cur = conn_

\* Of a client that was deleted, nothing is left that would reach it.
DeadInv ==
    /\ \A c \in DOMAIN conns : conns[c].close_fn_ => Gone(c)
    /\ \A i \in DOMAIN queue : queue[i].kind = "failed" => ~conns[queue[i].c].close_fn_
    /\ pc = "down_fn" => ~conns[cur].close_fn_

SafeInv ==
    /\ FailedFirst
    /\ alive => LiveInv
    /\ ~alive => DeadInv
    /\ failed = {}

IndInv == HeldInv /\ (plain => ChainInv) /\ (plain /\ ~late => SafeInv)

-----------------------------------------------------------------------------
(* The queue and the connections.                                          *)

\* The first d handlers leave the queue and n times h joins it.
Moves(d, n, h) ==
    /\ Len(queue') = Len(queue) - d + n
    /\ \A i \in DOMAIN queue' : queue'[i] = IF i <= Len(queue) - d THEN queue[i + d] ELSE h

\* Connection c has become r, and the others are as they were.
Becomes(c, r) ==
    /\ Len(conns') = Len(conns)
    /\ \A e \in DOMAIN conns : conns'[e] = IF e = c THEN r ELSE conns[e]

\* The handlers that are posted.
LEMMA HandlerTypes ==
    ASSUME NEW c \in 0 .. MaxConns
    PROVE  /\ \A k \in Kinds : Handler(k) \in Handlers /\ OnConn(k, c) \in Handlers
           /\ \A ok \in BOOLEAN : Dialled(ok) \in Handlers
  <1>1. MaxConns \in Nat /\ 0 \in 0 .. MaxConns
    BY BoundAssumption
  <1>2. FALSE \in BOOLEAN
    OBVIOUS
  <1>3. \A k \in Kinds : Handler(k) \in Handlers /\ OnConn(k, c) \in Handlers
    BY <1>1, <1>2, Zenon DEF Handler, OnConn, Handlers
  <1>4. "dialled" \in Kinds
    BY DEF Kinds
  <1>5. \A ok \in BOOLEAN : Dialled(ok) \in Handlers
    BY <1>1, <1>4, Zenon DEF Dialled, Handlers
  <1>. QED BY <1>3, <1>5

\* The parts of a handler.
LEMMA HandlerParts ==
    ASSUME NEW k, NEW c, NEW ok
    PROVE  /\ Handler(k).kind = k /\ Handler(k).c = 0
           /\ OnConn(k, c).kind = k /\ OnConn(k, c).c = c
           /\ Dialled(ok).kind = "dialled" /\ Dialled(ok).c = 0 /\ Dialled(ok).ok = ok
  BY DEF Handler, OnConn, Dialled

\* The queue as the actions change it.
LEMMA QueueMoves ==
    ASSUME queue \in Seq(Handlers)
    PROVE  /\ queue' = queue => queue' \in Seq(Handlers) /\ \A h : Moves(0, 0, h)
           /\ \A h \in Handlers : queue' = Append(queue, h)
                 => queue' \in Seq(Handlers) /\ Moves(0, 1, h)
           /\ queue # <<>> /\ queue' = Tail(queue)
                 => queue' \in Seq(Handlers) /\ \A h : Moves(1, 0, h)
           /\ \A h \in Handlers : queue # <<>> /\ queue' = Append(Tail(queue), h)
                 => queue' \in Seq(Handlers) /\ Moves(1, 1, h)
  <1>1. ASSUME queue' = queue
        PROVE  queue' \in Seq(Handlers) /\ \A h : Moves(0, 0, h)
    BY <1>1 DEF Moves
  <1>2. ASSUME NEW h \in Handlers, queue' = Append(queue, h)
        PROVE  queue' \in Seq(Handlers) /\ Moves(0, 1, h)
    BY <1>2 DEF Moves
  <1>3. ASSUME queue # <<>>, queue' = Tail(queue)
        PROVE  queue' \in Seq(Handlers) /\ \A h : Moves(1, 0, h)
    BY <1>3 DEF Moves
  <1>4. ASSUME NEW h \in Handlers, queue # <<>>, queue' = Append(Tail(queue), h)
        PROVE  queue' \in Seq(Handlers) /\ Moves(1, 1, h)
    <2>1. /\ Tail(queue) \in Seq(Handlers) /\ Len(Tail(queue)) = Len(queue) - 1
          /\ \A i \in 1 .. Len(queue) - 1 : Tail(queue)[i] = queue[i + 1]
      BY <1>4
    <2>. QED BY <1>4, <2>1 DEF Moves
  <1>. QED BY <1>1, <1>2, <1>3, <1>4, Zenon

\* A handler that may join the queue.
LEMMA MayJoin ==
    ASSUME NEW t \in Seq(Handlers), NEW h \in Handlers, NEW a \in {<<>>, <<h>>}
    PROVE  /\ t \o a \in Seq(Handlers) /\ Len(a) \in {0, 1} /\ Len(t \o a) = Len(t) + Len(a)
           /\ \A i \in 1 .. Len(t \o a) : (t \o a)[i] = IF i <= Len(t) THEN t[i] ELSE h
  <1>1. CASE a = <<>>
    <2>1. t \o a = t /\ Len(a) = 0
      BY <1>1
    <2>. QED BY <2>1
  <1>2. CASE a = <<h>>
    <2>1. t \o a = Append(t, h) /\ Len(a) = 1
      BY <1>2
    <2>2. /\ Append(t, h) \in Seq(Handlers) /\ Len(Append(t, h)) = Len(t) + 1
          /\ \A i \in 1 .. Len(t) + 1 : Append(t, h)[i] = IF i <= Len(t) THEN t[i] ELSE h
      OBVIOUS
    <2>. QED BY <2>1, <2>2
  <1>. QED BY <1>1, <1>2

\* The queue after a socket was closed.
LEMMA QueueAborts ==
    ASSUME queue \in Seq(Handlers), queue # <<>>, NEW h \in Handlers,
           NEW a \in {<<>>, <<h>>}, NEW b \in {<<>>, <<h>>}, queue' = Tail(queue) \o a \o b
    PROVE  queue' \in Seq(Handlers) /\ Moves(1, Len(a) + Len(b), h)
  <1>1. PICK t : t = Tail(queue)
    OBVIOUS
  <1>2. /\ t \in Seq(Handlers) /\ Len(t) = Len(queue) - 1
        /\ \A i \in 1 .. Len(t) : t[i] = queue[i + 1]
    BY ONLY queue \in Seq(Handlers), queue # <<>>, <1>1
  <1>3. PICK u : u = t \o a
    OBVIOUS
  <1>4. PICK v : v = u \o b
    OBVIOUS
  <1>5. queue' = v
    BY <1>1, <1>3, <1>4, Zenon
  <1>6. /\ u \in Seq(Handlers) /\ Len(a) \in {0, 1} /\ Len(u) = Len(t) + Len(a)
        /\ \A i \in 1 .. Len(u) : u[i] = IF i <= Len(t) THEN t[i] ELSE h
    BY <1>2, <1>3, MayJoin, ZenonT(40)
  <1>7. /\ v \in Seq(Handlers) /\ Len(b) \in {0, 1} /\ Len(v) = Len(u) + Len(b)
        /\ \A i \in 1 .. Len(v) : v[i] = IF i <= Len(u) THEN u[i] ELSE h
    BY <1>4, <1>6, MayJoin, ZenonT(40)
  <1>8. Len(t) \in Nat /\ Len(u) \in Nat /\ Len(v) \in Nat /\ Len(queue) \in Nat
    BY ONLY queue \in Seq(Handlers), <1>2, <1>6, <1>7
  <1>9. /\ Len(v) = Len(queue) - 1 + (Len(a) + Len(b)) /\ DOMAIN v = 1 .. Len(v)
        /\ \A i \in DOMAIN v : v[i] = IF i <= Len(queue) - 1 THEN queue[i + 1] ELSE h
    <2>1. Len(v) = Len(queue) - 1 + (Len(a) + Len(b)) /\ DOMAIN v = 1 .. Len(v)
      BY ONLY <1>2, <1>6, <1>7, <1>8
    <2>2. ASSUME NEW i \in 1 .. Len(v), i <= Len(t) PROVE v[i] = queue[i + 1] /\ i <= Len(queue) - 1
      <3>1. i \in 1 .. Len(t) /\ i \in 1 .. Len(u) /\ i <= Len(u)
        BY ONLY <1>2, <1>6, <1>8, <2>2, i \in 1 .. Len(v)
      <3>2. v[i] = u[i]
        BY <1>7, <3>1, Zenon
      <3>3. u[i] = t[i]
        BY <1>6, <2>2, <3>1, Zenon
      <3>4. t[i] = queue[i + 1]
        BY <1>2, <3>1, Zenon
      <3>5. i <= Len(queue) - 1
        BY ONLY <1>2, <2>2
      <3>. QED BY <3>2, <3>3, <3>4, <3>5, Zenon
    <2>3. ASSUME NEW i \in 1 .. Len(v), ~(i <= Len(t)) PROVE v[i] = h /\ ~(i <= Len(queue) - 1)
      <3>1. i <= Len(u) => i \in 1 .. Len(u)
        BY ONLY <1>8, i \in 1 .. Len(v)
      <3>. QED BY ONLY <1>2, <1>6, <1>7, <1>8, <2>3, <3>1, i \in 1 .. Len(v)
    <2>. QED BY <2>1, <2>2, <2>3
  <1>10. /\ Len(queue') = Len(queue) - 1 + (Len(a) + Len(b))
         /\ \A i \in DOMAIN queue' : queue'[i] = IF i <= Len(queue) - 1 THEN queue[i + 1] ELSE h
    BY <1>5, <1>9, Zenon
  <1>. QED BY <1>5, <1>7, <1>10, Zenon DEF Moves

\* A connection is replaced by a connection.
LEMMA ConnBecomes ==
    ASSUME conns \in Seq(Conn), NEW c \in DOMAIN conns, NEW r \in Conn,
           conns' = [conns EXCEPT ![c] = r]
    PROVE  conns' \in Seq(Conn) /\ Becomes(c, r)
  BY DEF Becomes

\* What the actions make of a connection.
WithOps(r, o)    == [r EXCEPT !.ops = o]
WithStatus(r, s) == [r EXCEPT !.status_ = s]
Shut(r, s)       == [r EXCEPT !.status_ = s, !.open = FALSE, !.ops = {}]
Silent(r)        == [r EXCEPT !.close_fn_ = FALSE]

Statuses   == {"kConnected", "kDisconnecting", "kDisconnected"}
Operations == {"read", "write"}

\* The fields of a connection.
LEMMA ConnFields ==
    ASSUME NEW r \in Conn
    PROVE  r.status_ \in Statuses /\ r.open \in BOOLEAN /\ r.ops \in SUBSET Operations /\ r.close_fn_ \in BOOLEAN
  BY Zenon DEF Conn, Statuses, Operations

\* The changed connections are connections, with these fields.
LEMMA WithOpsFields ==
    ASSUME NEW r \in Conn, NEW o \in SUBSET Operations
    PROVE  /\ WithOps(r, o) \in Conn /\ WithOps(r, o).ops = o /\ WithOps(r, o).open = r.open
           /\ WithOps(r, o).status_ = r.status_ /\ WithOps(r, o).close_fn_ = r.close_fn_
  <1>1. r.status_ \in Statuses /\ r.open \in BOOLEAN /\ r.ops \in SUBSET Operations /\ r.close_fn_ \in BOOLEAN
    BY ConnFields
  <1>. QED BY <1>1, Zenon DEF WithOps, Conn, Statuses, Operations

\* The same for a new status.
LEMMA WithStatusFields ==
    ASSUME NEW r \in Conn, NEW s \in Statuses
    PROVE  /\ WithStatus(r, s) \in Conn /\ WithStatus(r, s).status_ = s
           /\ WithStatus(r, s).ops = r.ops /\ WithStatus(r, s).open = r.open
           /\ WithStatus(r, s).close_fn_ = r.close_fn_
  <1>1. r.status_ \in Statuses /\ r.open \in BOOLEAN /\ r.ops \in SUBSET Operations /\ r.close_fn_ \in BOOLEAN
    BY ConnFields
  <1>. QED BY <1>1, Zenon DEF WithStatus, Conn, Statuses, Operations

\* The same for a closed socket.
LEMMA ShutFields ==
    ASSUME NEW r \in Conn, NEW s \in Statuses
    PROVE  /\ Shut(r, s) \in Conn /\ Shut(r, s).status_ = s
           /\ Shut(r, s).ops = {} /\ Shut(r, s).open = FALSE /\ Shut(r, s).close_fn_ = r.close_fn_
  <1>1. r.status_ \in Statuses /\ r.open \in BOOLEAN /\ r.ops \in SUBSET Operations /\ r.close_fn_ \in BOOLEAN
    BY ConnFields
  <1>2. {} \in SUBSET Operations /\ FALSE \in BOOLEAN
    OBVIOUS
  <1>. QED BY <1>1, <1>2, Zenon DEF Shut, Conn, Statuses, Operations

\* The same for a close callback that was taken away.
LEMMA SilentFields ==
    ASSUME NEW r \in Conn
    PROVE  /\ Silent(r) \in Conn /\ Silent(r).status_ = r.status_
           /\ Silent(r).ops = r.ops /\ Silent(r).open = r.open /\ Silent(r).close_fn_ = FALSE
  <1>1. r.status_ \in Statuses /\ r.open \in BOOLEAN /\ r.ops \in SUBSET Operations /\ r.close_fn_ \in BOOLEAN
    BY ConnFields
  <1>2. FALSE \in BOOLEAN
    OBVIOUS
  <1>. QED BY <1>1, <1>2, Zenon DEF Silent, Conn, Statuses, Operations

-----------------------------------------------------------------------------
(* HeldUntilDown.                                                          *)

\* The queue moves by d and n times h, and h is bound to a connection.
Step(d, n, h) ==
    /\ d \in {0, 1} /\ n \in Nat /\ (d = 1 => queue # <<>>)
    /\ queue' \in Seq(Handlers) /\ Moves(d, n, h)
    /\ h.kind \in OfConn => h.c \in DOMAIN conns

\* No connection is forgotten.
Keeps == conns' \in Seq(Conn) /\ Len(conns') >= Len(conns)

\* Handlers stay bound to connections.
LEMMA StaysBound ==
    ASSUME HeldInv, Keeps, NEW d, NEW n, NEW h, Step(d, n, h)
    PROVE  \A i \in DOMAIN queue' : queue'[i].kind \in OfConn => queue'[i].c \in DOMAIN conns'
  <1>. SUFFICES ASSUME NEW i \in DOMAIN queue', queue'[i].kind \in OfConn
                PROVE  queue'[i].c \in DOMAIN conns'
    OBVIOUS
  <1>1. \A c \in DOMAIN conns : c \in DOMAIN conns'
    BY DEF HeldInv, Stores, Keeps
  <1>2. CASE i <= Len(queue) - d
    <2>1. i + d \in DOMAIN queue /\ queue'[i] = queue[i + d]
      BY <1>2 DEF Step, Moves, HeldInv, Stores
    <2>. QED BY <1>1, <2>1 DEF HeldInv, BoundInv
  <1>3. CASE ~(i <= Len(queue) - d)
    <2>1. queue'[i] = h
      BY <1>3 DEF Step, Moves
    <2>. QED BY <1>1, <2>1 DEF Step
  <1>. QED BY <1>2, <1>3

\* The connection held is still held, and what is left of its read is still
\* there: it may leave the kernel if its end is posted.
Holds(d, n, h) ==
    conn_ # 0 => /\ alive'
                 /\ conns'[conn_].close_fn_ /\ conns'[conn_].status_ # "kDisconnected"
                 /\ "read" \in conns[conn_].ops
                       => "read" \in conns'[conn_].ops \/ (n > 0 /\ h \in ReadEnds(conn_))
                 /\ d = 1 => Head(queue) \notin ReadEnds(conn_) \/ (pc' \in Callbacks /\ cur' = conn_)
                 /\ pc \in Callbacks /\ cur = conn_
                       => \/ pc' \in Callbacks /\ cur' = conn_
                          \/ "read" \in conns'[conn_].ops \/ (n > 0 /\ h \in ReadEnds(conn_))

\* Such a step keeps ConnInv.
LEMMA StaysHeld ==
    ASSUME HeldInv, Keeps, NEW d, NEW n, NEW h, Step(d, n, h), Holds(d, n, h), conn_' = conn_
    PROVE  ConnInv'
  <1>. SUFFICES ASSUME conn_ # 0
                PROVE  /\ alive' /\ conn_ \in DOMAIN conns'
                       /\ conns'[conn_].close_fn_ /\ conns'[conn_].status_ # "kDisconnected"
                       /\ \/ "read" \in conns'[conn_].ops
                          \/ \E i \in DOMAIN queue' : queue'[i] \in ReadEnds(conn_)
                          \/ pc' \in Callbacks /\ cur' = conn_
    BY DEF ConnInv
  <1>1. alive' /\ conns'[conn_].close_fn_ /\ conns'[conn_].status_ # "kDisconnected"
    BY DEF Holds
  <1>2. conn_ \in DOMAIN conns /\ conn_ \in DOMAIN conns'
    BY DEF HeldInv, Stores, ConnInv, Keeps
  <1>3. ASSUME n > 0, h \in ReadEnds(conn_)
        PROVE  \E i \in DOMAIN queue' : queue'[i] \in ReadEnds(conn_)
    <2>1. Len(queue') \in DOMAIN queue' /\ ~(Len(queue') <= Len(queue) - d)
      BY <1>3 DEF Step, Moves, HeldInv, Stores
    <2>2. queue'[Len(queue')] = h
      BY <2>1 DEF Step, Moves
    <2>. QED BY <1>3, <2>1, <2>2
  <1>4. CASE "read" \in conns[conn_].ops
    BY <1>1, <1>2, <1>3, <1>4 DEF Holds
  <1>5. CASE \E i \in DOMAIN queue : queue[i] \in ReadEnds(conn_)
    <2>1. PICK i \in DOMAIN queue : queue[i] \in ReadEnds(conn_)
      BY <1>5
    <2>2. CASE d = 0 \/ i > 1
      <3>1. i - d \in DOMAIN queue' /\ i - d <= Len(queue) - d /\ (i - d) + d = i
        BY <2>2, SMTT(30) DEF Step, Moves, HeldInv, Stores
      <3>2. queue'[i - d] = queue[i]
        BY <3>1 DEF Step, Moves
      <3>. QED BY <1>1, <1>2, <2>1, <3>1, <3>2
    <2>3. CASE d = 1 /\ i = 1
      <3>1. Head(queue) \in ReadEnds(conn_)
        BY <2>1, <2>3 DEF HeldInv, Stores
      <3>. QED BY <1>1, <1>2, <2>3, <3>1 DEF Holds
    <2>. QED BY <2>2, <2>3 DEF Step, HeldInv, Stores
  <1>6. CASE pc \in Callbacks /\ cur = conn_
    BY <1>1, <1>2, <1>3, <1>6 DEF Holds
  <1>. QED BY <1>4, <1>5, <1>6 DEF HeldInv, ConnInv

\* What is left to show of a step that holds what was held.
LEMMA HeldKeeps ==
    ASSUME HeldInv, Keeps, NEW d, NEW n, NEW h, Step(d, n, h),
           Types', cur' \in 0 .. Len(conns'), pc' \in Callbacks => cur' \in DOMAIN conns',
           Len(conns') <= MaxConns, socket_' = "connected" => Len(conns') < MaxConns,
           ConnInv'
    PROVE  HeldInv'
  <1>1. BoundInv'
    BY StaysBound DEF BoundInv
  <1>2. Stores'
    BY DEF Stores, Keeps, Step
  <1>. QED BY <1>1, <1>2 DEF HeldInv

\* The handler at the head of the queue is one, and a connection is one.
LEMMA HeadType ==
    ASSUME HeldInv, queue # <<>>
    PROVE  /\ Head(queue) \in Handlers /\ Head(queue) = queue[1] /\ 1 \in DOMAIN queue
           /\ Head(queue).kind \in OfConn => Head(queue).c \in DOMAIN conns
  <1>1. Head(queue) = queue[1] /\ 1 \in DOMAIN queue /\ Head(queue) \in Handlers
    BY DEF HeldInv, Stores
  <1>. QED BY <1>1 DEF HeldInv, BoundInv

\* Neither the connections nor the callback that runs change, and the handler
\* that leaves is not that of a connection's read.
LEMMA QuietHeld ==
    ASSUME HeldInv, NEW d, NEW n, NEW h, Step(d, n, h), UNCHANGED <<conns, conn_, loop>>, Types',
           alive' = alive, d = 1 => Head(queue).kind \notin {"read", "failed"},
           socket_' = "connected" => Len(conns) < MaxConns
    PROVE  HeldInv'
  <1>1. Keeps
    BY DEF HeldInv, Stores, Keeps
  <1>2. Head(queue).kind \notin {"read", "failed"} => Head(queue) \notin ReadEnds(conn_)
    BY HandlerParts DEF ReadEnds
  <1>3. Holds(d, n, h)
    BY <1>2 DEF HeldInv, ConnInv, Holds, loop
  <1>4. ConnInv'
    BY <1>1, <1>3, StaysHeld
  <1>. QED BY <1>1, <1>4, HeldKeeps DEF HeldInv, Stores, BoundInv, loop

\* The types after a step that changes no more than these.
LEMMA SameTypes ==
    ASSUME Types, auto_reconnect_' = auto_reconnect_, UNCHANGED <<loop, alive, calls, plain, conn_>>,
           late' \in BOOLEAN
    PROVE  /\ UNCHANGED <<reconnecting_times_, socket_, timer>> /\ failed' \in SUBSET Places => Types'
           /\ UNCHANGED <<reconnecting_times_, socket_, failed>> /\ timer' \in BOOLEAN => Types'
           /\ UNCHANGED <<timer, failed>> /\ reconnecting_times_' \in Nat
              /\ socket_' \in {"closed", "connecting", "connected"} => Types'
  BY DEF Types, loop

\* The steps of the queue that the actions take.
LEMMA Steps ==
    ASSUME HeldInv, NEW h \in Handlers, h.kind \in OfConn => h.c \in DOMAIN conns
    PROVE  /\ queue' = queue => Step(0, 0, h)
           /\ queue' = Append(queue, h) => Step(0, 1, h)
           /\ queue # <<>> /\ queue' = Tail(queue) => Step(1, 0, h)
           /\ queue # <<>> /\ queue' = Append(Tail(queue), h) => Step(1, 1, h)
  <1>0. queue \in Seq(Handlers)
    BY DEF HeldInv, Stores
  <1>1. ASSUME queue' = queue PROVE Step(0, 0, h)
    <2>1. queue' \in Seq(Handlers) /\ Moves(0, 0, h)
      BY <1>0, <1>1, QueueMoves
    <2>. QED BY <2>1 DEF Step
  <1>2. ASSUME queue' = Append(queue, h) PROVE Step(0, 1, h)
    <2>1. queue' \in Seq(Handlers) /\ Moves(0, 1, h)
      BY <1>0, <1>2, QueueMoves
    <2>. QED BY <2>1 DEF Step
  <1>3. ASSUME queue # <<>>, queue' = Tail(queue) PROVE Step(1, 0, h)
    <2>1. queue' \in Seq(Handlers) /\ Moves(1, 0, h)
      BY <1>0, <1>3, QueueMoves
    <2>. QED BY <1>3, <2>1 DEF Step
  <1>4. ASSUME queue # <<>>, queue' = Append(Tail(queue), h) PROVE Step(1, 1, h)
    <2>1. queue' \in Seq(Handlers) /\ Moves(1, 1, h)
      BY <1>0, <1>4, QueueMoves
    <2>. QED BY <1>4, <2>1 DEF Step
  <1>. QED BY <1>1, <1>2, <1>3, <1>4

\* The handlers posted that are bound to the client.
LEMMA ClientHandlers ==
    /\ \A k \in Kinds : Handler(k) \in Handlers /\ Handler(k).kind = k
    /\ \A ok \in BOOLEAN : Dialled(ok) \in Handlers /\ Dialled(ok).kind = "dialled"
    /\ {"timer", "disconnect", "dialled", "close", "read", "write", "failed"} \subseteq Kinds
  <1>1. 0 \in 0 .. MaxConns
    BY BoundAssumption
  <1>. QED BY <1>1, HandlerTypes, HandlerParts DEF Kinds

\* A deleted client is used.
LEMMA DanglesHeld ==
    ASSUME HeldInv, queue # <<>>, Head(queue).kind \notin {"read", "failed"}, Dangles
    PROVE  HeldInv'
  <1>1. Step(1, 0, Handler("timer"))
    <2>1. queue' = Tail(queue) /\ queue \in Seq(Handlers)
      BY DEF Dangles, HeldInv, Stores
    <2>2. queue' \in Seq(Handlers) /\ Moves(1, 0, Handler("timer"))
      BY <2>1, QueueMoves, Zenon
    <2>3. Handler("timer").kind \notin OfConn
      BY HandlerParts DEF OfConn
    <2>. QED BY <2>2, <2>3 DEF Step
  <1>2. failed' \in SUBSET Places
    BY DEF Dangles, HeldInv, Types, Places
  <1>3. Types'
    BY <1>2, SameTypes DEF Dangles, HeldInv, Types, flags, dial, held, count
  <1>. QED BY <1>1, <1>3, QuietHeld DEF Dangles, held, dial, HeldInv, BoundInv

\* A dial begins, which may abort another.
LEMMA ConnectSteps ==
    ASSUME HeldInv
    PROVE  /\ Connect(queue) => \E n \in {0, 1} : Step(0, n, Dialled(FALSE))
           /\ queue # <<>> /\ Connect(Tail(queue)) => \E n \in {0, 1} : Step(1, n, Dialled(FALSE))
  <1>1. Dialled(FALSE) \in Handlers /\ Dialled(FALSE).kind = "dialled"
    BY ClientHandlers
  <1>2. ASSUME Connect(queue) PROVE \E n \in {0, 1} : Step(0, n, Dialled(FALSE))
    <2>1. queue' = queue \/ queue' = Append(queue, Dialled(FALSE))
      BY <1>2 DEF Connect
    <2>2. Step(0, 0, Dialled(FALSE)) \/ Step(0, 1, Dialled(FALSE))
      BY <1>1, <2>1, Steps
    <2>. QED BY <2>2
  <1>3. ASSUME queue # <<>>, Connect(Tail(queue)) PROVE \E n \in {0, 1} : Step(1, n, Dialled(FALSE))
    <2>1. queue' = Tail(queue) \/ queue' = Append(Tail(queue), Dialled(FALSE))
      BY <1>3 DEF Connect
    <2>2. Step(1, 0, Dialled(FALSE)) \/ Step(1, 1, Dialled(FALSE))
      BY <1>1, <1>3, <2>1, Steps
    <2>. QED BY <2>2
  <1>. QED BY <1>2, <1>3

\* The timer's handler.
LEMMA RunTimerHeld == ASSUME HeldInv, RunTimer PROVE HeldInv'
  <1>1. queue # <<>> /\ Head(queue).kind = "timer"
    BY DEF RunTimer, Runs
  <1>2. CASE Dangles
    BY <1>1, <1>2, DanglesHeld
  <1>3. CASE alive /\ Reconnect(Tail(queue)) /\ UNCHANGED <<auto_reconnect_, timer, held, loop, app>>
    <2>1. PICK n \in {0, 1} : Step(1, n, Dialled(FALSE))
      BY <1>1, <1>3, ConnectSteps DEF Reconnect
    <2>2. Types'
      BY <1>3, SameTypes DEF Reconnect, Connect, HeldInv, Types, held, app, count
    <2>3. socket_' # "connected" /\ UNCHANGED <<conns, conn_, loop>> /\ alive' = alive
      BY <1>3 DEF Reconnect, Connect, held, app
    <2>. QED BY <1>1, <2>1, <2>2, <2>3, QuietHeld
  <1>. QED BY <1>2, <1>3 DEF RunTimer

\* The kernel's answer to a dial.
LEMMA DialEndsHeld == ASSUME HeldInv, NEW ok \in BOOLEAN, DialEnds(ok) PROVE HeldInv'
  <1>1. Dialled(ok) \in Handlers /\ Dialled(ok).kind = "dialled"
    BY ClientHandlers
  <1>2. Step(0, 1, Dialled(ok))
    BY <1>1, Steps DEF DialEnds
  <1>3. Types'
    BY SameTypes DEF DialEnds, HeldInv, Types, held, app, flags, count
  <1>. QED BY <1>2, <1>3, QuietHeld DEF DialEnds, held, app

\* The timer expires.
LEMMA TimerFiresHeld == ASSUME HeldInv, TimerFires PROVE HeldInv'
  <1>1. Handler("timer") \in Handlers /\ Handler("timer").kind = "timer"
    BY ClientHandlers
  <1>2. Step(0, 1, Handler("timer"))
    BY <1>1, Steps DEF TimerFires
  <1>3. Types'
    BY SameTypes DEF TimerFires, HeldInv, Types, held, app, flags, count
  <1>. QED BY <1>2, <1>3, QuietHeld DEF TimerFires, held, app, HeldInv, BoundInv

\* The flag is set or cleared.
LEMMA SetAutoReconnectHeld == ASSUME HeldInv, SetAutoReconnect PROVE HeldInv'
  <1>1. Types'
    BY DEF SetAutoReconnect, Call, HeldInv, Types, dial, held, loop
  <1>. QED BY <1>1 DEF SetAutoReconnect, HeldInv, Stores, BoundInv, ConnInv, dial, held, loop

\* A callback dials again.
LEMMA ConnectFromCallbackHeld == ASSUME HeldInv, ConnectFromCallback PROVE HeldInv'
  <1>1. PICK n \in {0, 1} : Step(0, n, Dialled(FALSE))
    BY ConnectSteps DEF ConnectFromCallback
  <1>2. Types'
    BY DEF ConnectFromCallback, Connect, Call, HeldInv, Types, flags, held, loop
  <1>3. socket_' # "connected" /\ UNCHANGED <<conns, conn_, loop>> /\ alive' = alive
    BY DEF ConnectFromCallback, Connect, held
  <1>4. 0 = 1 => Head(queue).kind \notin {"read", "failed"}
    OBVIOUS
  <1>. QED BY <1>1, <1>2, <1>3, <1>4, QuietHeld, Zenon

\* Disconnect is posted.
LEMMA DisconnectHeld == ASSUME HeldInv, Disconnect PROVE HeldInv'
  <1>1. Handler("disconnect") \in Handlers /\ Handler("disconnect").kind = "disconnect"
    BY ClientHandlers
  <1>2. Step(0, 1, Handler("disconnect"))
    BY <1>1, Steps DEF Disconnect
  <1>3. Types'
    BY DEF Disconnect, Call, HeldInv, Types, held, flags, dial, loop
  <1>. QED BY <1>2, <1>3, QuietHeld DEF Disconnect, held, dial, HeldInv, BoundInv

\* The two ways on for a dial that failed.
LEMMA DialFailedSteps ==
    ASSUME HeldInv, queue # <<>>, DialFailed
    PROVE  \E n \in {0, 1} : Step(1, n, Handler("timer"))
  <1>1. Handler("timer") \in Handlers /\ Handler("timer").kind = "timer"
    BY ClientHandlers
  <1>2. queue' = Tail(queue) \/ queue' = Append(Tail(queue), Handler("timer"))
    BY DEF DialFailed
  <1>3. Step(1, 0, Handler("timer")) \/ Step(1, 1, Handler("timer"))
    BY <1>1, <1>2, Steps
  <1>. QED BY <1>3

\* A new connection is one, and the earlier ones are as they were.
LEMMA HandleConnMakes ==
    ASSUME HeldInv, HandleConn
    PROVE  /\ Keeps /\ Len(conns') = Len(conns) + 1 /\ \A c \in DOMAIN conns : conns'[c] = conns[c]
           /\ conn_' = Len(conns) + 1 /\ cur' = conn_' /\ conn_' \in DOMAIN conns'
           /\ conns'[conn_'].close_fn_ /\ conns'[conn_'].status_ = "kConnected"
  <1>1. PICK ops \in {{}, {"write"}} :
          conns' = Append(conns, [status_ |-> "kConnected", open |-> TRUE, ops |-> ops, close_fn_ |-> TRUE])
    BY DEF HandleConn
  <1>. DEFINE r == [status_ |-> "kConnected", open |-> TRUE, ops |-> ops, close_fn_ |-> TRUE]
  <1>2. r.status_ = "kConnected" /\ r.close_fn_ = TRUE
    OBVIOUS
  <1>3. ops \in SUBSET {"read", "write"} /\ TRUE \in BOOLEAN
    OBVIOUS
  <1>4. r \in Conn
    BY <1>3, Zenon DEF Conn
  <1>5. conns' = Append(conns, r)
    BY <1>1
  <1>. HIDE DEF r
  <1>6. /\ conns' \in Seq(Conn) /\ Len(conns') = Len(conns) + 1
        /\ conns'[Len(conns) + 1] = r /\ \A c \in DOMAIN conns : conns'[c] = conns[c]
    BY <1>4, <1>5 DEF HeldInv, Stores
  <1>7. conn_' = Len(conns) + 1 /\ cur' = Len(conns) + 1
    BY DEF HandleConn
  <1>8. Keeps /\ conn_' \in DOMAIN conns'
    BY <1>6, <1>7 DEF Keeps, HeldInv, Stores
  <1>. QED BY <1>2, <1>6, <1>7, <1>8

\* The lambda of Connect.
LEMMA RunDialledHeld == ASSUME HeldInv, RunDialled PROVE HeldInv'
  <1>1. queue # <<>> /\ Head(queue).kind = "dialled"
    BY DEF RunDialled, Runs
  <1>2. Handler("timer") \in Handlers /\ Handler("timer").kind = "timer"
    BY ClientHandlers
  <1>3. CASE Dangles
    BY <1>1, <1>3, DanglesHeld
  <1>4. CASE /\ alive /\ Head(queue).ok /\ socket_ = "connected"
             /\ reconnecting_times_' = 0 /\ HandleConn /\ queue' = Tail(queue) /\ UNCHANGED timer
             /\ UNCHANGED <<auto_reconnect_, app>>
    <2>1. Step(1, 0, Handler("timer"))
      BY <1>1, <1>2, <1>4, Steps
    <2>2. /\ Keeps /\ Len(conns') = Len(conns) + 1
          /\ conn_' = Len(conns) + 1 /\ cur' = conn_' /\ conn_' \in DOMAIN conns'
          /\ conns'[conn_'].close_fn_ /\ conns'[conn_'].status_ = "kConnected" /\ pc' = "up_fn"
      BY <1>4, HandleConnMakes DEF HandleConn
    <2>3. Types'
      BY <1>4, <2>2 DEF HandleConn, HeldInv, Types, Stores, app, count
    <2>4. ConnInv'
      BY <1>4, <2>2 DEF ConnInv, app
    <2>5. Len(conns') <= MaxConns /\ socket_' = "closed"
      BY <1>4, <2>2, BoundAssumption DEF HeldInv, BoundInv, Stores, HandleConn
    <2>6. cur' \in 0 .. Len(conns') /\ cur' \in DOMAIN conns'
      BY <2>2 DEF HeldInv, Stores, Keeps
    <2>. QED BY <2>1, <2>2, <2>3, <2>4, <2>5, <2>6, HeldKeeps
  <1>5. CASE /\ reconnecting_times_' = 0 /\ pc' = "terminated" /\ queue' = Tail(queue)
             /\ UNCHANGED <<dial, held, cur>> /\ pc = "idle"
             /\ UNCHANGED <<auto_reconnect_, app>>
    <2>1. Step(1, 0, Handler("timer"))
      BY <1>1, <1>2, <1>5, Steps
    <2>2. Types'
      BY <1>5 DEF HeldInv, Types, held, dial, app, count
    <2>3. Keeps /\ UNCHANGED <<conns, conn_, cur, socket_, alive>>
      BY <1>5 DEF Keeps, HeldInv, Stores, held, dial, app
    <2>4. Head(queue) \notin ReadEnds(conn_)
      BY <1>1, HandlerParts DEF ReadEnds
    <2>5. Holds(1, 0, Handler("timer"))
      BY <1>5, <2>3, <2>4 DEF Holds, HeldInv, ConnInv
    <2>6. ConnInv'
      BY <2>1, <2>3, <2>5, StaysHeld
    <2>. QED BY <1>5, <2>1, <2>2, <2>3, <2>6, HeldKeeps DEF HeldInv, Stores, BoundInv
  <1>6. CASE DialFailed /\ UNCHANGED <<auto_reconnect_, app>>
    <2>1. PICK n \in {0, 1} : Step(1, n, Handler("timer"))
      BY <1>1, <1>6, DialFailedSteps
    <2>2. timer' \in BOOLEAN
      BY <1>6 DEF DialFailed, HeldInv, Types
    <2>3. Types'
      BY <1>6, <2>2, SameTypes DEF DialFailed, HeldInv, Types, held, app, count
    <2>. QED BY <1>1, <1>6, <2>1, <2>3, QuietHeld DEF DialFailed, held, app, HeldInv, BoundInv
  <1>. QED BY <1>3, <1>4, <1>5, <1>6 DEF RunDialled, Runs

\* A connection as a conjunct of the invariant types it.
LEMMA ConnTyped ==
    ASSUME HeldInv, NEW c \in DOMAIN conns
    PROVE  /\ conns[c] \in Conn /\ c \in 1 .. MaxConns /\ c \in 0 .. MaxConns
           /\ conns[c].ops \in SUBSET Operations /\ conns[c].status_ \in Statuses
           /\ \A k \in OfConn : OnConn(k, c) \in Handlers /\ OnConn(k, c).kind = k /\ OnConn(k, c).c = c
  <1>1. conns[c] \in Conn /\ c \in 1 .. MaxConns /\ c \in 0 .. MaxConns
    BY BoundAssumption DEF HeldInv, Stores, BoundInv
  <1>2. conns[c].ops \in SUBSET Operations /\ conns[c].status_ \in Statuses
    BY <1>1, ConnFields
  <1>3. \A k \in OfConn : k \in Kinds
    BY DEF Kinds
  <1>4. \A k \in OfConn : OnConn(k, c) \in Handlers
    BY <1>1, <1>3, HandlerTypes
  <1>. QED BY <1>1, <1>2, <1>4, HandlerParts

\* A connection was replaced: no connection is forgotten.
LEMMA BecomesKeeps ==
    ASSUME HeldInv, NEW c \in DOMAIN conns, NEW r \in Conn, conns' = [conns EXCEPT ![c] = r]
    PROVE  Keeps /\ Becomes(c, r)
  <1>1. conns' \in Seq(Conn) /\ Becomes(c, r)
    BY ConnBecomes DEF HeldInv, Stores
  <1>. QED BY <1>1 DEF Keeps, Becomes, HeldInv, Stores

\* What closing a socket does to its connection and to the queue.
LEMMA CloseSocketMakes ==
    ASSUME HeldInv, queue # <<>>, NEW c \in DOMAIN conns, NEW s \in Statuses, CloseSocket(c, s)
    PROVE  /\ Keeps /\ Becomes(c, Shut(conns[c], s))
           /\ \E n \in Nat : Step(1, n, OnConn("failed", c)) /\ (n > 0 <=> conns[c].ops # {})
  <1>1. conns[c] \in Conn /\ OnConn("failed", c) \in Handlers /\ conns[c].ops \in SUBSET Operations
    BY ConnTyped
  <1>2. Shut(conns[c], s) \in Conn
    BY <1>1, ShutFields
  <1>3. conns' = [conns EXCEPT ![c] = Shut(conns[c], s)]
    BY DEF CloseSocket, Shut
  <1>4. Keeps /\ Becomes(c, Shut(conns[c], s))
    BY <1>2, <1>3, BecomesKeeps
  <1>5. PICK h \in Handlers : h = OnConn("failed", c)
    BY <1>1
  <1>6. PICK a \in {<<>>, <<h>>} : a = Aborted(c, "read")
    BY <1>5 DEF Aborted
  <1>7. PICK b \in {<<>>, <<h>>} : b = Aborted(c, "write")
    BY <1>5 DEF Aborted
  <1>8. queue' = Tail(queue) \o a \o b
    BY <1>6, <1>7 DEF CloseSocket
  <1>9. queue' \in Seq(Handlers) /\ Moves(1, Len(a) + Len(b), h)
    BY <1>8, QueueAborts DEF HeldInv, Stores
  <1>10. Len(a) + Len(b) \in Nat /\ (Len(a) + Len(b) > 0 <=> a # <<>> \/ b # <<>>)
    OBVIOUS
  <1>11. (a # <<>> <=> "read" \in conns[c].ops) /\ (b # <<>> <=> "write" \in conns[c].ops)
    BY <1>6, <1>7 DEF Aborted
  <1>12. conns[c].ops # {} <=> "read" \in conns[c].ops \/ "write" \in conns[c].ops
    BY <1>1 DEF Operations
  <1>13. Step(1, Len(a) + Len(b), h)
    BY <1>5, <1>9, <1>10, HandlerParts DEF Step
  <1>. QED BY <1>4, <1>5, <1>10, <1>11, <1>12, <1>13

\* The handler Close has posted.
LEMMA RunCloseHeld == ASSUME HeldInv, RunClose PROVE HeldInv'
  <1>1. queue # <<>> /\ Head(queue).kind = "close" /\ pc = "idle"
    BY DEF RunClose, Runs
  <1>2. PICK c \in DOMAIN conns : c = Head(queue).c
    BY <1>1, HeadType
  <1>3. PICK s \in Statuses : s = conns[c].status_
    BY ConnTyped
  <1>4. CloseSocket(c, s)
    BY <1>2, <1>3 DEF RunClose
  <1>5. Keeps /\ Becomes(c, Shut(conns[c], s))
    BY <1>1, <1>4, CloseSocketMakes
  <1>6. PICK n \in Nat : Step(1, n, OnConn("failed", c)) /\ (n > 0 <=> conns[c].ops # {})
    BY <1>1, <1>4, CloseSocketMakes
  <1>7. /\ Shut(conns[c], s).status_ = conns[c].status_
        /\ Shut(conns[c], s).close_fn_ = conns[c].close_fn_
    <2>1. conns[c] \in Conn
      BY ConnTyped
    <2>. QED BY <1>3, <2>1, ShutFields
  <1>8. Head(queue) \notin ReadEnds(conn_)
    BY <1>1, HandlerParts DEF ReadEnds
  <1>9. UNCHANGED <<conn_, pc, cur, socket_, alive>> /\ Len(conns') = Len(conns)
    BY <1>5 DEF RunClose, loop, dial, app, Becomes
  <1>10. Holds(1, n, OnConn("failed", c))
    BY <1>1, <1>5, <1>6, <1>7, <1>8, <1>9 DEF Holds, HeldInv, ConnInv, Becomes, ReadEnds
  <1>11. Types'
    BY SameTypes DEF RunClose, HeldInv, Types, flags, dial, app, count
  <1>12. ConnInv'
    BY <1>5, <1>6, <1>9, <1>10, StaysHeld
  <1>. QED BY <1>5, <1>6, <1>9, <1>11, <1>12, HeldKeeps DEF HeldInv, Stores, BoundInv, Keeps

\* An operation has failed: HandleClose begins.
LEMMA RunFailedHeld == ASSUME HeldInv, RunFailed PROVE HeldInv'
  <1>1. queue # <<>> /\ Head(queue).kind = "failed" /\ pc = "idle"
    BY DEF RunFailed, Runs
  <1>2. PICK c \in DOMAIN conns : c = Head(queue).c
    BY <1>1, HeadType
  <1>3. "kDisconnecting" \in Statuses
    BY DEF Statuses
  <1>4. CloseSocket(c, "kDisconnecting") /\ cur' = c /\ pc' = "down_fn"
    BY <1>2 DEF RunFailed
  <1>5. Keeps /\ Becomes(c, Shut(conns[c], "kDisconnecting"))
    BY <1>1, <1>3, <1>4, CloseSocketMakes
  <1>6. PICK n \in Nat : Step(1, n, OnConn("failed", c)) /\ (n > 0 <=> conns[c].ops # {})
    BY <1>1, <1>3, <1>4, CloseSocketMakes
  <1>7. /\ Shut(conns[c], "kDisconnecting").status_ = "kDisconnecting"
        /\ Shut(conns[c], "kDisconnecting").close_fn_ = conns[c].close_fn_
    <2>1. conns[c] \in Conn
      BY ConnTyped
    <2>. QED BY <1>3, <2>1, ShutFields
  <1>8. Head(queue) \notin ReadEnds(conn_) \/ c = conn_
    BY <1>2, HandlerParts DEF ReadEnds
  <1>9. UNCHANGED <<conn_, socket_, alive>> /\ Len(conns') = Len(conns) /\ c \in DOMAIN conns'
    BY <1>5 DEF RunFailed, dial, app, Becomes, HeldInv, Stores, Keeps
  <1>10. Holds(1, n, OnConn("failed", c))
    BY <1>1, <1>4, <1>5, <1>6, <1>7, <1>8, <1>9 DEF Holds, HeldInv, ConnInv, Becomes, ReadEnds
  <1>11. Types'
    BY <1>4 DEF RunFailed, HeldInv, Types, flags, dial, app, count
  <1>12. ConnInv'
    BY <1>5, <1>6, <1>9, <1>10, StaysHeld
  <1>13. cur' \in 0 .. Len(conns')
    BY <1>4, <1>9 DEF Keeps, HeldInv, Stores
  <1>. QED BY <1>4, <1>5, <1>6, <1>9, <1>11, <1>12, <1>13, HeldKeeps DEF HeldInv, BoundInv

\* An operation is started: it waits for the kernel, or fails at once.
LEMMA StartOpMakes ==
    ASSUME HeldInv, NEW d \in {0, 1}, NEW q, d = 0 => q = queue, d = 1 => q = Tail(queue) /\ queue # <<>>,
           NEW c \in DOMAIN conns, NEW op \in Operations, StartOp(c, op, q)
    PROVE  /\ Keeps /\ late' \in BOOLEAN
           /\ \/ /\ conns[c].open /\ late' = late /\ Step(d, 0, OnConn("failed", c))
                 /\ Becomes(c, WithOps(conns[c], conns[c].ops \cup {op}))
              \/ /\ ~conns[c].open /\ Step(d, 1, OnConn("failed", c)) /\ conns' = conns
                 /\ late' = (late \/ conns[c].status_ = "kDisconnected")
  <1>1. /\ conns[c] \in Conn /\ OnConn("failed", c) \in Handlers /\ OnConn("failed", c).c = c
        /\ conns[c].ops \in SUBSET Operations
    BY ConnTyped
  <1>2. CASE conns[c].open
    <2>1. PICK o \in SUBSET Operations : o = conns[c].ops \cup {op}
      BY <1>1
    <2>2. conns' = [conns EXCEPT ![c] = WithOps(conns[c], o)] /\ queue' = q /\ late' = late
      BY <1>2, <2>1 DEF StartOp, WithOps
    <2>3. WithOps(conns[c], o) \in Conn
      BY <1>1, WithOpsFields
    <2>4. Keeps /\ Becomes(c, WithOps(conns[c], o))
      BY <2>2, <2>3, BecomesKeeps
    <2>5. Step(d, 0, OnConn("failed", c))
      BY <1>1, <2>2, Steps
    <2>6. late' \in BOOLEAN
      BY <2>2 DEF HeldInv, Types
    <2>. QED BY <1>2, <2>1, <2>2, <2>4, <2>5, <2>6
  <1>3. CASE ~conns[c].open
    <2>1. /\ queue' = Append(q, OnConn("failed", c)) /\ conns' = conns
          /\ late' = (late \/ conns[c].status_ = "kDisconnected")
      BY <1>3 DEF StartOp
    <2>2. Step(d, 1, OnConn("failed", c))
      BY <1>1, <2>1, Steps
    <2>3. Keeps
      BY <2>1 DEF Keeps, HeldInv, Stores
    <2>4. late' \in BOOLEAN
      BY <2>1 DEF HeldInv, Types
    <2>. QED BY <1>3, <2>1, <2>2, <2>3, <2>4
  <1>. QED BY <1>2, <1>3

\* The connections are kept and held by the start of an operation.
LEMMA StartOpHolds ==
    ASSUME HeldInv, NEW d \in {0, 1}, NEW q, d = 0 => q = queue, d = 1 => q = Tail(queue) /\ queue # <<>>,
           NEW c \in DOMAIN conns, NEW op \in Operations, StartOp(c, op, q),
           UNCHANGED <<conn_, alive>>, d = 1 => Head(queue) \notin ReadEnds(conn_),
           d = 1 => pc = "idle", d = 0 => cur = c /\ op = "read"
    PROVE  /\ Keeps /\ Len(conns') = Len(conns) /\ ConnInv'
           /\ \E n \in {0, 1} : Step(d, n, OnConn("failed", c))
  <1>1. /\ Keeps
        /\ \/ /\ conns[c].open /\ Step(d, 0, OnConn("failed", c))
              /\ Becomes(c, WithOps(conns[c], conns[c].ops \cup {op}))
           \/ Step(d, 1, OnConn("failed", c)) /\ conns' = conns
    BY StartOpMakes
  <1>2. CASE Step(d, 0, OnConn("failed", c)) /\ Becomes(c, WithOps(conns[c], conns[c].ops \cup {op}))
    <2>1. conns[c] \in Conn /\ conns[c].ops \cup {op} \in SUBSET Operations
      BY ConnTyped
    <2>2. PICK r : r = WithOps(conns[c], conns[c].ops \cup {op})
      OBVIOUS
    <2>3. r.ops = conns[c].ops \cup {op} /\ r.status_ = conns[c].status_ /\ r.close_fn_ = conns[c].close_fn_
      BY <2>1, <2>2, WithOpsFields
    <2>4. Holds(d, 0, OnConn("failed", c))
      BY <1>2, <2>2, <2>3 DEF Holds, HeldInv, ConnInv, Becomes
    <2>5. ConnInv'
      BY <1>1, <1>2, <2>4, StaysHeld
    <2>. QED BY <1>1, <1>2, <2>5 DEF Becomes
  <1>3. CASE Step(d, 1, OnConn("failed", c)) /\ conns' = conns
    <2>1. Holds(d, 1, OnConn("failed", c))
      BY <1>3 DEF Holds, HeldInv, ConnInv, ReadEnds
    <2>2. ConnInv'
      BY <1>1, <1>3, <2>1, StaysHeld
    <2>. QED BY <1>1, <1>3, <2>2
  <1>. QED BY <1>1, <1>2, <1>3

\* A callback of a connection that is up returns.
LEMMA CallbackReturnsHeld == ASSUME HeldInv, CallbackReturns PROVE HeldInv'
  <1>1. cur \in DOMAIN conns /\ StartOp(cur, "read", queue) /\ pc' = "idle" /\ cur' = 0
    BY DEF CallbackReturns, HeldInv, BoundInv
  <1>2. PICK c \in DOMAIN conns : c = cur
    BY <1>1
  <1>3. UNCHANGED <<flags, dial, conn_, alive, failed, calls, plain>>
    BY DEF CallbackReturns
  <1>4. PICK op \in Operations : op = "read"
    BY DEF Operations
  <1>5. PICK d \in {0, 1} : d = 0
    OBVIOUS
  <1>6. StartOp(c, op, queue)
    BY <1>1, <1>2, <1>4
  <1>7. PICK q : q = queue
    OBVIOUS
  <1>8. /\ StartOp(c, op, q) /\ UNCHANGED <<conn_, alive>>
        /\ d = 0 => q = queue /\ cur = c /\ op = "read"
        /\ d # 1
    BY <1>2, <1>3, <1>4, <1>5, <1>6, <1>7
  <1>9. /\ Keeps /\ Len(conns') = Len(conns) /\ ConnInv'
        /\ \E n \in {0, 1} : Step(d, n, OnConn("failed", c))
    BY <1>8, StartOpHolds, Zenon
  <1>10. PICK n \in {0, 1} : Step(0, n, OnConn("failed", c))
    BY <1>5, <1>9
  <1>11. late' \in BOOLEAN
    BY <1>8, StartOpMakes, Zenon
  <1>12. Types'
    BY <1>1, <1>3, <1>11 DEF HeldInv, Types, flags, dial
  <1>. QED BY <1>1, <1>3, <1>9, <1>10, <1>12, HeldKeeps DEF HeldInv, Stores, BoundInv, Keeps, dial

\* A write is handled.
LEMMA RunWriteHeld == ASSUME HeldInv, RunWrite PROVE HeldInv'
  <1>1. queue # <<>> /\ Head(queue).kind = "write" /\ pc = "idle"
    BY DEF RunWrite, Runs
  <1>2. PICK c \in DOMAIN conns : c = Head(queue).c
    BY <1>1, HeadType
  <1>3. UNCHANGED <<flags, dial, conn_, loop, alive, failed, calls, plain>>
    BY DEF RunWrite
  <1>4. Head(queue) \notin ReadEnds(conn_)
    BY <1>1, HandlerParts DEF ReadEnds
  <1>5. PICK d \in {0, 1} : d = 1
    OBVIOUS
  <1>6. PICK op \in Operations : op = "write"
    BY DEF Operations
  <1>7. PICK q : q = Tail(queue)
    OBVIOUS
  <1>8. CASE StartOp(c, "write", Tail(queue))
    <2>0. /\ StartOp(c, op, q) /\ UNCHANGED <<conn_, alive>>
          /\ d # 0 /\ q = Tail(queue) /\ queue # <<>>
          /\ Head(queue) \notin ReadEnds(conn_) /\ pc = "idle"
      BY <1>1, <1>3, <1>4, <1>5, <1>6, <1>7, <1>8
    <2>1. /\ Keeps /\ Len(conns') = Len(conns) /\ ConnInv'
          /\ \E n \in {0, 1} : Step(d, n, OnConn("failed", c))
      BY <2>0, StartOpHolds, Zenon
    <2>2. PICK n \in {0, 1} : Step(1, n, OnConn("failed", c))
      BY <1>5, <2>1
    <2>3. late' \in BOOLEAN
      BY <2>0, StartOpMakes, Zenon
    <2>4. Types'
      BY <1>3, <2>3, SameTypes DEF HeldInv, Types, flags, dial, loop
    <2>. QED BY <1>1, <1>3, <2>1, <2>2, <2>4, HeldKeeps DEF HeldInv, Stores, BoundInv, Keeps, dial, loop
  <1>9. CASE queue' = Tail(queue) /\ UNCHANGED <<conns, late>>
    <2>1. OnConn("failed", c) \in Handlers /\ OnConn("failed", c).c = c
      BY ConnTyped
    <2>2. Step(1, 0, OnConn("failed", c))
      BY <1>1, <1>9, <2>1, Steps
    <2>3. Types'
      BY <1>3, <1>9, SameTypes DEF HeldInv, Types, flags, dial, loop
    <2>. QED BY <1>1, <1>3, <1>9, <2>2, <2>3, QuietHeld DEF HeldInv, BoundInv, dial
  <1>. QED BY <1>2, <1>8, <1>9 DEF RunWrite

\* A read is handled, up to msg_fn_.
LEMMA RunReadHeld == ASSUME HeldInv, RunRead PROVE HeldInv'
  <1>1. queue # <<>> /\ Head(queue).kind = "read" /\ pc = "idle" /\ queue' = Tail(queue)
    BY DEF RunRead, Runs
  <1>2. PICK c \in DOMAIN conns : c = Head(queue).c
    BY <1>1, HeadType
  <1>3. cur' = c /\ pc' = "msg_fn" /\ UNCHANGED <<flags, dial, held, app>>
    BY <1>2 DEF RunRead
  <1>4. OnConn("failed", c) \in Handlers /\ OnConn("failed", c).c = c
    BY ConnTyped
  <1>5. Step(1, 0, OnConn("failed", c))
    BY <1>1, <1>4, Steps
  <1>6. Keeps
    BY <1>3 DEF Keeps, HeldInv, Stores, held
  <1>7. Head(queue) \notin ReadEnds(conn_) \/ c = conn_
    BY <1>2, HandlerParts DEF ReadEnds
  <1>8. Holds(1, 0, OnConn("failed", c))
    BY <1>1, <1>3, <1>7 DEF Holds, HeldInv, ConnInv, held, app
  <1>9. ConnInv'
    BY <1>3, <1>5, <1>6, <1>8, StaysHeld DEF held
  <1>10. Types'
    BY <1>3 DEF HeldInv, Types, flags, dial, held, app, count
  <1>. QED BY <1>3, <1>5, <1>6, <1>9, <1>10, HeldKeeps DEF HeldInv, Stores, BoundInv, held, dial

\* What the end of an operation of an open connection makes.
LEMMA CompletesMakes ==
    ASSUME HeldInv, NEW c \in DOMAIN conns, NEW op \in conns[c].ops, Completes(c, op)
    PROVE  /\ conns[c].ops \ {op} \in SUBSET Operations /\ op \in Operations
           /\ Keeps /\ Becomes(c, WithOps(conns[c], conns[c].ops \ {op}))
           /\ \E h \in Handlers : h \in {OnConn(op, c), OnConn("failed", c)} /\ Step(0, 1, h)
  <1>1. conns[c] \in Conn /\ conns[c].ops \in SUBSET Operations /\ op \in Operations
    BY ConnTyped
  <1>2. PICK o \in SUBSET Operations : o = conns[c].ops \ {op}
    BY <1>1
  <1>3. conns' = [conns EXCEPT ![c] = WithOps(conns[c], o)]
    BY <1>2 DEF Completes, WithOps
  <1>4. WithOps(conns[c], o) \in Conn
    BY <1>1, WithOpsFields
  <1>5. Keeps /\ Becomes(c, WithOps(conns[c], o))
    BY <1>3, <1>4, BecomesKeeps
  <1>6. PICK k \in {op, "failed"} : queue' = Append(queue, OnConn(k, c))
    BY DEF Completes
  <1>7. OnConn(k, c) \in Handlers /\ OnConn(k, c).c = c
    BY <1>1, ConnTyped DEF Operations
  <1>8. Step(0, 1, OnConn(k, c))
    BY <1>6, <1>7, Steps
  <1>. QED BY <1>1, <1>2, <1>5, <1>7, <1>8

\* An operation of an open connection ends.
LEMMA CompletesHeld ==
    ASSUME HeldInv, NEW c \in DOMAIN conns, NEW op \in conns[c].ops, Completes(c, op)
    PROVE  HeldInv'
  <1>1. Keeps /\ Becomes(c, WithOps(conns[c], conns[c].ops \ {op}))
    BY CompletesMakes
  <1>2. PICK h \in Handlers : h \in {OnConn(op, c), OnConn("failed", c)} /\ Step(0, 1, h)
    BY CompletesMakes
  <1>3. conns[c] \in Conn /\ conns[c].ops \ {op} \in SUBSET Operations
    BY ConnTyped, CompletesMakes
  <1>4. PICK r : r = WithOps(conns[c], conns[c].ops \ {op})
    OBVIOUS
  <1>5. r.ops = conns[c].ops \ {op} /\ r.status_ = conns[c].status_ /\ r.close_fn_ = conns[c].close_fn_
    BY <1>3, <1>4, WithOpsFields
  <1>6. UNCHANGED <<conn_, pc, cur, socket_, alive>> /\ Len(conns') = Len(conns)
    BY <1>1 DEF Completes, loop, dial, app, Becomes
  <1>7. Holds(0, 1, h)
    <2>. SUFFICES ASSUME conn_ # 0
                  PROVE  /\ alive' /\ conns'[conn_].close_fn_ /\ conns'[conn_].status_ # "kDisconnected"
                         /\ "read" \in conns[conn_].ops => "read" \in conns'[conn_].ops \/ h \in ReadEnds(conn_)
      BY <1>6 DEF Holds
    <2>1. alive /\ conn_ \in DOMAIN conns /\ conns[conn_].close_fn_ /\ conns[conn_].status_ # "kDisconnected"
      BY DEF HeldInv, ConnInv
    <2>2. CASE c = conn_
      <3>1. conns'[conn_] = r
        BY <1>1, <1>4, <2>1, <2>2 DEF Becomes
      <3>2. op = "read" => h \in ReadEnds(conn_)
        BY <1>2, <2>2 DEF ReadEnds
      <3>. QED BY <1>5, <1>6, <2>1, <2>2, <3>1, <3>2
    <2>3. CASE c # conn_
      BY <1>1, <1>6, <2>1, <2>3 DEF Becomes
    <2>. QED BY <2>2, <2>3
  <1>8. ConnInv'
    BY <1>1, <1>2, <1>6, <1>7, StaysHeld
  <1>9. Types'
    BY SameTypes DEF Completes, HeldInv, Types, flags, dial, app, count
  <1>. QED BY <1>1, <1>2, <1>6, <1>8, <1>9, HeldKeeps DEF HeldInv, Stores, BoundInv, Keeps

\* Only connection c changed, and it has become one of the connections.
LEMMA StatusMakes ==
    ASSUME HeldInv, NEW c \in DOMAIN conns, NEW s \in Statuses,
           conns' = [conns EXCEPT ![c].status_ = s]
    PROVE  Keeps /\ Becomes(c, WithStatus(conns[c], s))
  <1>1. conns[c] \in Conn
    BY ConnTyped
  <1>2. WithStatus(conns[c], s) \in Conn
    BY <1>1, WithStatusFields
  <1>3. conns' = [conns EXCEPT ![c] = WithStatus(conns[c], s)]
    BY DEF WithStatus
  <1>. QED BY <1>2, <1>3, BecomesKeeps

\* What OnRemoveConn does to the queue and to the counters.
LEMMA OnRemoveConnMakes ==
    ASSUME HeldInv, OnRemoveConn
    PROVE  /\ \E n \in {0, 1} : Step(0, n, Dialled(FALSE))
           /\ conn_' = 0 /\ reconnecting_times_' \in Nat
           /\ socket_' = socket_ \/ socket_' = "connecting"
           /\ failed' \in SUBSET Places
  <1>1. Dialled(FALSE) \in Handlers /\ Dialled(FALSE).kind = "dialled"
    BY ClientHandlers
  <1>2. CASE AlreadyRemoved
    <2>1. queue' = queue
      BY <1>2 DEF OnRemoveConn
    <2>2. Step(0, 0, Dialled(FALSE))
      BY <1>1, <2>1, Steps
    <2>. QED BY <1>2, <2>2 DEF OnRemoveConn, AlreadyRemoved, HeldInv, Types
  <1>3. CASE ~AlreadyRemoved
    <2>1. CASE WantsReconnect
      <3>1. PICK n \in {0, 1} : Step(0, n, Dialled(FALSE))
        BY <1>3, <2>1, ConnectSteps DEF OnRemoveConn, Reconnect
      <3>2. conn_' = 0 /\ socket_' = "connecting" /\ failed' \in SUBSET Places
        BY <1>3, <2>1 DEF OnRemoveConn, Reconnect, Connect, Reset, HeldInv, Types, Places
      <3>3. reconnecting_times_' \in Nat
        BY <1>3, <2>1 DEF OnRemoveConn, Reconnect, HeldInv, Types
      <3>. QED BY <3>1, <3>2, <3>3
    <2>2. CASE ~WantsReconnect
      <3>1. queue' = queue
        BY <1>3, <2>2 DEF OnRemoveConn
      <3>2. Step(0, 0, Dialled(FALSE))
        BY <1>1, <3>1, Steps
      <3>. QED BY <1>3, <2>2, <3>2 DEF OnRemoveConn, Reset, HeldInv, Types, Places
    <2>. QED BY <2>1, <2>2
  <1>. QED BY <1>2, <1>3

\* The callback of a connection that is down returns.
LEMMA DownReturnsHeld == ASSUME HeldInv, DownReturns PROVE HeldInv'
  <1>1. cur \in DOMAIN conns /\ pc = "down_fn" /\ pc' = "idle" /\ cur' = 0
    BY DEF DownReturns, HeldInv, BoundInv
  <1>2. PICK c \in DOMAIN conns : c = cur
    BY <1>1
  <1>3. "kDisconnected" \in Statuses
    BY DEF Statuses
  <1>4. conns' = [conns EXCEPT ![c].status_ = "kDisconnected"]
    BY <1>2 DEF DownReturns
  <1>5. Keeps /\ Becomes(c, WithStatus(conns[c], "kDisconnected"))
    BY <1>3, <1>4, StatusMakes
  <1>6. Len(conns') = Len(conns) /\ cur' \in 0 .. Len(conns')
    BY <1>1, <1>5 DEF Becomes, HeldInv, Stores
  <1>7. Dialled(FALSE) \in Handlers /\ Dialled(FALSE).kind = "dialled"
    BY ClientHandlers
  <1>8. CASE OnRemoveConn
    <2>1. PICK n \in {0, 1} : Step(0, n, Dialled(FALSE))
      BY <1>8, OnRemoveConnMakes
    <2>2. /\ conn_' = 0 /\ reconnecting_times_' \in Nat
          /\ socket_' = socket_ \/ socket_' = "connecting"
          /\ failed' \in SUBSET Places
      BY <1>8, OnRemoveConnMakes
    <2>3. Types'
      BY <1>1, <2>2 DEF DownReturns, HeldInv, Types, count
    <2>4. ConnInv'
      BY <2>2 DEF ConnInv
    <2>5. socket_' = "connected" => Len(conns') < MaxConns
      BY <1>6, <2>2 DEF HeldInv, BoundInv
    <2>6. Len(conns') <= MaxConns
      BY <1>6 DEF HeldInv, BoundInv
    <2>. QED BY <1>1, <1>5, <1>6, <2>1, <2>3, <2>4, <2>5, <2>6, HeldKeeps
  <1>9. CASE /\ ~(conns[cur].close_fn_ /\ alive)
             /\ failed' \in SUBSET Places
             /\ UNCHANGED <<reconnecting_times_, conn_, socket_, queue>>
    <2>1. Step(0, 0, Dialled(FALSE))
      BY <1>7, <1>9, Steps
    <2>2. Types'
      BY <1>1, <1>9 DEF DownReturns, HeldInv, Types, count
    <2>3. conn_ # 0 => conn_ \in DOMAIN conns /\ conn_ # c
      BY <1>2, <1>9 DEF HeldInv, ConnInv
    <2>4. Holds(0, 0, Dialled(FALSE))
      BY <1>2, <1>5, <2>3 DEF Holds, HeldInv, ConnInv, Becomes, DownReturns
    <2>5. ConnInv'
      BY <1>5, <1>9, <2>1, <2>4, StaysHeld
    <2>6. Len(conns') <= MaxConns /\ (socket_' = "connected" => Len(conns') < MaxConns)
      BY <1>6, <1>9 DEF HeldInv, BoundInv
    <2>. QED BY <1>1, <1>5, <1>6, <2>1, <2>2, <2>5, <2>6, HeldKeeps
  <1>10. failed \in SUBSET Places /\ failed \cup {"dangling"} \in SUBSET Places
    BY DEF HeldInv, Types, Places
  <1>. QED BY <1>8, <1>9, <1>10 DEF DownReturns

\* Closing the current connection, if there is one.
LEMMA DisconnectInLoopHeld ==
    ASSUME HeldInv, NEW d \in {0, 1}, NEW q, DisconnectInLoop(q),
           d = 0 => q = queue,
           d = 1 => q = Tail(queue) /\ queue # <<>> /\ Head(queue).kind \notin {"read", "failed"},
           calls' \in Nat, plain' \in BOOLEAN, late' \in BOOLEAN
    PROVE  HeldInv'
  <1>1. Types'
    <2>1. failed' \in SUBSET Places
      BY DEF DisconnectInLoop, HeldInv, Types, Places
    <2>. QED BY <2>1 DEF DisconnectInLoop, HeldInv, Types, dial, loop
  <1>2. UNCHANGED <<conn_, socket_, loop>> /\ alive' = alive
    BY DEF DisconnectInLoop, dial
  <1>3. CASE conn_ = 0
    <2>1. queue' = q /\ conns' = conns
      BY <1>3 DEF DisconnectInLoop, Closing
    <2>2. Handler("timer") \in Handlers /\ Handler("timer").kind = "timer"
      BY ClientHandlers
    <2>3. Step(d, 0, Handler("timer"))
      BY <2>1, <2>2, Steps
    <2>. QED BY <1>1, <1>2, <2>1, <2>3, QuietHeld DEF HeldInv, BoundInv
  <1>4. CASE conn_ # 0
    <2>1. PICK c \in DOMAIN conns : c = conn_
      BY <1>4 DEF HeldInv, ConnInv
    <2>2. conns' = [conns EXCEPT ![c].status_ = "kDisconnecting"] /\ queue' = Append(q, OnConn("close", c))
      BY <1>4, <2>1 DEF DisconnectInLoop, Closing
    <2>3. "kDisconnecting" \in Statuses
      BY DEF Statuses
    <2>4. Keeps /\ Becomes(c, WithStatus(conns[c], "kDisconnecting"))
      BY <2>2, <2>3, StatusMakes
    <2>5. OnConn("close", c) \in Handlers /\ OnConn("close", c).c = c /\ conns[c] \in Conn
      BY ConnTyped, HandlerParts
    <2>6. Step(d, 1, OnConn("close", c))
      BY <2>2, <2>5, Steps
    <2>7. /\ WithStatus(conns[c], "kDisconnecting").status_ = "kDisconnecting"
          /\ WithStatus(conns[c], "kDisconnecting").ops = conns[c].ops
          /\ WithStatus(conns[c], "kDisconnecting").close_fn_ = conns[c].close_fn_
      BY <2>3, <2>5, WithStatusFields
    <2>8. d = 1 => Head(queue) \notin ReadEnds(conn_)
      BY HandlerParts DEF ReadEnds
    <2>9. Holds(d, 1, OnConn("close", c))
      BY <1>2, <2>1, <2>4, <2>7, <2>8 DEF Holds, HeldInv, ConnInv, Becomes, loop
    <2>10. ConnInv'
      BY <1>2, <2>4, <2>6, <2>9, StaysHeld
    <2>11. Len(conns') = Len(conns) /\ UNCHANGED <<pc, cur>>
      BY <1>2, <2>4 DEF Becomes, loop
    <2>. QED BY <1>1, <1>2, <2>4, <2>6, <2>10, <2>11, HeldKeeps DEF HeldInv, Stores, BoundInv, Keeps
  <1>. QED BY <1>3, <1>4

\* The posted Disconnect.
LEMMA RunDisconnectHeld == ASSUME HeldInv, RunDisconnect PROVE HeldInv'
  <1>1. queue # <<>> /\ Head(queue).kind = "disconnect"
    BY DEF RunDisconnect, Runs
  <1>2. CASE Dangles
    BY <1>1, <1>2, DanglesHeld
  <1>3. CASE DisconnectInLoop(Tail(queue)) /\ UNCHANGED count
    <2>1. calls' \in Nat /\ plain' \in BOOLEAN /\ late' \in BOOLEAN
      BY <1>3 DEF HeldInv, Types, count
    <2>2. 1 \in {0, 1} /\ 1 # 0 /\ Head(queue).kind \notin {"read", "failed"}
      BY <1>1
    <2>. QED BY <1>1, <1>3, <2>1, <2>2, DisconnectInLoopHeld, Zenon
  <1>. QED BY <1>2, <1>3 DEF RunDisconnect

\* Disconnect in a callback.
LEMMA DisconnectFromCallbackHeld == ASSUME HeldInv, DisconnectFromCallback PROVE HeldInv'
  <1>1. calls' \in Nat /\ plain' \in BOOLEAN /\ late' \in BOOLEAN
    BY DEF DisconnectFromCallback, Call, HeldInv, Types
  <1>. QED BY <1>1, DisconnectInLoopHeld DEF DisconnectFromCallback

\* The handlers of q are bound to connections.
Bound(q) ==
    /\ q \in Seq(Handlers)
    /\ \A i \in DOMAIN q : q[i].kind \in OfConn => q[i].c \in DOMAIN conns

\* A handler of the client is added.
LEMMA BoundExtends ==
    ASSUME NEW q, Bound(q), NEW h \in Handlers, h.kind \in OfConn => h.c \in DOMAIN conns
    PROVE  Bound(Append(q, h)) /\ Bound(q \o <<h>>) /\ Bound(q \o <<>>)
  <1>1. q \in Seq(Handlers)
    BY DEF Bound
  <1>2. q \o <<h>> = Append(q, h) /\ q \o <<>> = q
    BY <1>1
  <1>3. /\ Append(q, h) \in Seq(Handlers) /\ Len(Append(q, h)) = Len(q) + 1
        /\ \A i \in 1 .. Len(q) + 1 : Append(q, h)[i] = IF i <= Len(q) THEN q[i] ELSE h
    BY <1>1
  <1>4. Bound(Append(q, h))
    BY <1>1, <1>3 DEF Bound
  <1>. QED BY <1>2, <1>4

\* The queue the destructor leaves.
LEMMA DestroyBound ==
    ASSUME NEW q, Bound(q)
    PROVE  Bound(q \o (IF socket_ = "connecting" THEN <<Dialled(FALSE)>> ELSE <<>>)
                   \o (IF timer THEN <<Handler("timer")>> ELSE <<>>))
  <1>1. Dialled(FALSE) \in Handlers /\ Dialled(FALSE).kind = "dialled"
    BY ClientHandlers
  <1>2. Handler("timer") \in Handlers /\ Handler("timer").kind = "timer"
    BY ClientHandlers
  <1>3. PICK q1 : q1 = q \o (IF socket_ = "connecting" THEN <<Dialled(FALSE)>> ELSE <<>>)
    OBVIOUS
  <1>4. Bound(q1)
    BY <1>1, <1>3, BoundExtends
  <1>5. Bound(q1 \o (IF timer THEN <<Handler("timer")>> ELSE <<>>))
    BY <1>2, <1>4, BoundExtends
  <1>. QED BY <1>3, <1>5

\* A close callback is taken away.
LEMMA SilencedConns ==
    ASSUME HeldInv, NEW cs \in Seq(Conn), Len(cs) = Len(conns)
    PROVE  Silenced(cs) \in Seq(Conn) /\ Len(Silenced(cs)) = Len(cs)
  <1>1. CASE conn_ # 0 /\ cs[conn_].status_ = "kDisconnecting"
    <2>1. conn_ \in DOMAIN cs
      BY <1>1 DEF HeldInv, ConnInv, Stores
    <2>0. cs[conn_] \in Conn
      BY <2>1
    <2>2. Silent(cs[conn_]) \in Conn
      BY <2>0, SilentFields
    <2>3. Silenced(cs) = [cs EXCEPT ![conn_] = Silent(cs[conn_])]
      BY <1>1 DEF Silenced, Silent
    <2>. QED BY <2>1, <2>2, <2>3
  <1>2. CASE ~(conn_ # 0 /\ cs[conn_].status_ = "kDisconnecting")
    BY <1>2 DEF Silenced
  <1>. QED BY <1>1, <1>2

\* The client is destroyed.
LEMMA DestroyHeld ==
    ASSUME HeldInv, NEW cs \in Seq(Conn), Len(cs) = Len(conns), NEW q, Bound(q), Destroy(cs, q),
           calls' \in Nat, plain' \in BOOLEAN, late' \in BOOLEAN
    PROVE  HeldInv'
  <1>1. conns' \in Seq(Conn) /\ Len(conns') = Len(conns)
    BY SilencedConns DEF Destroy
  <1>2. Bound(queue')
    BY DestroyBound DEF Destroy
  <1>3. UNCHANGED <<pc, cur>> /\ conn_' = 0 /\ socket_' = "closed"
    BY DEF Destroy, loop
  <1>4. Types'
    <2>1. failed' \in SUBSET Places
      BY DEF Destroy, HeldInv, Types, Places
    <2>2. auto_reconnect_' \in BOOLEAN /\ timer' \in BOOLEAN /\ alive' \in BOOLEAN
      BY Zenon DEF Destroy
    <2>. QED BY <1>3, <2>1, <2>2 DEF Destroy, HeldInv, Types
  <1>5. Stores'
    BY <1>1, <1>2, <1>3 DEF Stores, HeldInv, Bound
  <1>6. BoundInv'
    BY <1>1, <1>2, <1>3 DEF BoundInv, HeldInv, Stores, Bound
  <1>7. ConnInv'
    BY <1>3 DEF ConnInv
  <1>. QED BY <1>4, <1>5, <1>6, <1>7 DEF HeldInv

\* Another thread deletes the client.
LEMMA DeleteHeld == ASSUME HeldInv, Delete PROVE HeldInv'
  <1>1. calls' \in Nat /\ plain' \in BOOLEAN /\ late' \in BOOLEAN
    BY DEF Delete, Call, HeldInv, Types
  <1>2. Handler("disconnect") \in Handlers /\ Handler("disconnect").kind = "disconnect"
    BY ClientHandlers
  <1>3. Bound(queue)
    BY DEF Bound, HeldInv, Stores, BoundInv
  <1>4. Bound(Append(queue, Handler("disconnect")))
    BY <1>2, <1>3, BoundExtends
  <1>. QED BY <1>1, <1>4, DestroyHeld DEF Delete, HeldInv, Stores

\* A callback of the connection deletes the client.
LEMMA DeleteFromCallbackHeld == ASSUME HeldInv, DeleteFromCallback PROVE HeldInv'
  <1>1. calls' \in Nat /\ plain' \in BOOLEAN /\ late' \in BOOLEAN
    BY DEF DeleteFromCallback, Call, HeldInv, Types
  <1>2. PICK c \in DOMAIN conns : c = cur
    BY DEF DeleteFromCallback, HeldInv, BoundInv
  <1>3. Bound(queue)
    BY DEF Bound, HeldInv, Stores, BoundInv
  <1>4. CASE conns[c].status_ = "kConnected"
    <2>1. OnConn("close", c) \in Handlers /\ OnConn("close", c).c = c /\ conns[c] \in Conn
      BY ConnTyped, HandlerParts
    <2>2. Bound(Append(queue, OnConn("close", c)))
      BY <1>3, <2>1, BoundExtends
    <2>3. PICK cs : cs = [conns EXCEPT ![c].status_ = "kDisconnecting"]
      OBVIOUS
    <2>4. "kDisconnecting" \in Statuses
      BY DEF Statuses
    <2>5. WithStatus(conns[c], "kDisconnecting") \in Conn
      BY <2>1, <2>4, WithStatusFields
    <2>6. cs = [conns EXCEPT ![c] = WithStatus(conns[c], "kDisconnecting")]
      BY <2>3 DEF WithStatus
    <2>7. cs \in Seq(Conn) /\ Len(cs) = Len(conns)
      BY <2>5, <2>6 DEF HeldInv, Stores
    <2>8. Destroy(cs, Append(queue, OnConn("close", c)))
      BY <1>2, <1>4, <2>3 DEF DeleteFromCallback
    <2>. QED BY <1>1, <2>2, <2>7, <2>8, DestroyHeld
  <1>5. CASE conns[c].status_ # "kConnected"
    BY <1>1, <1>2, <1>3, <1>5, DestroyHeld DEF DeleteFromCallback, HeldInv, Stores
  <1>. QED BY <1>4, <1>5

\* The first Connect.
LEMMA InitHeld == Init => HeldInv
  <1>. SUFFICES ASSUME Init PROVE HeldInv
    OBVIOUS
  <1>1. auto_reconnect_ \in BOOLEAN /\ timer \in BOOLEAN /\ alive \in BOOLEAN /\ plain \in BOOLEAN
        /\ late \in BOOLEAN
    BY Zenon DEF Init
  <1>2. Types
    BY <1>1 DEF Init, Types
  <1>3. conns = <<>> /\ queue = <<>> /\ conn_ = 0 /\ cur = 0 /\ pc = "idle" /\ socket_ = "connecting"
    BY DEF Init
  <1>. QED BY <1>2, <1>3, BoundAssumption DEF HeldInv, Stores, BoundInv, ConnInv

\* Every step keeps HeldInv.
LEMMA NextHeld == HeldInv /\ [Next]_vars => HeldInv'
  <1>. SUFFICES ASSUME HeldInv, [Next]_vars PROVE HeldInv'
    OBVIOUS
  <1>1. CASE Loop
    BY <1>1, RunDialledHeld, RunTimerHeld, RunDisconnectHeld, RunCloseHeld, RunReadHeld,
       RunWriteHeld, RunFailedHeld, CallbackReturnsHeld, DownReturnsHeld DEF Loop
  <1>2. CASE Kernel
    BY <1>2, DialEndsHeld, TimerFiresHeld, CompletesHeld DEF Kernel
  <1>3. CASE Application
    BY <1>3, SetAutoReconnectHeld, ConnectFromCallbackHeld, DisconnectHeld,
       DisconnectFromCallbackHeld, DeleteHeld, DeleteFromCallbackHeld DEF Application
  <1>4. CASE UNCHANGED vars
    BY <1>4 DEF vars, flags, dial, held, loop, app, count, HeldInv, Types, Stores, BoundInv, ConnInv
  <1>. QED BY <1>1, <1>2, <1>3, <1>4 DEF Next

\* HeldUntilDown is what the invariant says of conn_.
LEMMA HeldMeans == HeldInv => HeldUntilDown
  <1>. SUFFICES ASSUME HeldInv PROVE HeldUntilDown
    OBVIOUS
  <1>1. conn_ \in {0} \cup {c \in DOMAIN conns : conns[c].close_fn_ /\ conns[c].status_ # "kDisconnected"}
    BY DEF HeldInv, ConnInv
  <1>2. {timer, alive, plain, late} \subseteq BOOLEAN
    BY DEF HeldInv, Types
  <1>3. TypeOK
    BY <1>1, <1>2 DEF HeldInv, Types, Stores, Handlers, Kinds, Places, TypeOK
  <1>. QED BY <1>3 DEF HeldUntilDown, HeldInv, ConnInv, ReadEnds

(* Whatever the application does, and for any number of calls and of       *)
(* connections, the connection TCPClient holds in conn_ still has its read *)
(* with the kernel, or a handler or callback that starts it again or tells *)
(* OnRemoveConn of the end.                                                *)
THEOREM HeldTheorem == Spec => []HeldUntilDown
  <1>. QED BY InitHeld, NextHeld, HeldMeans, PTL DEF Spec

-----------------------------------------------------------------------------
(* SingleChain.                                                            *)

\* Where a handler of the queue comes from.
LEMMA Origin ==
    ASSUME HeldInv, NEW d, NEW n, NEW h, Step(d, n, h), NEW i \in DOMAIN queue'
    PROVE  \/ i <= Len(queue) - d /\ i + d \in DOMAIN queue /\ queue'[i] = queue[i + d]
           \/ n > 0 /\ i > Len(queue) - d /\ i <= (Len(queue) - d) + n /\ queue'[i] = h
  BY SMTT(30) DEF Step, Moves, HeldInv, Stores

\* The places of the queue.
LEMMA QueuePlaces ==
    ASSUME HeldInv, NEW d, NEW n, NEW h, Step(d, n, h)
    PROVE  /\ d \in Nat /\ n \in Nat /\ Len(queue) \in Nat
           /\ DOMAIN queue = 1 .. Len(queue) /\ DOMAIN queue' = 1 .. Len(queue')
           /\ Len(queue') = (Len(queue) - d) + n
  BY DEF Step, Moves, HeldInv, Stores

\* No end of a dial or of a wait has joined the queue.
LEMMA AttemptsShift ==
    ASSUME HeldInv, NEW d, NEW n, NEW h, Step(d, n, h),
           n = 0 \/ h.kind \notin {"dialled", "timer"}
    PROVE  \A i \in Attempts' : i + d \in Attempts /\ queue'[i] = queue[i + d]
  <1>. SUFFICES ASSUME NEW i \in DOMAIN queue', queue'[i].kind \in {"dialled", "timer"}
                PROVE  i + d \in DOMAIN queue /\ queue'[i] = queue[i + d]
    BY DEF Attempts
  <1>1. ~(n > 0 /\ queue'[i] = h)
    BY QueuePlaces
  <1>. QED BY <1>1, Origin

\* The only such handler has left the queue.
LEMMA AttemptRan ==
    ASSUME HeldInv, ChainInv, queue # <<>>, Head(queue).kind \in {"dialled", "timer"},
           NEW h, Step(1, 0, h)
    PROVE  /\ 1 \in Attempts /\ Attempts # {} /\ Attempts' = {} /\ alive
           /\ \A i \in DOMAIN queue' : queue'[i].kind \notin {"disconnect", "timer"}
  <1>1. Head(queue) = queue[1] /\ 1 \in DOMAIN queue
    BY HeadType
  <1>2. 1 \in Attempts
    BY <1>1 DEF Attempts
  <1>3. \A i \in Attempts : i = 1
    BY <1>2 DEF ChainInv
  <1>4. Attempts' = {}
    <2>1. \A i \in Attempts' : i + 1 \in Attempts /\ i \in DOMAIN queue'
      BY AttemptsShift DEF Attempts
    <2>2. \A i \in DOMAIN queue' : i \in Nat /\ i > 0
      BY QueuePlaces
    <2>. QED BY <1>3, <2>1, <2>2
  <1>5. \A i \in DOMAIN queue' : queue'[i].kind # "disconnect"
    BY Origin, QueuePlaces DEF ChainInv
  <1>6. \A i \in DOMAIN queue' : queue'[i].kind # "timer"
    BY <1>4 DEF Attempts
  <1>7. alive
    BY <1>2 DEF ChainInv, HeldInv, Types
  <1>. QED BY <1>2, <1>4, <1>5, <1>6, <1>7

\* A handler that is not the end of a dial or of a wait joins the queue, or one
\* that is joins a queue without any.
LEMMA QueueChain ==
    ASSUME HeldInv, ChainInv, NEW d, NEW n, NEW h, Step(d, n, h), h.kind # "disconnect",
           h.kind \in {"dialled", "timer"} => n = 0 \/ (n = 1 /\ Attempts = {})
    PROVE  /\ \A i \in DOMAIN queue' : queue'[i].kind # "disconnect"
           /\ \A i, j \in Attempts' : i = j
  <1>1. /\ d \in Nat /\ n \in Nat /\ Len(queue) \in Nat
        /\ DOMAIN queue = 1 .. Len(queue) /\ DOMAIN queue' = 1 .. Len(queue')
        /\ Len(queue') = (Len(queue) - d) + n
    BY QueuePlaces
  <1>2. \A i \in DOMAIN queue' : queue'[i].kind # "disconnect"
    BY Origin DEF ChainInv
  <1>3. CASE n = 0 \/ h.kind \notin {"dialled", "timer"}
    <2>1. \A i \in Attempts' : i + d \in Attempts /\ i \in DOMAIN queue' /\ i \in Nat
      BY <1>1, <1>3, AttemptsShift DEF Attempts
    <2>. QED BY <1>1, <1>2, <2>1 DEF ChainInv
  <1>4. CASE n = 1 /\ Attempts = {} /\ h.kind \in {"dialled", "timer"}
    <2>1. \A i \in Attempts' : i = Len(queue')
      <3>. SUFFICES ASSUME NEW i \in DOMAIN queue', queue'[i].kind \in {"dialled", "timer"}
                    PROVE  i = Len(queue')
        BY DEF Attempts
      <3>1. ~(i + d \in DOMAIN queue /\ queue'[i] = queue[i + d])
        BY <1>4 DEF Attempts
      <3>. QED BY <1>1, <1>4, <3>1, Origin
    <2>. QED BY <1>2, <2>1
  <1>. QED BY <1>3, <1>4

\* The chain is not touched.
LEMMA QuietChain ==
    ASSUME HeldInv, ChainInv, NEW d, NEW n, NEW h, Step(d, n, h),
           h.kind \notin {"dialled", "timer", "disconnect"},
           UNCHANGED <<reconnecting_times_, conn_, socket_, timer, alive>>
    PROVE  ChainInv'
  <1>1. /\ \A i \in DOMAIN queue' : queue'[i].kind # "disconnect"
        /\ \A i, j \in Attempts' : i = j
    BY QueueChain
  <1>2. Attempts' # {} => Attempts # {}
    BY AttemptsShift
  <1>3. \A i \in DOMAIN queue' : queue'[i].kind = "timer" => \E j \in DOMAIN queue : queue[j].kind = "timer"
    BY Origin
  <1>. QED BY <1>1, <1>2, <1>3 DEF ChainInv

\* The flag is set or cleared.
LEMMA SetAutoReconnectChain == ASSUME HeldInv, ChainInv, SetAutoReconnect PROVE ChainInv'
  <1>1. UNCHANGED <<reconnecting_times_, conn_, socket_, timer, queue, alive>>
    BY DEF SetAutoReconnect, dial, held
  <1>2. Attempts' = Attempts
    BY <1>1 DEF Attempts
  <1>. QED BY <1>1, <1>2 DEF ChainInv

\* The kernel's answer to a dial.
LEMMA DialEndsMakes ==
    ASSUME HeldInv, ChainInv, NEW ok \in BOOLEAN, DialEnds(ok)
    PROVE  /\ alive /\ conn_ = 0 /\ Attempts = {} /\ Step(0, 1, Dialled(ok)) /\ Dialled(ok).kind = "dialled"
           /\ UNCHANGED <<conn_, conns, pc, cur, alive, failed>> /\ ChainInv'
  <1>1. Dialled(ok) \in Handlers /\ Dialled(ok).kind = "dialled"
    BY ClientHandlers
  <1>2. Step(0, 1, Dialled(ok))
    BY <1>1, Steps DEF DialEnds
  <1>3. /\ UNCHANGED <<reconnecting_times_, conn_, timer, conns, pc, cur, alive, failed>>
        /\ socket_ = "connecting" /\ socket_' # "connecting"
    BY DEF DialEnds, flags, held, loop, app
  <1>4. alive /\ conn_ = 0 /\ ~timer /\ Attempts = {}
    BY <1>3 DEF ChainInv, HeldInv, Types
  <1>5. /\ \A i \in DOMAIN queue' : queue'[i].kind # "disconnect"
        /\ \A i, j \in Attempts' : i = j
    BY <1>1, <1>2, <1>4, QueueChain
  <1>6. \A i \in DOMAIN queue' : queue'[i].kind = "timer" => \E j \in DOMAIN queue : queue[j].kind = "timer"
    BY <1>1, <1>2, Origin
  <1>7. ChainInv'
    BY <1>3, <1>4, <1>5, <1>6 DEF ChainInv
  <1>. QED BY <1>1, <1>2, <1>3, <1>4, <1>7

\* The timer expires.
LEMMA TimerFiresMakes ==
    ASSUME HeldInv, ChainInv, TimerFires
    PROVE  /\ alive /\ conn_ = 0 /\ Attempts = {}
           /\ Step(0, 1, Handler("timer")) /\ Handler("timer").kind = "timer"
           /\ UNCHANGED <<conn_, conns, pc, cur, alive, failed>> /\ ChainInv'
  <1>1. Handler("timer") \in Handlers /\ Handler("timer").kind = "timer"
    BY ClientHandlers
  <1>2. Step(0, 1, Handler("timer"))
    BY <1>1, Steps DEF TimerFires
  <1>3. /\ UNCHANGED <<reconnecting_times_, conn_, socket_, conns, pc, cur, alive, failed>>
        /\ timer /\ ~timer'
    BY DEF TimerFires, flags, held, loop, app
  <1>4. alive /\ conn_ = 0 /\ socket_ # "connecting" /\ Attempts = {} /\ reconnecting_times_ < MaxReconnect
    BY <1>3 DEF ChainInv, HeldInv, Types
  <1>5. /\ \A i \in DOMAIN queue' : queue'[i].kind # "disconnect"
        /\ \A i, j \in Attempts' : i = j
    BY <1>1, <1>2, <1>4, QueueChain
  <1>6. ChainInv'
    BY <1>3, <1>4, <1>5 DEF ChainInv
  <1>. QED BY <1>1, <1>2, <1>3, <1>4, <1>6

\* The timer's handler dials.
LEMMA RunTimerMakes ==
    ASSUME HeldInv, ChainInv, RunTimer
    PROVE  /\ alive /\ conn_ = 0 /\ 1 \in Attempts /\ Attempts' = {}
           /\ UNCHANGED <<conn_, conns, pc, cur, alive, failed>> /\ ChainInv'
  <1>1. queue # <<>> /\ Head(queue).kind = "timer" /\ Head(queue) = queue[1] /\ 1 \in DOMAIN queue
    BY HeadType DEF RunTimer, Runs
  <1>2. 1 \in Attempts
    BY <1>1 DEF Attempts
  <1>3. alive /\ ~timer /\ socket_ # "connecting" /\ conn_ = 0 /\ reconnecting_times_ < MaxReconnect
    BY <1>1, <1>2 DEF ChainInv, HeldInv, Types
  <1>4. /\ UNCHANGED <<conn_, timer, conns, pc, cur, alive, failed>>
        /\ socket_' = "connecting" /\ reconnecting_times_' = reconnecting_times_ + 1 /\ queue' = Tail(queue)
    BY <1>3 DEF RunTimer, Dangles, Reconnect, Connect, held, loop, app
  <1>5. Handler("timer") \in Handlers /\ Handler("timer").kind = "timer"
    BY ClientHandlers
  <1>6. Step(1, 0, Handler("timer"))
    BY <1>1, <1>4, <1>5, Steps
  <1>7. Attempts' = {} /\ \A i \in DOMAIN queue' : queue'[i].kind \notin {"disconnect", "timer"}
    BY <1>1, <1>6, AttemptRan
  <1>8. reconnecting_times_' <= MaxReconnect
    BY <1>3, <1>4, BoundAssumption DEF HeldInv, Types
  <1>9. ChainInv'
    BY <1>3, <1>4, <1>7, <1>8 DEF ChainInv
  <1>. QED BY <1>2, <1>3, <1>4, <1>7, <1>9

\* The lambda of Connect: a connection, or an attempt that failed.
LEMMA RunDialledMakes ==
    ASSUME HeldInv, ChainInv, RunDialled
    PROVE  /\ alive /\ conn_ = 0 /\ 1 \in Attempts /\ Attempts' = {}
           /\ Step(1, 0, Handler("timer")) /\ Handler("timer").kind = "timer"
           /\ HandleConn \/ UNCHANGED <<conn_, conns, pc, cur>>
           /\ UNCHANGED <<alive, failed>> /\ ChainInv'
  <1>1. queue # <<>> /\ Head(queue).kind = "dialled" /\ Head(queue) = queue[1] /\ 1 \in DOMAIN queue
    BY HeadType DEF RunDialled, Runs
  <1>2. 1 \in Attempts
    BY <1>1 DEF Attempts
  <1>3. alive /\ ~timer /\ socket_ # "connecting" /\ conn_ = 0
    BY <1>2 DEF ChainInv, HeldInv, Types
  <1>4. queue' = Tail(queue) /\ UNCHANGED <<alive, failed>>
    BY <1>3 DEF RunDialled, Dangles, DialFailed, app
  <1>5. Handler("timer") \in Handlers /\ Handler("timer").kind = "timer"
    BY ClientHandlers
  <1>6. Step(1, 0, Handler("timer"))
    BY <1>1, <1>4, <1>5, Steps
  <1>7. Attempts' = {} /\ \A i \in DOMAIN queue' : queue'[i].kind \notin {"disconnect", "timer"}
    BY <1>1, <1>6, AttemptRan
  <1>8. CASE reconnecting_times_' = 0 /\ HandleConn /\ UNCHANGED timer
    <2>1. socket_' = "closed"
      BY <1>8 DEF HandleConn
    <2>2. ChainInv'
      BY <1>3, <1>4, <1>7, <1>8, <2>1, BoundAssumption DEF ChainInv
    <2>. QED BY <1>2, <1>3, <1>4, <1>5, <1>6, <1>7, <1>8, <2>2
  <1>9. CASE DialFailed
    <2>1. UNCHANGED <<reconnecting_times_, socket_, conn_, conns, pc, cur>>
      BY <1>9 DEF DialFailed, held, loop
    <2>2. timer' => reconnecting_times_ < MaxReconnect
      BY <1>3, <1>9 DEF DialFailed, AttemptsLeft
    <2>3. ChainInv'
      BY <1>3, <1>4, <1>7, <2>1, <2>2 DEF ChainInv
    <2>. QED BY <1>2, <1>3, <1>4, <1>5, <1>6, <1>7, <2>1, <2>3
  <1>. QED BY <1>3, <1>8, <1>9 DEF RunDialled, Dangles

\* What OnRemoveConn does: the connection's place in the chain is that of the
\* next dial, whichever connection it is called for.
LEMMA OnRemoveConnMoves ==
    ASSUME HeldInv, ChainInv, OnRemoveConn
    PROVE  /\ queue' = queue /\ conn_' = 0
           /\ (conn_ # 0 => cur = conn_) => failed' = failed
           /\ \/ UNCHANGED <<reconnecting_times_, socket_>>
              \/ /\ conn_ # 0 /\ socket_' = "connecting" /\ reconnecting_times_' = reconnecting_times_ + 1
  <1>1. CASE conn_ = 0
    BY <1>1 DEF OnRemoveConn, AlreadyRemoved
  <1>2. CASE conn_ # 0
    <2>1. socket_ # "connecting"
      BY <1>2 DEF ChainInv
    <2>2. conn_' = 0 /\ (cur = conn_ => failed' = failed)
      BY <1>2 DEF OnRemoveConn, AlreadyRemoved, Reset
    <2>3. CASE WantsReconnect
      BY <1>2, <2>1, <2>2, <2>3 DEF OnRemoveConn, AlreadyRemoved, Reconnect, Connect
    <2>4. CASE ~WantsReconnect
      BY <1>2, <2>1, <2>2, <2>4 DEF OnRemoveConn, AlreadyRemoved
    <2>. QED BY <2>3, <2>4
  <1>. QED BY <1>1, <1>2

\* The callback of a connection that is down returns.
LEMMA DownReturnsChain == ASSUME HeldInv, ChainInv, DownReturns PROVE ChainInv' /\ queue' = queue
  <1>1. UNCHANGED <<timer, alive>>
    BY DEF DownReturns
  <1>2. CASE alive /\ OnRemoveConn
    <2>1. /\ queue' = queue /\ conn_' = 0
          /\ \/ UNCHANGED <<reconnecting_times_, socket_>>
             \/ conn_ # 0 /\ socket_' = "connecting" /\ reconnecting_times_' = reconnecting_times_ + 1
      BY <1>2, OnRemoveConnMoves
    <2>2. Attempts' = Attempts
      BY <2>1 DEF Attempts
    <2>3. CASE UNCHANGED <<reconnecting_times_, socket_>>
      BY <1>1, <2>1, <2>2, <2>3 DEF ChainInv
    <2>4. CASE conn_ # 0 /\ socket_' = "connecting" /\ reconnecting_times_' = reconnecting_times_ + 1
      <3>1. Attempts = {} /\ ~timer /\ reconnecting_times_ = 0
        BY <2>4 DEF ChainInv
      <3>2. \A i \in DOMAIN queue : queue[i].kind # "timer"
        BY <3>1 DEF Attempts
      <3>3. reconnecting_times_' <= MaxReconnect
        BY <2>4, <3>1, BoundAssumption
      <3>. QED BY <1>1, <1>2, <2>1, <2>2, <2>4, <3>1, <3>2, <3>3 DEF ChainInv
    <2>. QED BY <2>1, <2>3, <2>4
  <1>3. CASE UNCHANGED <<reconnecting_times_, conn_, socket_, queue>>
    <2>1. Attempts' = Attempts
      BY <1>3 DEF Attempts
    <2>. QED BY <1>1, <1>3, <2>1 DEF ChainInv
  <1>. QED BY <1>2, <1>3 DEF DownReturns

-----------------------------------------------------------------------------
(* The steps of a connection.                                              *)

\* Connection c becomes r, and only handlers of c join the queue.  Unless it
\* fails late, c was not gone if an operation of it waits or fails, and only
\* its failure, which closes its socket, begins to report it down.
ConnStep(c, r, d, n, h) ==
    /\ Keeps /\ Becomes(c, r) /\ Step(d, n, h)
    /\ h.kind \in {"failed", "read", "write"} /\ h.c = c
    /\ r.close_fn_ = conns[c].close_fn_
    /\ r.status_ = conns[c].status_ \/ (pc' = "down_fn" /\ cur' = c)
    /\ UNCHANGED <<reconnecting_times_, conn_, socket_, timer, alive, failed>>
    /\ ~late' /\ (r.ops # {} \/ r.open \/ (n > 0 /\ h.kind = "failed")) => ~Gone(c)
    /\ \/ UNCHANGED <<pc, cur>> /\ conns[c].ops # {}
       \/ pc # "down_fn" /\ pc' # "down_fn"
       \/ /\ pc # "down_fn" /\ pc' = "down_fn" /\ cur' = c /\ r.ops = {} /\ ~r.open
          /\ queue # <<>> /\ Head(queue).kind = "failed" /\ Head(queue).c = c

\* The change of no connection.
LEMMA SameBecomes ==
    ASSUME HeldInv, NEW c \in DOMAIN conns, conns' = conns
    PROVE  Keeps /\ Becomes(c, conns[c])
  BY DEF Keeps, Becomes, HeldInv, Stores

\* The failure of c as a handler.
LEMMA FailedParts ==
    ASSUME NEW c
    PROVE  OnConn("failed", c).kind = "failed" /\ OnConn("failed", c).c = c
  BY HandlerParts

\* A socket is closed, by the handler Close has posted or by a failure.
LEMMA ClosingSteps ==
    ASSUME HeldInv, queue # <<>>, pc = "idle", NEW c \in DOMAIN conns, NEW s \in Statuses,
           CloseSocket(c, s), UNCHANGED <<reconnecting_times_, conn_, socket_, timer, alive, failed>>,
           \/ s = conns[c].status_ /\ pc' = "idle"
           \/ pc' = "down_fn" /\ cur' = c /\ Head(queue).kind = "failed" /\ Head(queue).c = c
    PROVE  \E r, d, n, h : ConnStep(c, r, d, n, h)
  <1>1. PICK r : r = Shut(conns[c], s)
    OBVIOUS
  <1>2. Keeps /\ Becomes(c, r)
    BY <1>1, CloseSocketMakes
  <1>3. PICK n \in Nat : Step(1, n, OnConn("failed", c)) /\ (n > 0 <=> conns[c].ops # {})
    BY CloseSocketMakes
  <1>4. conns[c] \in Conn
    BY ConnTyped
  <1>5. r.status_ = s /\ r.ops = {} /\ r.open = FALSE /\ r.close_fn_ = conns[c].close_fn_
    BY <1>1, <1>4, ShutFields
  <1>6. OnConn("failed", c).kind = "failed" /\ OnConn("failed", c).c = c
    BY FailedParts
  <1>7. ConnStep(c, r, 1, n, OnConn("failed", c))
    BY <1>2, <1>3, <1>5, <1>6 DEF ConnStep, Gone
  <1>. QED BY <1>7

\* The handler Close has posted.
LEMMA RunCloseSteps ==
    ASSUME HeldInv, RunClose
    PROVE  \E c \in DOMAIN conns : \E r, d, n, h : ConnStep(c, r, d, n, h)
  <1>1. queue # <<>> /\ Head(queue).kind = "close" /\ pc = "idle"
    BY DEF RunClose, Runs
  <1>2. PICK c \in DOMAIN conns : c = Head(queue).c
    BY <1>1, HeadType
  <1>3. PICK s \in Statuses : s = conns[c].status_
    BY ConnTyped
  <1>4. CloseSocket(c, s) /\ UNCHANGED <<reconnecting_times_, conn_, socket_, timer, alive, failed>> /\ pc' = "idle"
    BY <1>1, <1>2, <1>3 DEF RunClose, flags, dial, loop, app
  <1>. QED BY <1>1, <1>3, <1>4, ClosingSteps

\* An operation has failed.
LEMMA RunFailedSteps ==
    ASSUME HeldInv, RunFailed
    PROVE  \E c \in DOMAIN conns : \E r, d, n, h : ConnStep(c, r, d, n, h)
  <1>1. queue # <<>> /\ Head(queue).kind = "failed" /\ pc = "idle"
    BY DEF RunFailed, Runs
  <1>2. PICK c \in DOMAIN conns : c = Head(queue).c
    BY <1>1, HeadType
  <1>3. PICK s \in Statuses : s = "kDisconnecting"
    BY DEF Statuses
  <1>4. /\ CloseSocket(c, s) /\ pc' = "down_fn" /\ cur' = c
        /\ UNCHANGED <<reconnecting_times_, conn_, socket_, timer, alive, failed>>
    BY <1>2, <1>3 DEF RunFailed, flags, dial, app
  <1>. QED BY <1>1, <1>2, <1>4, ClosingSteps

\* An operation is started after a handler or a callback.
LEMMA StartOpSteps ==
    ASSUME HeldInv, pc # "down_fn", pc' # "down_fn",
           NEW d \in {0, 1}, NEW q, d = 0 => q = queue, d = 1 => q = Tail(queue) /\ queue # <<>>,
           NEW c \in DOMAIN conns, NEW op \in Operations, StartOp(c, op, q),
           UNCHANGED <<reconnecting_times_, conn_, socket_, timer, alive, failed>>
    PROVE  (\E r, n, h : ConnStep(c, r, d, n, h)) /\ (late => late')
  <1>1. OnConn("failed", c).kind = "failed" /\ OnConn("failed", c).c = c /\ conns[c] \in Conn
    BY FailedParts, ConnTyped
  <1>2. /\ Keeps
        /\ \/ /\ conns[c].open /\ late' = late /\ Step(d, 0, OnConn("failed", c))
              /\ Becomes(c, WithOps(conns[c], conns[c].ops \cup {op}))
           \/ /\ ~conns[c].open /\ Step(d, 1, OnConn("failed", c)) /\ conns' = conns
              /\ late' = (late \/ conns[c].status_ = "kDisconnected")
    BY StartOpMakes
  <1>3. CASE /\ conns[c].open /\ late' = late /\ Step(d, 0, OnConn("failed", c))
             /\ Becomes(c, WithOps(conns[c], conns[c].ops \cup {op}))
    <2>1. PICK r : r = WithOps(conns[c], conns[c].ops \cup {op})
      OBVIOUS
    <2>2. conns[c].ops \cup {op} \in SUBSET Operations
      BY ConnTyped
    <2>3. r.close_fn_ = conns[c].close_fn_ /\ r.status_ = conns[c].status_
      BY <1>1, <2>1, <2>2, WithOpsFields
    <2>4. ConnStep(c, r, d, 0, OnConn("failed", c))
      BY <1>1, <1>2, <1>3, <2>1, <2>3 DEF ConnStep, Gone
    <2>. QED BY <1>3, <2>4
  <1>4. CASE /\ ~conns[c].open /\ Step(d, 1, OnConn("failed", c)) /\ conns' = conns
             /\ late' = (late \/ conns[c].status_ = "kDisconnected")
    <2>1. Becomes(c, conns[c])
      BY <1>4, SameBecomes
    <2>2. ~late' => ~Gone(c)
      BY <1>4 DEF Gone
    <2>3. ConnStep(c, conns[c], d, 1, OnConn("failed", c))
      BY <1>1, <1>2, <1>4, <2>1, <2>2 DEF ConnStep
    <2>. QED BY <1>4, <2>3
  <1>. QED BY <1>2, <1>3, <1>4

\* A callback of a connection that is up returns.
LEMMA CallbackReturnsSteps ==
    ASSUME HeldInv, CallbackReturns
    PROVE  (\E c \in DOMAIN conns : \E r, d, n, h : ConnStep(c, r, d, n, h)) /\ (late => late')
  <1>1. PICK c \in DOMAIN conns : c = cur
    BY DEF CallbackReturns, HeldInv, BoundInv
  <1>2. PICK op \in Operations : op = "read"
    BY DEF Operations
  <1>3. PICK d \in {0, 1} : d = 0
    OBVIOUS
  <1>4. PICK q : q = queue
    OBVIOUS
  <1>5. /\ StartOp(c, op, q) /\ d # 1
        /\ pc # "down_fn" /\ pc' # "down_fn"
        /\ UNCHANGED <<reconnecting_times_, conn_, socket_, timer, alive, failed>>
    BY <1>1, <1>2, <1>3, <1>4 DEF CallbackReturns, flags, dial
  <1>6. (\E r, n, h : ConnStep(c, r, d, n, h)) /\ (late => late')
    BY <1>4, <1>5, StartOpSteps, Zenon
  <1>. QED BY <1>6

\* A write is handled.
LEMMA RunWriteSteps ==
    ASSUME HeldInv, RunWrite
    PROVE  (\E c \in DOMAIN conns : \E r, d, n, h : ConnStep(c, r, d, n, h)) /\ (late => late')
  <1>1. queue # <<>> /\ Head(queue).kind = "write" /\ pc = "idle"
    BY DEF RunWrite, Runs
  <1>2. PICK c \in DOMAIN conns : c = Head(queue).c
    BY <1>1, HeadType
  <1>3. UNCHANGED <<reconnecting_times_, conn_, socket_, timer, pc, cur, alive, failed>>
    BY DEF RunWrite, flags, dial, loop
  <1>4. CASE StartOp(c, "write", Tail(queue))
    <2>1. PICK op \in Operations : op = "write"
      BY DEF Operations
    <2>2. PICK d \in {0, 1} : d = 1
      OBVIOUS
    <2>3. PICK q : q = Tail(queue)
      OBVIOUS
    <2>4. /\ StartOp(c, op, q) /\ d # 0 /\ queue # <<>>
          /\ pc # "down_fn" /\ pc' # "down_fn"
          /\ UNCHANGED <<reconnecting_times_, conn_, socket_, timer, alive, failed>>
      BY <1>1, <1>3, <1>4, <2>1, <2>2, <2>3
    <2>5. (\E r, n, h : ConnStep(c, r, d, n, h)) /\ (late => late')
      BY <2>3, <2>4, StartOpSteps, Zenon
    <2>. QED BY <2>5
  <1>5. CASE queue' = Tail(queue) /\ UNCHANGED <<conns, late>>
    <2>1. OnConn("failed", c) \in Handlers /\ OnConn("failed", c).kind = "failed" /\ OnConn("failed", c).c = c
      BY ConnTyped
    <2>2. Step(1, 0, OnConn("failed", c))
      BY <1>1, <1>5, <2>1, Steps
    <2>3. Keeps /\ Becomes(c, conns[c])
      BY <1>5, SameBecomes
    <2>4. ConnStep(c, conns[c], 1, 0, OnConn("failed", c))
      BY <1>1, <1>3, <2>1, <2>2, <2>3 DEF ConnStep, Gone
    <2>. QED BY <1>5, <2>4
  <1>. QED BY <1>2, <1>4, <1>5 DEF RunWrite

\* A read is handled, up to msg_fn_.
LEMMA RunReadSteps ==
    ASSUME HeldInv, RunRead
    PROVE  \E c \in DOMAIN conns : \E r, d, n, h : ConnStep(c, r, d, n, h)
  <1>1. queue # <<>> /\ Head(queue).kind = "read" /\ pc = "idle" /\ queue' = Tail(queue)
    BY DEF RunRead, Runs
  <1>2. PICK c \in DOMAIN conns : c = Head(queue).c
    BY <1>1, HeadType
  <1>3. /\ pc' = "msg_fn" /\ conns' = conns
        /\ UNCHANGED <<reconnecting_times_, conn_, socket_, timer, alive, failed>>
    BY DEF RunRead, flags, dial, held, app
  <1>4. OnConn("failed", c) \in Handlers /\ OnConn("failed", c).kind = "failed" /\ OnConn("failed", c).c = c
    BY ConnTyped
  <1>5. Step(1, 0, OnConn("failed", c))
    BY <1>1, <1>4, Steps
  <1>6. Keeps /\ Becomes(c, conns[c])
    BY <1>3, SameBecomes
  <1>7. ConnStep(c, conns[c], 1, 0, OnConn("failed", c))
    BY <1>1, <1>3, <1>4, <1>5, <1>6 DEF ConnStep, Gone
  <1>. QED BY <1>7

\* An operation of an open connection ends.
LEMMA CompletesSteps ==
    ASSUME HeldInv, NEW c \in DOMAIN conns, NEW op \in conns[c].ops, Completes(c, op)
    PROVE  \E r, d, n, h : ConnStep(c, r, d, n, h)
  <1>1. Keeps /\ Becomes(c, WithOps(conns[c], conns[c].ops \ {op}))
    BY CompletesMakes
  <1>2. PICK h \in Handlers : h \in {OnConn(op, c), OnConn("failed", c)} /\ Step(0, 1, h)
    BY CompletesMakes
  <1>3. conns[c] \in Conn /\ conns[c].ops \ {op} \in SUBSET Operations /\ op \in Operations
    BY ConnTyped, CompletesMakes
  <1>4. PICK r : r = WithOps(conns[c], conns[c].ops \ {op})
    OBVIOUS
  <1>5. r.status_ = conns[c].status_ /\ r.close_fn_ = conns[c].close_fn_
    BY <1>3, <1>4, WithOpsFields
  <1>6. h.kind \in {"failed", "read", "write"} /\ h.c = c
    BY <1>2, <1>3, ConnTyped DEF Operations
  <1>7. /\ UNCHANGED <<reconnecting_times_, conn_, socket_, timer, pc, cur, alive, failed>>
        /\ conns[c].open /\ conns[c].ops # {}
    BY DEF Completes, flags, dial, loop, app
  <1>8. ConnStep(c, r, 0, 1, h)
    BY <1>1, <1>2, <1>4, <1>5, <1>6, <1>7 DEF ConnStep, Gone
  <1>. QED BY <1>8

\* The steps of a connection leave the chain alone.
LEMMA ConnStepChain ==
    ASSUME HeldInv, ChainInv, NEW c, NEW r, NEW d, NEW n, NEW h, ConnStep(c, r, d, n, h)
    PROVE  ChainInv'
  BY QuietChain DEF ConnStep

-----------------------------------------------------------------------------
(* CallbackDeleteSafe.                                                     *)

\* What is left to fail still comes before an attempt.
LEMMA FirstKeeps ==
    ASSUME HeldInv, FailedFirst, NEW d, NEW n, NEW h, Step(d, n, h),
           \/ n = 0
           \/ h.kind = "failed" /\ Attempts = {}
           \/ h.kind \notin {"failed", "dialled", "timer"}
           \/ h.kind \in {"dialled", "timer"} /\ n = 1 /\ Attempts = {}
    PROVE  FailedFirst'
  <1>1. /\ d \in Nat /\ n \in Nat /\ Len(queue) \in Nat
        /\ DOMAIN queue = 1 .. Len(queue) /\ DOMAIN queue' = 1 .. Len(queue')
        /\ Len(queue') = (Len(queue) - d) + n
    BY QueuePlaces
  <1>. SUFFICES ASSUME NEW i \in DOMAIN queue', NEW j \in Attempts', queue'[i].kind = "failed"
                PROVE  i < j
    BY DEF FailedFirst
  <1>2. j \in DOMAIN queue' /\ queue'[j].kind \in {"dialled", "timer"} /\ j \in Nat /\ i \in Nat
    BY <1>1 DEF Attempts
  <1>3. CASE i + d \in DOMAIN queue /\ queue'[i] = queue[i + d]
             /\ j + d \in DOMAIN queue /\ queue'[j] = queue[j + d]
    <2>1. i + d < j + d
      BY <1>2, <1>3 DEF FailedFirst, Attempts
    <2>. QED BY <1>1, <1>2, <2>1
  <1>4. CASE n > 0 /\ queue'[i] = h
    <2>1. Attempts = {} /\ h.kind = "failed"
      BY <1>4
    <2>2. j + d \in Attempts
      BY <1>2, <2>1, AttemptsShift
    <2>. QED BY <2>1, <2>2
  <1>5. CASE n > 0 /\ queue'[j] = h /\ j > Len(queue) - d /\ i <= Len(queue) - d
    BY <1>1, <1>2, <1>5
  <1>. QED BY <1>1, <1>2, <1>3, <1>4, <1>5, Origin

\* A connection that is not gone is the current one of a client that lives, or
\* no longer calls the client; nothing is dialled then.
LEMMA NotGone ==
    ASSUME HeldInv, ChainInv, SafeInv, NEW c \in DOMAIN conns, ~Gone(c)
    PROVE  /\ Attempts = {}
           /\ alive => c = conn_ /\ conn_ # 0
           /\ ~alive => ~conns[c].close_fn_
  <1>1. c # 0
    BY DEF HeldInv, Stores
  <1>2. alive => c = conn_
    BY DEF SafeInv, LiveInv
  <1>3. ~alive => ~conns[c].close_fn_ /\ Attempts = {}
    BY ConnTyped DEF SafeInv, DeadInv, ChainInv
  <1>4. alive => Attempts = {}
    BY <1>1, <1>2 DEF ChainInv
  <1>5. alive \in BOOLEAN
    BY DEF HeldInv, Types
  <1>. QED BY <1>1, <1>2, <1>3, <1>4, <1>5

\* The steps of a connection are safe unless they fail late.
LEMMA ConnStepSafe ==
    ASSUME HeldInv, ChainInv, SafeInv, ~late', NEW c \in DOMAIN conns,
           NEW r, NEW d, NEW n, NEW h, ConnStep(c, r, d, n, h)
    PROVE  SafeInv'
  <1>1. /\ Step(d, n, h) /\ h.kind \in {"failed", "read", "write"} /\ h.c = c
        /\ UNCHANGED <<reconnecting_times_, conn_, socket_, timer, alive, failed>>
    BY DEF ConnStep
  <1>2. /\ DOMAIN conns' = DOMAIN conns /\ conns'[c] = r
        /\ \A e \in DOMAIN conns : e # c => conns'[e] = conns[e]
        /\ \A e \in DOMAIN conns : conns'[e].close_fn_ = conns[e].close_fn_
    <2>1. Becomes(c, r) /\ r.close_fn_ = conns[c].close_fn_
      BY Zenon DEF ConnStep
    <2>2. conns \in Seq(Conn) /\ conns' \in Seq(Conn)
      BY DEF ConnStep, Keeps, HeldInv, Stores
    <2>3. DOMAIN conns' = DOMAIN conns
      BY ONLY <2>1, <2>2 DEF Becomes
    <2>. QED BY ONLY <2>1, <2>3, c \in DOMAIN conns DEF Becomes
  <1>3. r.ops # {} \/ r.open \/ (n > 0 /\ h.kind = "failed") =>
           /\ ~Gone(c) /\ Attempts = {}
           /\ alive => c = conn_ /\ conn_ # 0
           /\ ~alive => ~conns[c].close_fn_
    BY NotGone DEF ConnStep
  <1>4. FailedFirst'
    <2>1. n \in Nat
      BY <1>1, QueuePlaces
    <2>. QED BY <1>1, <1>3, <2>1, FirstKeeps DEF SafeInv
  <1>5. \A i \in DOMAIN queue' : queue'[i].kind = "failed" =>
           \/ \E j \in DOMAIN queue : queue[j].kind = "failed" /\ queue[j] = queue'[i]
           \/ n > 0 /\ h.kind = "failed" /\ queue'[i].c = c
    BY <1>1, Origin
  <1>6. \/ UNCHANGED <<pc, cur>> /\ conns[c].ops # {}
        \/ pc # "down_fn" /\ pc' # "down_fn"
        \/ /\ pc # "down_fn" /\ pc' = "down_fn" /\ cur' = c /\ r.ops = {} /\ ~r.open
           /\ \E j \in DOMAIN queue : queue[j].kind = "failed" /\ queue[j].c = c
    <2>1. queue # <<>> => Head(queue) = queue[1] /\ 1 \in DOMAIN queue
      BY HeadType
    <2>. QED BY <2>1 DEF ConnStep
  <1>7. ASSUME NEW e \in DOMAIN conns, Gone(e) PROVE Gone(e)'
    <2>1. CASE e # c
      <3>1. pc = "down_fn" /\ cur = e => pc' = "down_fn" /\ cur' = e
        BY <1>6
      <3>. QED BY <1>2, <1>7, <2>1, <3>1 DEF Gone
    <2>2. CASE e = c
      <3>1. r.ops = {} /\ ~r.open
        BY <1>3, <1>7, <2>2
      <3>2. pc = "down_fn" /\ cur = e => pc' = "down_fn" /\ cur' = e
        BY <1>6
      <3>3. r.status_ = conns[c].status_ \/ (pc' = "down_fn" /\ cur' = c)
        BY DEF ConnStep
      <3>. QED BY <1>2, <1>7, <2>2, <3>1, <3>2, <3>3 DEF Gone
    <2>. QED BY <2>1, <2>2
  <1>8. pc = "down_fn" => cur \in DOMAIN conns
    BY DEF HeldInv, BoundInv
  <1>9. ASSUME alive PROVE LiveInv'
    <2>1. \A e \in DOMAIN conns' : e # conn_ => Gone(e)'
      BY <1>2, <1>7, <1>9 DEF SafeInv, LiveInv
    <2>2. pc' = "down_fn" => conns'[cur'].ops = {} /\ ~conns'[cur'].open
      <3>1. CASE UNCHANGED <<pc, cur>> /\ conns[c].ops # {}
        BY <1>2, <1>8, <1>9, <3>1 DEF SafeInv, LiveInv
      <3>. QED BY <1>2, <1>6, <3>1
    <2>3. conn_ # 0 => \A i \in DOMAIN queue' : queue'[i].kind = "failed" => queue'[i].c = conn_
      BY <1>3, <1>5, <1>9 DEF SafeInv, LiveInv
    <2>4. conn_ # 0 /\ pc' = "down_fn" => cur' = conn_
      BY <1>6, <1>9 DEF SafeInv, LiveInv
    <2>. QED BY <1>1, <2>1, <2>2, <2>3, <2>4 DEF LiveInv
  <1>10. ASSUME ~alive PROVE DeadInv'
    <2>1. \A e \in DOMAIN conns' : conns'[e].close_fn_ => Gone(e)'
      BY <1>2, <1>7, <1>10 DEF SafeInv, DeadInv
    <2>2. ASSUME NEW i \in DOMAIN queue', queue'[i].kind = "failed" PROVE ~conns'[queue'[i].c].close_fn_
      <3>1. CASE \E j \in DOMAIN queue : queue[j].kind = "failed" /\ queue[j] = queue'[i]
        <4>1. PICK j \in DOMAIN queue : queue[j].kind = "failed" /\ queue[j] = queue'[i]
          BY <3>1
        <4>2. queue[j].c \in DOMAIN conns
          BY <4>1 DEF HeldInv, BoundInv
        <4>. QED BY <1>2, <1>10, <4>1, <4>2 DEF SafeInv, DeadInv
      <3>2. CASE n > 0 /\ h.kind = "failed" /\ queue'[i].c = c
        BY <1>2, <1>3, <1>10, <3>2
      <3>. QED BY <1>5, <2>2, <3>1, <3>2
    <2>3. pc' = "down_fn" => ~conns'[cur'].close_fn_
      BY <1>2, <1>6, <1>8, <1>10 DEF SafeInv, DeadInv
    <2>. QED BY <2>1, <2>2, <2>3 DEF DeadInv
  <1>11. failed' = {}
    BY <1>1 DEF SafeInv
  <1>. QED BY <1>1, <1>4, <1>9, <1>10, <1>11 DEF SafeInv

\* Nothing of a connection changes while there is none.
LEMMA QuietSafe ==
    ASSUME HeldInv, SafeInv, alive, conn_ = 0, FailedFirst',
           UNCHANGED <<conn_, conns, pc, cur, alive, failed>>
    PROVE  SafeInv'
  <1>1. DOMAIN conns' = DOMAIN conns /\ \A c \in DOMAIN conns : Gone(c) => Gone(c)'
    BY DEF Gone
  <1>2. LiveInv'
    BY <1>1 DEF SafeInv, LiveInv
  <1>. QED BY <1>2 DEF SafeInv

\* The flag is set or cleared.
LEMMA SetAutoReconnectSafe == ASSUME HeldInv, SafeInv, SetAutoReconnect PROVE SafeInv'
  <1>1. UNCHANGED <<conn_, conns, queue, pc, cur, alive, failed>>
    BY DEF SetAutoReconnect, held, loop
  <1>2. Attempts' = Attempts
    BY <1>1 DEF Attempts
  <1>3. FailedFirst'
    BY <1>1, <1>2 DEF SafeInv, FailedFirst
  <1>4. \A c : Gone(c)' <=> Gone(c)
    BY <1>1 DEF Gone
  <1>5. alive => LiveInv'
    BY <1>1, <1>4 DEF SafeInv, LiveInv
  <1>6. ~alive => DeadInv'
    BY <1>1, <1>4 DEF SafeInv, DeadInv
  <1>. QED BY <1>1, <1>3, <1>5, <1>6 DEF SafeInv

\* The kernel's answer to a dial.
LEMMA DialEndsSafe ==
    ASSUME HeldInv, ChainInv, SafeInv, NEW ok \in BOOLEAN, DialEnds(ok)
    PROVE  SafeInv'
  <1>1. /\ alive /\ conn_ = 0 /\ Attempts = {} /\ Step(0, 1, Dialled(ok)) /\ Dialled(ok).kind = "dialled"
        /\ UNCHANGED <<conn_, conns, pc, cur, alive, failed>>
    BY DialEndsMakes
  <1>2. FailedFirst'
    BY <1>1, FirstKeeps DEF SafeInv
  <1>. QED BY <1>1, <1>2, QuietSafe

\* The timer expires.
LEMMA TimerFiresSafe == ASSUME HeldInv, ChainInv, SafeInv, TimerFires PROVE SafeInv'
  <1>1. /\ alive /\ conn_ = 0 /\ Attempts = {}
        /\ Step(0, 1, Handler("timer")) /\ Handler("timer").kind = "timer"
        /\ UNCHANGED <<conn_, conns, pc, cur, alive, failed>>
    BY TimerFiresMakes
  <1>2. FailedFirst'
    BY <1>1, FirstKeeps DEF SafeInv
  <1>. QED BY <1>1, <1>2, QuietSafe

\* The timer's handler dials.
LEMMA RunTimerSafe == ASSUME HeldInv, ChainInv, SafeInv, RunTimer PROVE SafeInv'
  <1>1. alive /\ conn_ = 0 /\ Attempts' = {} /\ UNCHANGED <<conn_, conns, pc, cur, alive, failed>>
    BY RunTimerMakes
  <1>2. FailedFirst'
    BY <1>1 DEF FailedFirst
  <1>. QED BY <1>1, <1>2, QuietSafe

\* The lambda of Connect: when it makes a connection, nothing of an earlier one
\* is left that would fail.
LEMMA RunDialledSafe == ASSUME HeldInv, ChainInv, SafeInv, RunDialled PROVE SafeInv'
  <1>1. /\ alive /\ conn_ = 0 /\ 1 \in Attempts /\ Attempts' = {}
        /\ Step(1, 0, Handler("timer")) /\ Handler("timer").kind = "timer"
        /\ HandleConn \/ UNCHANGED <<conn_, conns, pc, cur>>
        /\ UNCHANGED <<alive, failed>>
    BY RunDialledMakes
  <1>2. FailedFirst'
    BY <1>1 DEF FailedFirst
  <1>3. CASE UNCHANGED <<conn_, conns, pc, cur>>
    BY <1>1, <1>2, <1>3, QuietSafe
  <1>4. CASE HandleConn
    <2>1. /\ Len(conns') = Len(conns) + 1 /\ \A c \in DOMAIN conns : conns'[c] = conns[c]
          /\ conn_' = Len(conns) + 1 /\ cur' = conn_' /\ Keeps
      BY <1>4, HandleConnMakes
    <2>2. pc' = "up_fn" /\ pc = "idle"
      BY <1>4 DEF HandleConn, RunDialled, Runs
    <2>3. \A i \in DOMAIN queue : queue[i].kind # "failed"
      <3>1. \A i \in DOMAIN queue : i \in Nat /\ i >= 1
        BY DEF HeldInv, Stores
      <3>. QED BY <1>1, <3>1 DEF SafeInv, FailedFirst
    <2>4. \A i \in DOMAIN queue' : queue'[i].kind # "failed"
      BY <1>1, <2>3, Origin
    <2>5. \A c \in DOMAIN conns' : c # conn_' => c \in DOMAIN conns /\ c # 0
      BY <2>1 DEF HeldInv, Stores, Keeps
    <2>6. \A c \in DOMAIN conns' : c # conn_' => Gone(c)'
      BY <1>1, <2>1, <2>2, <2>5 DEF SafeInv, LiveInv, Gone
    <2>7. LiveInv'
      BY <2>2, <2>4, <2>6 DEF LiveInv
    <2>. QED BY <1>1, <1>2, <2>7 DEF SafeInv
  <1>. QED BY <1>1, <1>3, <1>4

\* The callback of a connection that is down returns.
LEMMA DownReturnsSafe == ASSUME HeldInv, ChainInv, SafeInv, DownReturns PROVE SafeInv'
  <1>1. cur \in DOMAIN conns /\ pc = "down_fn" /\ pc' = "idle" /\ alive' = alive
    BY DEF DownReturns, HeldInv, BoundInv
  <1>2. PICK c \in DOMAIN conns : c = cur
    BY <1>1
  <1>3. "kDisconnected" \in Statuses
    BY DEF Statuses
  <1>4. conns' = [conns EXCEPT ![c].status_ = "kDisconnected"]
    BY <1>2 DEF DownReturns
  <1>5. Keeps /\ Becomes(c, WithStatus(conns[c], "kDisconnected"))
    BY <1>3, <1>4, StatusMakes
  <1>6. conns[c] \in Conn
    BY ConnTyped
  <1>7. /\ WithStatus(conns[c], "kDisconnected").ops = conns[c].ops
        /\ WithStatus(conns[c], "kDisconnected").open = conns[c].open
        /\ WithStatus(conns[c], "kDisconnected").status_ = "kDisconnected"
        /\ WithStatus(conns[c], "kDisconnected").close_fn_ = conns[c].close_fn_
    BY <1>3, <1>6, WithStatusFields
  <1>8. /\ DOMAIN conns' = DOMAIN conns /\ conns'[c].status_ = "kDisconnected"
        /\ \A e \in DOMAIN conns : /\ conns'[e].close_fn_ = conns[e].close_fn_ /\ conns'[e].ops = conns[e].ops
                                   /\ conns'[e].open = conns[e].open
                                   /\ e # c => conns'[e].status_ = conns[e].status_
    BY <1>5, <1>7 DEF Becomes, Keeps, HeldInv, Stores
  <1>9. queue' = queue
    BY DownReturnsChain
  <1>10. FailedFirst'
    <2>1. Attempts' = Attempts
      BY <1>9 DEF Attempts
    <2>. QED BY <1>9, <2>1 DEF SafeInv, FailedFirst
  <1>11. ASSUME NEW e \in DOMAIN conns, Gone(e) PROVE Gone(e)'
    <2>1. CASE e = c
      BY <1>8, <1>11, <2>1 DEF Gone
    <2>2. CASE e # c
      BY <1>2, <1>8, <1>11, <2>2 DEF Gone
    <2>. QED BY <2>1, <2>2
  <1>12. CASE alive
    <2>1. conn_ # 0 => cur = conn_
      BY <1>1, <1>12 DEF SafeInv, LiveInv
    <2>2. CASE OnRemoveConn
      <3>1. conn_' = 0 /\ failed' = failed
        BY <2>1, <2>2, OnRemoveConnMoves
      <3>2. Gone(c)'
        BY <1>1, <1>2, <1>8, <1>12 DEF SafeInv, LiveInv, Gone
      <3>3. \A e \in DOMAIN conns' : Gone(e)'
        BY <1>2, <1>8, <1>11, <1>12, <2>1, <3>2 DEF SafeInv, LiveInv, HeldInv, Stores
      <3>4. LiveInv'
        BY <1>1, <3>1, <3>3 DEF LiveInv
      <3>. QED BY <1>1, <1>10, <1>12, <3>1, <3>4 DEF SafeInv
    <2>3. CASE ~conns[cur].close_fn_ /\ UNCHANGED <<conn_, failed>>
      <3>1. conn_ = 0
        BY <2>1, <2>3 DEF HeldInv, ConnInv
      <3>2. \A e \in DOMAIN conns' : Gone(e)'
        <4>1. \A e \in DOMAIN conns : e # 0
          BY DEF HeldInv, Stores
        <4>. QED BY <1>8, <1>11, <1>12, <3>1, <4>1 DEF SafeInv, LiveInv
      <3>3. LiveInv'
        BY <1>1, <2>3, <3>1, <3>2 DEF LiveInv
      <3>. QED BY <1>1, <1>10, <1>12, <2>3, <3>3 DEF SafeInv
    <2>. QED BY <1>12, <2>2, <2>3 DEF DownReturns
  <1>13. CASE ~alive
    <2>1. ~conns[cur].close_fn_
      BY <1>1, <1>13 DEF SafeInv, DeadInv
    <2>2. failed' = failed
      BY <2>1 DEF DownReturns
    <2>3. \A i \in DOMAIN queue : queue[i].kind = "failed" => queue[i].c \in DOMAIN conns
      BY DEF HeldInv, BoundInv
    <2>4. DeadInv'
      BY <1>1, <1>8, <1>9, <1>11, <1>13, <2>3 DEF SafeInv, DeadInv
    <2>. QED BY <1>1, <1>10, <1>13, <2>2, <2>4 DEF SafeInv
  <1>. QED BY <1>12, <1>13

\* The client is destroyed in a callback of its connection c, which is not up:
\* the close callback of c is taken away, and the others are gone.
LEMMA DestroySafe ==
    ASSUME HeldInv, ChainInv, alive, NEW c \in DOMAIN conns, c = conn_, cur = conn_,
           NEW cs \in Seq(Conn), Len(cs) = Len(conns), cs[c].status_ = "kDisconnecting",
           \A e \in DOMAIN conns : e # c => cs[e] = conns[e],
           NEW q, NEW n \in {0, 1},
           n = 0 => q = queue, n = 1 => q = Append(queue, OnConn("close", c)),
           Destroy(cs, q)
    PROVE  ChainInv' /\ (SafeInv => SafeInv')
  <1>1. c # 0 /\ conn_ # 0
    BY DEF HeldInv, Stores
  <1>2. Attempts = {} /\ ~timer /\ socket_ # "connecting"
    BY <1>1 DEF ChainInv
  <1>3. OnConn("close", c) \in Handlers /\ OnConn("close", c).kind = "close" /\ OnConn("close", c).c = c
    BY ConnTyped
  <1>4. queue' = q
    <2>1. queue \in Seq(Handlers) /\ Append(queue, OnConn("close", c)) \in Seq(Handlers)
      BY <1>3 DEF HeldInv, Stores
    <2>2. q \in Seq(Handlers)
      BY <2>1
    <2>. QED BY <1>2, <2>2 DEF Destroy
  <1>5. Step(0, n, OnConn("close", c))
    BY <1>3, <1>4, Steps
  <1>6. /\ \A i \in DOMAIN queue' : queue'[i].kind # "disconnect"
        /\ \A i, j \in Attempts' : i = j
    BY <1>3, <1>5, QueueChain
  <1>7. Attempts' = {}
    BY <1>2, <1>3, <1>5, AttemptsShift
  <1>8. /\ reconnecting_times_' = reconnecting_times_ /\ conn_' = 0 /\ alive' = FALSE
        /\ socket_' = "closed" /\ timer' = FALSE /\ UNCHANGED <<pc, cur>> /\ conns' = Silenced(cs)
    BY DEF Destroy, loop
  <1>9. ChainInv'
    <2>1. \A i \in DOMAIN queue' : queue'[i].kind # "timer"
      BY <1>7 DEF Attempts
    <2>. QED BY <1>6, <1>7, <1>8, <2>1 DEF ChainInv
  <1>10. ASSUME SafeInv PROVE SafeInv'
    <2>1. failed' = {}
      BY <1>10 DEF Destroy, SafeInv
    <2>2. FailedFirst'
      BY <1>7 DEF FailedFirst
    <2>3. /\ DOMAIN conns' = DOMAIN conns /\ ~conns'[c].close_fn_
          /\ \A e \in DOMAIN conns : e # c => conns'[e] = conns[e]
      <3>1. DOMAIN cs = DOMAIN conns /\ cs[c] \in Conn
        BY DEF HeldInv, Stores
      <3>2. conns' = [cs EXCEPT ![c] = Silent(cs[c])]
        BY <1>1, <1>8 DEF Silenced, Silent
      <3>3. Silent(cs[c]).close_fn_ = FALSE
        BY <3>1, SilentFields
      <3>. QED BY <3>1, <3>2, <3>3
    <2>4. \A e \in DOMAIN conns' : conns'[e].close_fn_ => Gone(e)'
      BY <1>8, <1>10, <2>3 DEF SafeInv, LiveInv, Gone
    <2>5. \A i \in DOMAIN queue' : queue'[i].kind = "failed" => queue'[i].c = c
      BY <1>1, <1>3, <1>5, <1>10, Origin DEF SafeInv, LiveInv
    <2>6. DeadInv'
      BY <1>8, <2>3, <2>4, <2>5 DEF DeadInv
    <2>. QED BY <1>8, <2>1, <2>2, <2>6 DEF SafeInv
  <1>. QED BY <1>9, <1>10

\* A callback of the connection deletes the client.
LEMMA DeleteFromCallbackSafe ==
    ASSUME HeldInv, ChainInv, DeleteFromCallback
    PROVE  ChainInv' /\ (SafeInv => SafeInv')
  <1>1. PICK c \in DOMAIN conns : c = cur
    BY DEF DeleteFromCallback, HeldInv, BoundInv
  <1>2. alive /\ c = conn_ /\ cur = conn_
    BY <1>1 DEF DeleteFromCallback, Call
  <1>3. c # 0 /\ conns[c] \in Conn /\ conns[c].status_ \in Statuses
    BY ConnTyped DEF HeldInv, Stores
  <1>4. CASE conns[c].status_ = "kConnected"
    <2>1. PICK cs : cs = [conns EXCEPT ![c].status_ = "kDisconnecting"]
      OBVIOUS
    <2>2. "kDisconnecting" \in Statuses
      BY DEF Statuses
    <2>3. /\ WithStatus(conns[c], "kDisconnecting") \in Conn
          /\ WithStatus(conns[c], "kDisconnecting").status_ = "kDisconnecting"
      BY <1>3, <2>2, WithStatusFields
    <2>4. cs = [conns EXCEPT ![c] = WithStatus(conns[c], "kDisconnecting")]
      BY <2>1 DEF WithStatus
    <2>5. /\ cs \in Seq(Conn) /\ Len(cs) = Len(conns) /\ cs[c].status_ = "kDisconnecting"
          /\ \A e \in DOMAIN conns : e # c => cs[e] = conns[e]
      BY <2>3, <2>4 DEF HeldInv, Stores
    <2>6. PICK q : q = Append(queue, OnConn("close", c))
      OBVIOUS
    <2>7. Destroy(cs, q)
      BY <1>1, <1>4, <2>1, <2>6 DEF DeleteFromCallback
    <2>8. 1 \in {0, 1} /\ 1 # 0
      OBVIOUS
    <2>. QED BY <1>2, <2>5, <2>6, <2>7, <2>8, DestroySafe
  <1>5. CASE conns[c].status_ # "kConnected"
    <2>1. conns[c].status_ = "kDisconnecting"
      BY <1>2, <1>3, <1>5 DEF HeldInv, ConnInv, Statuses
    <2>2. Destroy(conns, queue)
      BY <1>1, <1>5 DEF DeleteFromCallback
    <2>3. conns \in Seq(Conn) /\ 0 \in {0, 1} /\ 0 # 1
      BY DEF HeldInv, Stores
    <2>. QED BY <1>2, <2>1, <2>2, <2>3, DestroySafe
  <1>. QED BY <1>4, <1>5

\* The first Connect.
LEMMA InitSafe == Init => ChainInv /\ SafeInv
  <1>. SUFFICES ASSUME Init PROVE ChainInv /\ SafeInv
    OBVIOUS
  <1>1. /\ conns = <<>> /\ queue = <<>> /\ conn_ = 0 /\ pc = "idle" /\ timer = FALSE /\ alive = TRUE
        /\ reconnecting_times_ = 0 /\ failed = {}
    BY DEF Init
  <1>2. DOMAIN queue = {} /\ DOMAIN conns = {} /\ Attempts = {}
    BY <1>1 DEF Attempts
  <1>. QED BY <1>1, <1>2, BoundAssumption DEF SafeInv, ChainInv, FailedFirst, LiveInv, DeadInv

\* A call other than setting the flag and deleting in a callback is not plain.
LEMMA NotPlain ==
    ASSUME NEW k, Call(k), k \notin {"auto", "delete_cb"}
    PROVE  ~plain'
  BY DEF Call

\* An application stays plain only as long as it is, and a late failure stays.
LEMMA Histories == ASSUME HeldInv, Next PROVE (plain' => plain) /\ (late => late')
  <1>1. plain' => plain
    BY DEF Next, Loop, Kernel, Application, RunDialled, RunTimer, RunDisconnect, RunClose, RunRead, RunWrite,
           RunFailed, Dangles, DownReturns, CallbackReturns, DialEnds, TimerFires, Completes,
           SetAutoReconnect, Call, ConnectFromCallback, Disconnect, DisconnectFromCallback, Delete,
           DeleteFromCallback, app, count
  <1>2. CASE CallbackReturns
    BY <1>1, <1>2, CallbackReturnsSteps
  <1>3. CASE RunWrite
    BY <1>1, <1>3, RunWriteSteps
  <1>4. CASE Next /\ ~CallbackReturns /\ ~RunWrite
    <2>1. late' = late
      BY <1>4 DEF Next, Loop, Kernel, Application, RunDialled, RunTimer, RunDisconnect, RunClose, RunRead,
           RunFailed, Dangles, DownReturns, DialEnds, TimerFires, Completes,
           SetAutoReconnect, Call, ConnectFromCallback, Disconnect, DisconnectFromCallback, Delete,
           DeleteFromCallback, app, count
    <2>. QED BY <1>1, <2>1
  <1>. QED BY <1>2, <1>3, <1>4

\* What a plain application does.
LEMMA PlainSteps ==
    ASSUME HeldInv, ChainInv, Next, plain'
    PROVE  \/ \E c \in DOMAIN conns : \E r, d, n, h : ConnStep(c, r, d, n, h)
           \/ RunDialled \/ RunTimer \/ DownReturns
           \/ \E ok \in BOOLEAN : DialEnds(ok)
           \/ TimerFires \/ SetAutoReconnect \/ DeleteFromCallback
  <1>1. CASE Loop
    <2>1. ~RunDisconnect
      <3>1. RunDisconnect => queue # <<>> /\ Head(queue).kind = "disconnect"
        BY DEF RunDisconnect, Runs
      <3>. QED BY <3>1, HeadType DEF ChainInv
    <2>. QED BY <1>1, <2>1, RunCloseSteps, RunReadSteps, RunWriteSteps, RunFailedSteps,
                CallbackReturnsSteps DEF Loop
  <1>2. CASE Kernel
    BY <1>2, CompletesSteps DEF Kernel
  <1>3. CASE Application
    <2>1. ~ConnectFromCallback /\ ~Disconnect /\ ~DisconnectFromCallback /\ ~Delete
      BY NotPlain DEF ConnectFromCallback, Disconnect, DisconnectFromCallback, Delete
    <2>. QED BY <1>3, <2>1 DEF Application
  <1>. QED BY <1>1, <1>2, <1>3 DEF Next

\* Every step of a plain application keeps ChainInv.
LEMMA NextChain ==
    ASSUME HeldInv, ChainInv, Next, plain'
    PROVE  ChainInv'
  BY PlainSteps, ConnStepChain, RunDialledMakes, RunTimerMakes, DownReturnsChain, DialEndsMakes,
     TimerFiresMakes, SetAutoReconnectChain, DeleteFromCallbackSafe

\* And SafeInv, unless an operation fails late.
LEMMA NextSafe ==
    ASSUME HeldInv, ChainInv, SafeInv, Next, plain', ~late'
    PROVE  SafeInv'
  BY PlainSteps, ConnStepSafe, RunDialledSafe, RunTimerSafe, DownReturnsSafe, DialEndsSafe,
     TimerFiresSafe, SetAutoReconnectSafe, DeleteFromCallbackSafe

\* The whole invariant.
LEMMA Inductive == Spec => []IndInv
  <1>1. Init => IndInv
    BY InitHeld, InitSafe DEF IndInv
  <1>2. IndInv /\ [Next]_vars => IndInv'
    <2>. SUFFICES ASSUME IndInv, [Next]_vars PROVE IndInv'
      OBVIOUS
    <2>1. HeldInv'
      BY NextHeld DEF IndInv
    <2>2. CASE Next
      BY <2>1, <2>2, Histories, NextChain, NextSafe DEF IndInv
    <2>3. CASE UNCHANGED vars
      <3>1. UNCHANGED <<reconnecting_times_, conn_, socket_, timer, conns, queue, pc, cur, alive, failed,
                        plain, late>>
        BY <2>3 DEF vars, flags, dial, held, loop, app, count
      <3>2. Attempts' = Attempts /\ \A c : Gone(c)' <=> Gone(c)
        BY <3>1 DEF Attempts, Gone
      <3>3. ChainInv => ChainInv'
        BY <3>1, <3>2 DEF ChainInv
      <3>4. SafeInv => SafeInv'
        BY <3>1, <3>2 DEF SafeInv, FailedFirst, LiveInv, DeadInv
      <3>. QED BY <2>1, <3>1, <3>3, <3>4 DEF IndInv
    <2>. QED BY <2>2, <2>3
  <1>. QED BY <1>1, <1>2, PTL DEF Spec

(* Of an application that leaves reconnecting to TCPClient there is at     *)
(* most one of a dial, a wait for reconnect_timer_ and a held connection,  *)
(* and the attempts in a row are at most default_max_reconnect_time, for   *)
(* any number of connections and of changes of the flag.  Only conn_ is    *)
(* open, until an operation of a connection already reported down fails    *)
(* late and OnRemoveConn drops the next one.                               *)
THEOREM ChainTheorem == Spec => []SingleChain
  <1>1. IndInv => SingleChain
    BY DEF IndInv, ChainInv, SafeInv, LiveInv, Gone, SingleChain
  <1>. QED BY <1>1, Inductive, PTL

(* Deleting the client in a callback for its connection fails no assertion *)
(* and leaves nothing behind that reaches the deleted object, as long as   *)
(* no operation of a connection already reported down fails late.          *)
THEOREM DeleteTheorem == Spec => []CallbackDeleteSafe
  <1>1. IndInv => CallbackDeleteSafe
    BY DEF IndInv, SafeInv, CallbackDeleteSafe
  <1>. QED BY <1>1, Inductive, PTL
=============================================================================
