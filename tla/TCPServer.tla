----------------------------- MODULE TCPServer ------------------------------
(***************************************************************************)
(* TCPServer of tcp_server.cc: the listening loop accepts connections,     *)
(* hands each to a loop of the pool in turn (or keeps it, if the pool has  *)
(* no threads) and registers it in conns_; a connection that ends is taken *)
(* out of conns_ by the listening loop again.  The server may be stopped   *)
(* at any time.                                                            *)
(*                                                                         *)
(* A connection appears as TCPConn shows it to its owner: Close posts a    *)
(* handler that closes the socket, each outstanding operation then fails,  *)
(* and each failure runs HandleClose, which calls conn_fn_ and close_fn_.  *)
(* (One that had completed before the close runs its handler first and     *)
(* fails behind what is queued by then: TCPClient has that.  Here it could *)
(* only delay a report and a removal by name, or repeat them.)             *)
(* Stopping a pool with threads never returns (EventLoopThreadPool,        *)
(* StopReturns).                                                           *)
(***************************************************************************)
EXTENDS Integers, FiniteSets, SequencesExt

CONSTANTS ThreadNums,  \* the values of thread_num a server is made with
          MaxConns,    \* bound: connections accepted
          MaxFails,    \* bound: accepts that fail
          MaxCalls     \* bound: calls of the application

ASSUME BoundAssumption == ThreadNums \subseteq Nat /\ {MaxConns, MaxFails, MaxCalls} \subseteq Nat

VARIABLES
    thread_num,
    acceptor_,  \* "open", "accepting" (async_accept is outstanding) or "closed"
    next_,      \* of the pool: which thread's socket is next
    closed_,
    conns,      \* every connection made so far
    conns_,     \* the registered ones
    queue,      \* of every loop: its handlers; 0 is the listening loop
    pc,         \* of the listening loop
    told,       \* the connections StopInLoop has closed
    fails, calls

server == <<acceptor_, next_, closed_>>
bounds == <<fails, calls>>
vars   == <<thread_num, server, conns, conns_, queue, pc, told, bounds>>

Ids   == 1 .. MaxConns
Loops == 0 .. thread_num
Conn  == [loop : Nat, stage : {"accepted", "up", "down"},
          open : BOOLEAN,
          ops : 0 .. 2]   \* operations that will fail when the socket closes

\* A handler: c is its connection, or the loop chosen for the accepted socket.
Handler(k, c) == [kind |-> k, c |-> c]

\* Types.
TypeOK ==
    /\ thread_num \in ThreadNums /\ acceptor_ \in {"open", "accepting", "closed"}
    /\ next_ \in Nat /\ closed_ \in BOOLEAN
    /\ conns \in Seq(Conn) /\ conns_ \subseteq DOMAIN conns /\ told \subseteq DOMAIN conns
    /\ \A c \in DOMAIN conns : conns[c].loop \in (IF thread_num = 0 THEN {0} ELSE 1 .. thread_num)
    /\ queue \in [Loops -> Seq([kind : {"accepted", "refused", "stop", "remove", "attach", "close", "failed"},
                                c : 0 .. MaxConns + thread_num])]
    /\ pc \in {"new", "idle", "attach", "insert", "down", "stuck", "terminated"}
    /\ fails \in 0 .. MaxFails /\ calls \in 0 .. MaxCalls

Init ==
    /\ thread_num \in ThreadNums
    /\ acceptor_ = "open" /\ next_ = 0 /\ closed_ = FALSE
    /\ conns = <<>> /\ conns_ = {} /\ told = {}
    /\ queue = [l \in Loops |-> <<>>] /\ pc = "new" /\ fails = 0 /\ calls = 0

-----------------------------------------------------------------------------
(* Accepting.                                                              *)

\* async_accept on the socket GetSocketForAccept chooses, or on the listening
\* loop's own; with a closed acceptor it fails at once.
AsyncAccept(q) ==
    /\ next_' = IF thread_num = 0 THEN next_ ELSE next_ + 1
    /\ IF acceptor_ = "closed"
       THEN queue' = [q EXCEPT ![0] = Append(@, Handler("refused", 0))] /\ UNCHANGED acceptor_
       ELSE acceptor_' = "accepting" /\ queue' = q

\* Mutant of AcceptsAgain: only after a success.
AcceptsAgainAfter(ok) == ok /\ ~closed_

AcceptsAgain(ok) == ~closed_

\* The end of async_accept's handler.
NextAccept(ok, q) ==
    IF AcceptsAgain(ok) THEN AsyncAccept(q) ELSE queue' = q /\ UNCHANGED <<acceptor_, next_>>

\* The pool is started; the listening loop may run already or not.
Start ==
    /\ pc = "new" /\ pc' = "idle"
    /\ AsyncAccept(queue)
    /\ UNCHANGED <<thread_num, closed_, conns, conns_, told, bounds>>

\* The loop whose socket GetSocketForAccept has chosen for this accept.
Accepting == IF thread_num = 0 THEN 0 ELSE 1 + ((next_ - 1) % thread_num)

Posted(l, h) == [queue EXCEPT ![l] = Append(@, h)]

\* A peer connects.
Connects ==
    /\ acceptor_ = "accepting" /\ Len(conns) < MaxConns
    /\ acceptor_' = "open"
    /\ queue' = Posted(0, Handler("accepted", Accepting))
    /\ UNCHANGED <<thread_num, next_, closed_, conns, conns_, pc, told, bounds>>

\* The kernel refuses, for want of descriptors perhaps.
AcceptFails ==
    /\ acceptor_ = "accepting" /\ fails < MaxFails
    /\ acceptor_' = "open" /\ fails' = fails + 1
    /\ queue' = Posted(0, Handler("refused", 0))
    /\ UNCHANGED <<thread_num, next_, closed_, conns, conns_, pc, told, calls>>

Popped(l) == [queue EXCEPT ![l] = Tail(@)]

Runs(l, kind) ==
    /\ pc \notin {"new", "terminated"} /\ (l = 0 => pc = "idle")
    /\ queue[l] # <<>> /\ Head(queue[l]).kind = kind

RunRefused ==
    /\ Runs(0, "refused")
    /\ NextAccept(FALSE, Popped(0))
    /\ UNCHANGED <<thread_num, closed_, conns, conns_, pc, told, bounds>>

\* HandleNewConn makes the connection.  If the peer has reset it already, its
\* constructor throws out of the listening loop.
RunAccepted(reset) ==
    /\ Runs(0, "accepted") /\ Len(conns) < MaxConns
    /\ queue' = Popped(0)
    /\ IF reset THEN pc' = "terminated" /\ UNCHANGED conns
       ELSE /\ pc' = "attach"
            /\ conns' = Append(conns, [loop |-> Head(queue[0]).c, stage |-> "accepted", open |-> TRUE, ops |-> 0])
    /\ UNCHANGED <<thread_num, server, conns_, told, bounds>>

Newest == Len(conns)

\* OnAttachedToLoop: conn_fn_, then a read; a write may be under way as well
\* when the connection fails.
Attached(c) ==
    \E ops \in {1, 2} :
        conns' = [conns EXCEPT ![c] = [@ EXCEPT !.stage = "up", !.ops = IF conns[c].open THEN ops ELSE 0]]

\* RunInLoop(OnAttachedToLoop): at once in the listening loop.
HandleNewConnAttaches ==
    /\ pc = "attach" /\ pc' = "insert"
    /\ IF conns[Newest].loop = 0 THEN Attached(Newest) /\ UNCHANGED queue
       ELSE queue' = Posted(conns[Newest].loop, Handler("attach", Newest)) /\ UNCHANGED conns
    /\ UNCHANGED <<thread_num, server, conns_, told, bounds>>

HandleNewConnInserts ==
    /\ pc = "insert" /\ pc' = "idle"
    /\ conns_' = conns_ \cup {Newest}
    /\ NextAccept(TRUE, queue)
    /\ UNCHANGED <<thread_num, closed_, conns, told, bounds>>

-----------------------------------------------------------------------------
(* Connections, each in its loop.                                          *)

RunAttach(l) ==
    /\ Runs(l, "attach")
    /\ Attached(Head(queue[l]).c)
    /\ queue' = Popped(l)
    /\ UNCHANGED <<thread_num, server, conns_, pc, told, bounds>>

PeerLost(c) ==
    /\ conns[c].open /\ conns[c].ops > 0
    /\ conns' = [conns EXCEPT ![c].ops = @ - 1]
    /\ queue' = Posted(conns[c].loop, Handler("failed", c))
    /\ UNCHANGED <<thread_num, server, conns_, pc, told, bounds>>

\* The socket of c is closed and its operations are aborted.
Aborted(c) == [i \in 1 .. conns[c].ops |-> Handler("failed", c)]
Closed(c, stage) == [conns EXCEPT ![c] = [@ EXCEPT !.open = FALSE, !.ops = 0, !.stage = stage]]

RunClose(l) ==
    /\ Runs(l, "close")
    /\ LET c == Head(queue[l]).c
       IN  conns' = Closed(c, conns[c].stage) /\ queue' = [queue EXCEPT ![l] = Tail(@) \o Aborted(c)]
    /\ UNCHANGED <<thread_num, server, conns_, pc, told, bounds>>

\* Mutants of RemoveConn: the worker erases by itself; nobody does.
RemoveConnHere(c, q) == conns_' = conns_ \ {c} /\ queue' = q
RemoveConnNever(c, q) == queue' = q /\ UNCHANGED conns_

\* close_fn_: erase in the listening loop.
RemoveConn(c, q) ==
    IF conns[c].loop = 0 THEN conns_' = conns_ \ {c} /\ queue' = q
    ELSE queue' = [q EXCEPT ![0] = Append(@, Handler("remove", c))] /\ UNCHANGED conns_

\* HandleRead or HandleWrite with an error: HandleClose, of which the
\* listening loop's part after conn_fn_ is a step of its own.
RunFailed(l) ==
    /\ Runs(l, "failed")
    /\ LET c == Head(queue[l]).c
       IN  /\ conns' = Closed(c, "down")
           /\ IF l = 0 THEN pc' = "down" /\ queue' = [queue EXCEPT ![0] = @ \o Aborted(c)] /\ UNCHANGED conns_
              ELSE RemoveConn(c, [queue EXCEPT ![l] = Tail(@) \o Aborted(c)]) /\ UNCHANGED pc
    /\ UNCHANGED <<thread_num, server, told, bounds>>

DownReturns ==
    /\ pc = "down" /\ pc' = "idle"
    /\ RemoveConn(Head(queue[0]).c, Popped(0))
    /\ UNCHANGED <<thread_num, server, conns, told, bounds>>

RunRemove ==
    /\ Runs(0, "remove")
    /\ conns_' = conns_ \ {Head(queue[0]).c}
    /\ queue' = Popped(0)
    /\ UNCHANGED <<thread_num, server, conns, pc, told, bounds>>

-----------------------------------------------------------------------------
(* The application, from any thread, and StopInLoop.                       *)

Call == pc \notin {"new", "terminated"} /\ calls < MaxCalls /\ calls' = calls + 1

Close(c) ==
    /\ Call /\ conns[c].stage # "accepted"
    /\ queue' = Posted(conns[c].loop, Handler("close", c))
    /\ UNCHANGED <<thread_num, server, conns, conns_, pc, told, fails>>

Stop ==
    /\ Call /\ queue' = Posted(0, Handler("stop", 0))
    /\ UNCHANGED <<thread_num, server, conns, conns_, pc, told, fails>>

\* Mutant of Kept: StopInLoop empties conns_ itself.
KeptNone == {}

\* conns_ after StopInLoop.
Kept == conns_

\* Mutant of ToClose: the connections are left to their peers.
ToCloseNone == {}

ToClose == conns_

\* Close, in the order of the map, for the connections of loop l.
Closes(l) == SetToSeq({Handler("close", c) : c \in {d \in ToClose : conns[d].loop = l}})

\* acceptor_.close, Close for every connection, and the pool's Stop(true).
StopInLoop(q) ==
    /\ acceptor_' = "closed"
    /\ queue' = [l \in Loops |->
           q[l] \o (IF l = 0 /\ acceptor_ = "accepting" THEN <<Handler("refused", 0)>> ELSE <<>>)
                \o Closes(l)]
    /\ told' = told \cup ToClose /\ conns_' = Kept
    /\ UNCHANGED <<thread_num, next_, conns, fails>>

RunStop ==
    /\ Runs(0, "stop")
    /\ StopInLoop(Popped(0))
    /\ IF thread_num > 0 THEN pc' = "stuck" /\ UNCHANGED closed_ ELSE closed_' = TRUE /\ UNCHANGED pc
    /\ UNCHANGED calls

\* Stop in a callback of a connection of the listening loop.
StopFromCallback ==
    /\ Call /\ pc \in {"insert", "down"} /\ thread_num = 0
    /\ StopInLoop(queue)
    /\ closed_' = TRUE /\ UNCHANGED pc

-----------------------------------------------------------------------------
Listening == \/ RunRefused \/ \E reset \in BOOLEAN : RunAccepted(reset)
             \/ HandleNewConnAttaches \/ HandleNewConnInserts \/ RunRemove \/ DownReturns \/ RunStop

Serving(l) == RunAttach(l) \/ RunClose(l) \/ RunFailed(l)

Outside == \/ Start \/ Connects \/ AcceptFails \/ Stop \/ StopFromCallback
           \/ \E c \in DOMAIN conns : PeerLost(c) \/ Close(c)

Next == Listening \/ Outside \/ \E l \in Loops : Serving(l)

Spec == Init /\ [][Next]_vars

\* Every loop runs its handlers.
Fairness == WF_vars(Listening) /\ \A l \in UNION {0 .. n : n \in ThreadNums} : WF_vars(l \in Loops /\ Serving(l))

FairSpec == Spec /\ Fairness
-----------------------------------------------------------------------------
Queued(l, h) == \E i \in DOMAIN queue[l] : queue[l][i] = h

(* A registered connection is one whose end will still take it out again:  *)
(* it is yet to be attached, it has an operation that can fail, or its     *)
(* failure or its removal is queued.  The worker may attach, lose and      *)
(* remove it before the listening loop has come to register it; that is    *)
(* why RemoveConn goes through the listening loop.                         *)
RegisteredIsReleased ==
    \A c \in conns_ : \/ conns[c].ops > 0
                      \/ Queued(conns[c].loop, Handler("attach", c))
                      \/ Queued(conns[c].loop, Handler("failed", c))
                      \/ Queued(0, Handler("remove", c))

\* The accepts that are outstanding, queued or being handled.
Accepts ==
    Cardinality({i \in DOMAIN queue[0] : queue[0][i].kind \in {"accepted", "refused"}})
    + (IF acceptor_ = "accepting" THEN 1 ELSE 0) + (IF pc \in {"attach", "insert"} THEN 1 ELSE 0)

(* Types, and there is one accept at a time, on one socket of the pool,    *)
(* and until the acceptor is closed there always is one: no failed accept  *)
(* and no order of handlers ends the chain.                                *)
AcceptChain ==
    /\ TypeOK
    /\ Accepts <= 1
    /\ acceptor_ # "closed" /\ pc \notin {"new", "terminated"} => Accepts = 1

(* tcp_server.cc:23: "assert(conns_.empty())".  Of the connections that    *)
(* are registered once the server is closed, all but one at most were      *)
(* closed by StopInLoop: the one whose accept had completed by then.       *)
OneLate == closed_ => Cardinality(conns_ \ told) <= 1

(* StopInLoop takes down every connection it finds registered, whichever   *)
(* loop serves it and whether or not it is attached yet, and the listening *)
(* loop forgets it, unless it waits for the pool for ever.                 *)
StopTakesDown ==
    \A c \in Ids : (c \in told) ~>
        \/ c \in told /\ conns[c].stage = "down" /\ (c \notin conns_ \/ pc = "stuck")
        \/ pc = "terminated"

\* How far connection c has come.
StageOf(c) ==
    CASE c > Len(conns) -> "none"
      [] c <= Len(conns) /\ (c \in conns_ \/ (pc \in {"attach", "insert"} /\ c = Newest)) -> conns[c].stage
      [] OTHER -> "gone"

Abstract == INSTANCE Lifecycle WITH stage <- [c \in Ids |-> StageOf(c)]

(* Every connection goes through the stages of Lifecycle: none is          *)
(* forgotten before it is reported down, registered again after it was     *)
(* removed, or reported up after it was reported down.  (The second report *)
(* of one loss, which HandleClose makes when a read and a write fail, is a *)
(* stutter: TCPConn, NotifiedAtMostTwice, bounds it.)                      *)
ImplementsLifecycle == Abstract!Spec
=============================================================================
