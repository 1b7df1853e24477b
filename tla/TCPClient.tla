----------------------------- MODULE TCPClient ------------------------------
(***************************************************************************)
(* TCPClient of tcp_client.cc: dialling, the reconnect timer, the current  *)
(* connection, and an application that disconnects, redials and deletes    *)
(* the client from callbacks and from other threads.                       *)
(*                                                                         *)
(* A connection appears as TCPConn shows it to its owner: Close posts a    *)
(* handler that closes the socket; a read, and perhaps a write, is in      *)
(* progress until it fails, and each failure runs HandleClose: conn_fn_    *)
(* followed by close_fn_, at most twice (TCPConn, NotifiedAtMostTwice).    *)
(* An operation that has completed waits in the queue for its handler,     *)
(* which starts it again: on a socket closed meanwhile that fails at once, *)
(* but behind whatever the queue holds by then.                            *)
(***************************************************************************)
EXTENDS Integers, Sequences

CONSTANTS MaxReconnect,  \* default_max_reconnect_time
          Calls,         \* the calls the application makes: see Application
          MaxCalls,      \* bound: application calls
          MaxConns       \* bound: connections established

ASSUME BoundAssumption == MaxReconnect \in Nat \ {0} /\ MaxCalls \in Nat /\ MaxConns \in Nat
ASSUME CallsAssumption ==
    Calls \subseteq {"auto", "connect", "disconnect", "disconnect_cb", "delete", "delete_cb"}

VARIABLES auto_reconnect_, reconnecting_times_,
          conn_,    \* the current connection, 0 for none
          socket_,  \* "closed" (or moved from), "connecting" or "connected"
          timer,    \* whether reconnect_timer_ is waiting
          conns,    \* every connection made so far
          queue, pc, cur,  \* the loop: handlers, callback and its connection
          alive,    \* the client object exists
          failed,   \* where an assertion failed or freed memory was used
          calls,    \* application calls made
          plain,    \* all of them so far "auto" or "delete_cb"
          late      \* history: an operation failed for a connection that was
                    \* down and reported already when it was started

flags == <<auto_reconnect_, reconnecting_times_>>
dial  == <<socket_, timer>>
held  == <<conn_, conns>>
loop  == <<pc, cur>>
count == <<calls, plain, late>>
app   == <<alive, failed, count>>
vars  == <<flags, dial, held, loop, app, queue>>

Conn == [status_ : {"kConnected", "kDisconnecting", "kDisconnected"},
         open : BOOLEAN,
         ops : SUBSET {"read", "write"},  \* operations waiting for the kernel
         close_fn_ : BOOLEAN]

Handler(k)   == [kind |-> k, ok |-> FALSE, c |-> 0]
Dialled(ok)  == [kind |-> "dialled", ok |-> ok, c |-> 0]
OnConn(k, c) == [kind |-> k, ok |-> FALSE, c |-> c]

\* Types, and conn_ is a connection that is not down and will say so when it is.
TypeOK ==
    /\ auto_reconnect_ \in BOOLEAN /\ reconnecting_times_ \in Nat
    /\ conns \in Seq(Conn) /\ cur \in 0 .. Len(conns)
    /\ conn_ \in {0} \cup {c \in DOMAIN conns : conns[c].close_fn_ /\ conns[c].status_ # "kDisconnected"}
    /\ socket_ \in {"closed", "connecting", "connected"}
    /\ {timer, alive, plain, late} \subseteq BOOLEAN /\ calls \in Nat
    /\ queue \in Seq([kind : {"dialled", "timer", "disconnect", "close", "read", "write", "failed"},
                      ok : BOOLEAN, c : 0 .. MaxConns])
    /\ pc \in {"idle", "up_fn", "msg_fn", "down_fn", "terminated"}
    /\ failed \subseteq {"~TCPClient", "DisconnectInLoop", "OnRemoveConn", "dangling"}

\* The constructor, and the application's first Connect.
Init ==
    /\ auto_reconnect_ = FALSE /\ reconnecting_times_ = 0
    /\ conn_ = 0 /\ socket_ = "connecting" /\ timer = FALSE
    /\ conns = <<>> /\ queue = <<>> /\ pc = "idle" /\ cur = 0
    /\ alive = TRUE /\ failed = {} /\ calls = 0 /\ plain = TRUE /\ late = FALSE

-----------------------------------------------------------------------------
(* Dialling.                                                               *)

\* async_connect closes socket_ first, which aborts a dial in progress.
Connect(q) ==
    /\ socket_' = "connecting"
    /\ queue' = IF socket_ = "connecting" THEN Append(q, Dialled(FALSE)) ELSE q

Reconnect(q) == reconnecting_times_' = reconnecting_times_ + 1 /\ Connect(q)

\* The kernel's answer to a dial.
DialEnds(ok) ==
    /\ socket_ = "connecting"
    /\ ok => Len(conns) < MaxConns
    /\ socket_' = IF ok THEN "connected" ELSE "closed"
    /\ queue' = Append(queue, Dialled(ok))
    /\ UNCHANGED <<flags, timer, held, loop, app>>

TimerFires ==
    /\ timer /\ timer' = FALSE
    /\ queue' = Append(queue, Handler("timer"))
    /\ UNCHANGED <<flags, socket_, held, loop, app>>

Runs(kind) == pc = "idle" /\ queue # <<>> /\ Head(queue).kind = kind

\* A handler bound to the client that was deleted.
Dangles == /\ ~alive
           /\ failed' = failed \cup {"dangling"}
           /\ queue' = Tail(queue)
           /\ UNCHANGED <<flags, dial, held, loop, alive, count>>

\* HandleConn: the new connection becomes conn_, and OnAttachedToLoop calls
\* conn_fn_.  A write may be started and fail: ops has it from the beginning.
HandleConn ==
    /\ \E ops \in {{}, {"write"}} :
          conns' = Append(conns, [status_ |-> "kConnected", open |-> TRUE,
                                  ops |-> ops, close_fn_ |-> TRUE])
    /\ conn_' = Len(conns) + 1 /\ cur' = Len(conns) + 1
    /\ socket_' = "closed"
    /\ pc' = "up_fn"

AttemptsLeft == reconnecting_times_ < MaxReconnect

\* expires_from_now cancels a wait in progress, whose handler runs all the same.
DialFailed ==
    /\ IF auto_reconnect_ /\ AttemptsLeft
       THEN /\ timer' = TRUE
            /\ queue' = IF timer THEN Append(Tail(queue), Handler("timer")) ELSE Tail(queue)
       ELSE queue' = Tail(queue) /\ UNCHANGED timer
    /\ UNCHANGED <<reconnecting_times_, socket_, held, loop>>

\* The lambda of Connect.  A success whose socket has since been closed counts
\* as aborted; one whose socket is dialling again makes TCPConn's constructor
\* throw out of the loop.
RunDialled ==
    /\ Runs("dialled")
    /\ \/ Dangles
       \/ /\ alive
          /\ \/ /\ Head(queue).ok /\ socket_ = "connected"
                /\ reconnecting_times_' = 0
                /\ HandleConn
                /\ queue' = Tail(queue)
                /\ UNCHANGED timer
             \/ /\ Head(queue).ok /\ socket_ = "connecting"
                /\ reconnecting_times_' = 0
                /\ pc' = "terminated"
                /\ queue' = Tail(queue)
                /\ UNCHANGED <<dial, held, cur>>
             \/ ~(Head(queue).ok /\ socket_ # "closed") /\ DialFailed
          /\ UNCHANGED <<auto_reconnect_, app>>

\* Reconnect as the timer's handler: it looks at no error and at no flag.
RunTimer ==
    /\ Runs("timer")
    /\ \/ Dangles
       \/ /\ alive
          /\ Reconnect(Tail(queue))
          /\ UNCHANGED <<auto_reconnect_, timer, held, loop, app>>

-----------------------------------------------------------------------------
(* The operations of a connection, and its end.                            *)

\* An operation of an open connection completes, or fails: the peer or the
\* network is gone.
Completes(c, op) ==
    /\ conns[c].open /\ op \in conns[c].ops
    /\ conns' = [conns EXCEPT ![c].ops = @ \ {op}]
    /\ queue' \in {Append(queue, OnConn(op, c)), Append(queue, OnConn("failed", c))}
    /\ UNCHANGED <<flags, dial, conn_, loop, app>>

\* AsyncRead or AsyncWrite of connection c, with q queued so far.
StartOp(c, op, q) ==
    IF conns[c].open
    THEN conns' = [conns EXCEPT ![c].ops = @ \cup {op}] /\ queue' = q /\ UNCHANGED late
    ELSE /\ queue' = Append(q, OnConn("failed", c))
         /\ late' = (late \/ conns[c].status_ = "kDisconnected")
         /\ UNCHANGED conns

\* HandleRead without an error, up to msg_fn_.
RunRead ==
    /\ Runs("read")
    /\ queue' = Tail(queue)
    /\ cur' = Head(queue).c /\ pc' = "msg_fn"
    /\ UNCHANGED <<flags, dial, held, app>>

\* conn_fn_ of a new connection, or msg_fn_, returns and the next read starts.
CallbackReturns ==
    /\ pc \in {"up_fn", "msg_fn"}
    /\ StartOp(cur, "read", queue)
    /\ pc' = "idle" /\ cur' = 0
    /\ UNCHANGED <<flags, dial, conn_, alive, failed, calls, plain>>

\* HandleWrite without an error: there may be more to write.
RunWrite ==
    /\ Runs("write")
    /\ \/ StartOp(Head(queue).c, "write", Tail(queue))
       \/ queue' = Tail(queue) /\ UNCHANGED <<conns, late>>
    /\ UNCHANGED <<flags, dial, conn_, loop, alive, failed, calls, plain>>

\* The socket of connection c is closed, and the operations that wait for the
\* kernel are aborted.
Aborted(c, op) == IF op \in conns[c].ops THEN <<OnConn("failed", c)>> ELSE <<>>

CloseSocket(c, status) ==
    /\ conns' = [conns EXCEPT ![c] = [@ EXCEPT !.status_ = status, !.open = FALSE, !.ops = {}]]
    /\ queue' = Tail(queue) \o Aborted(c, "read") \o Aborted(c, "write")

\* The lambda TCPConn::Close has posted.
RunClose ==
    /\ Runs("close")
    /\ LET c == Head(queue).c IN CloseSocket(c, conns[c].status_)
    /\ UNCHANGED <<flags, dial, conn_, loop, app>>

\* HandleRead or HandleWrite with an error: HandleClose up to conn_fn_.
RunFailed ==
    /\ Runs("failed")
    /\ CloseSocket(Head(queue).c, "kDisconnecting")
    /\ cur' = Head(queue).c /\ pc' = "down_fn"
    /\ UNCHANGED <<flags, dial, conn_, app>>

\* Mutant of AlreadyRemoved: the test is dropped.
AlreadyRemovedNever == FALSE
AlreadyRemoved == conn_ = 0

WantsReconnect == auto_reconnect_

\* Mutant of Reset: conn_ is not reset.
ResetForgotten == UNCHANGED conn_
Reset == conn_' = 0

OnRemoveConn ==
    IF AlreadyRemoved
    THEN UNCHANGED <<reconnecting_times_, conn_, socket_, queue, failed>>
    ELSE /\ failed' = IF cur = conn_ THEN failed ELSE failed \cup {"OnRemoveConn"}
         /\ Reset
         /\ IF WantsReconnect THEN Reconnect(queue)
            ELSE UNCHANGED <<reconnecting_times_, socket_, queue>>

\* conn_fn_ returns to HandleClose, which calls close_fn_ if it is still set.
DownReturns ==
    /\ pc = "down_fn"
    /\ \/ conns[cur].close_fn_ /\ alive /\ OnRemoveConn
       \/ /\ conns[cur].close_fn_ /\ ~alive
          /\ failed' = failed \cup {"dangling"}
          /\ UNCHANGED <<reconnecting_times_, conn_, socket_, queue>>
       \/ /\ ~conns[cur].close_fn_
          /\ UNCHANGED <<reconnecting_times_, conn_, socket_, queue, failed>>
    /\ conns' = [conns EXCEPT ![cur].status_ = "kDisconnected"]
    /\ pc' = "idle" /\ cur' = 0
    /\ UNCHANGED <<auto_reconnect_, timer, alive, count>>

-----------------------------------------------------------------------------
(* The application.                                                        *)

Call(kind) ==
    /\ kind \in Calls /\ alive /\ calls < MaxCalls
    /\ calls' = calls + 1 /\ UNCHANGED late
    /\ plain' = (plain /\ kind \in {"auto", "delete_cb"})

\* To the other value: storing the one it has changes nothing.
SetAutoReconnect ==
    /\ Call("auto")
    /\ auto_reconnect_' = ~auto_reconnect_
    /\ UNCHANGED <<reconnecting_times_, dial, held, queue, loop, alive, failed>>

\* A callback that hears of the end of the connection dials again.
ConnectFromCallback ==
    /\ Call("connect") /\ pc = "down_fn"
    /\ Connect(queue)
    /\ UNCHANGED <<flags, timer, held, loop, alive, failed>>

\* Mutant of Closing: the connection is not closed.
ClosingForgotten(q) == queue' = q /\ UNCHANGED conns

\* conn_->Close(), if there is a connection.
Closing(q) ==
    IF conn_ = 0 THEN queue' = q /\ UNCHANGED conns
    ELSE /\ conns' = [conns EXCEPT ![conn_].status_ = "kDisconnecting"]
         /\ queue' = Append(q, OnConn("close", conn_))

DisconnectInLoop(q) ==
    /\ auto_reconnect_' = FALSE
    /\ failed' = IF conn_ # 0 /\ conns[conn_].status_ # "kConnected"
                 THEN failed \cup {"DisconnectInLoop"} ELSE failed
    /\ Closing(q)
    /\ UNCHANGED <<reconnecting_times_, dial, conn_, loop, alive>>

\* Disconnect from another thread, and what it has posted.
Disconnect ==
    /\ Call("disconnect")
    /\ queue' = Append(queue, Handler("disconnect"))
    /\ UNCHANGED <<flags, dial, held, loop, alive, failed>>

RunDisconnect ==
    /\ Runs("disconnect")
    /\ Dangles \/ (alive /\ DisconnectInLoop(Tail(queue)) /\ UNCHANGED count)

\* Disconnect from a callback runs at once.
DisconnectFromCallback ==
    Call("disconnect_cb") /\ pc \in {"up_fn", "msg_fn", "down_fn"} /\ DisconnectInLoop(queue)

\* Mutant of Silenced: the close callback is left in place.
SilencedForgotten(cs) == cs

\* SetCloseCallback(CloseCallback()) on a connection that is closing.
Silenced(cs) == IF conn_ # 0 /\ cs[conn_].status_ = "kDisconnecting"
                THEN [cs EXCEPT ![conn_].close_fn_ = FALSE] ELSE cs

\* ~TCPClient, after a Disconnect that left conns and queue as cs and q: the
\* members' destructors cancel the dial and the timer.
Destroy(cs, q) ==
    /\ auto_reconnect_' = FALSE
    /\ failed' = IF conn_ # 0 /\ cs[conn_].status_ = "kConnected"
                 THEN failed \cup {"~TCPClient"} ELSE failed
    /\ conns' = Silenced(cs)
    /\ conn_' = 0 /\ alive' = FALSE
    /\ socket_' = "closed" /\ timer' = FALSE
    /\ queue' = q \o (IF socket_ = "connecting" THEN <<Dialled(FALSE)>> ELSE <<>>)
                  \o (IF timer THEN <<Handler("timer")>> ELSE <<>>)
    /\ UNCHANGED <<reconnecting_times_, loop>>

\* Another thread calls Disconnect and deletes the client.
Delete == Call("delete") /\ Destroy(conns, Append(queue, Handler("disconnect")))

\* A callback for the client's connection calls Disconnect, if it is up, and
\* deletes the client.
DeleteFromCallback ==
    /\ Call("delete_cb") /\ pc \in {"up_fn", "msg_fn", "down_fn"} /\ cur = conn_
    /\ IF conns[cur].status_ = "kConnected"
       THEN Destroy([conns EXCEPT ![cur].status_ = "kDisconnecting"],
                    Append(queue, OnConn("close", cur)))
       ELSE Destroy(conns, queue)

-----------------------------------------------------------------------------
Loop == \/ RunDialled \/ RunTimer \/ RunDisconnect \/ RunClose
        \/ RunRead \/ RunWrite \/ RunFailed \/ CallbackReturns \/ DownReturns

Kernel == \/ \E ok \in BOOLEAN : DialEnds(ok)
          \/ TimerFires
          \/ \E c \in DOMAIN conns : \E op \in conns[c].ops : Completes(c, op)

Application == \/ SetAutoReconnect \/ ConnectFromCallback
               \/ Disconnect \/ DisconnectFromCallback
               \/ Delete \/ DeleteFromCallback

Next == Loop \/ Kernel \/ Application

Spec == Init /\ [][Next]_vars

\* The loop runs its handlers, a dial is answered and the timer expires.
Fairness == /\ WF_vars(Loop) /\ WF_vars(TimerFires)
            /\ WF_vars(\E ok \in BOOLEAN : DialEnds(ok))

FairSpec == Spec /\ Fairness
-----------------------------------------------------------------------------
(* Types, and whatever the application does, the connection the client     *)
(* holds still has its read waiting for the kernel, or a handler or        *)
(* callback that starts the read again or tells OnRemoveConn of the end:   *)
(* no connection is held that nobody will ever release.                    *)
HeldUntilDown ==
    /\ TypeOK
    /\ conn_ # 0 => \/ "read" \in conns[conn_].ops
                    \/ \E i \in DOMAIN queue : queue[i] \in {OnConn("read", conn_), OnConn("failed", conn_)}
                    \/ cur = conn_

\* The queued ends of dials and of waits for the timer.
Attempts == {i \in DOMAIN queue : queue[i].kind \in {"dialled", "timer"}}

(* Of an application that lets the client reconnect by itself: at most one *)
(* of a dial, a wait for reconnect_timer_ and a held connection at a time, *)
(* although HandleClose may call OnRemoveConn twice for one connection,    *)
(* behind the next dial, and the flag changes at any time.  The chain      *)
(* gives up after default_max_reconnect_time attempts in a row, the one    *)
(* OnRemoveConn makes without looking at the number included.  No          *)
(* connection is open that the client does not hold, unless a late failure *)
(* of an earlier one has made OnRemoveConn drop it.                        *)
SingleChain ==
    plain => /\ reconnecting_times_ <= MaxReconnect
             /\ \A i, j \in Attempts : i = j
             /\ Attempts # {} => ~timer /\ socket_ # "connecting" /\ conn_ = 0
             /\ timer => socket_ # "connecting" /\ conn_ = 0
             /\ socket_ = "connecting" => conn_ = 0
             /\ alive /\ ~late => \A c \in DOMAIN conns : conns[c].open => c = conn_

(* Deleting the client in a callback for its connection is safe, up or     *)
(* down, reconnecting or not: no assertion fails, and no handler or close  *)
(* callback reaches the deleted object.  The exception is a late failure:  *)
(* HandleRead of a connection that was reported down starts a read that    *)
(* fails, its second OnRemoveConn finds the next connection, and the       *)
(* assertion at tcp_client.cc:125 fails.                                   *)
CallbackDeleteSafe == plain /\ ~late => failed = {}


(* A Disconnect posted while there is a connection takes it down, whatever *)
(* else goes on, unless an exception has ended the loop.                   *)
DisconnectCompletes ==
    (conn_ # 0 /\ \E i \in DOMAIN queue : queue[i].kind = "disconnect")
        ~> (conn_ = 0 \/ pc = "terminated")

(* tcp_client.cc:32: "the user application layer will call                 *)
(* TCPClient::Close() and delete TCPClient object immediately, that will   *)
(* make conn_ to be at disconnecting status".                              *)
DeletedDisconnecting == "~TCPClient" \notin failed
=============================================================================
