------------------------------ MODULE TCPConn -------------------------------
(***************************************************************************)
(* One TCPConn of tcp_conn.cc: the loop thread that runs its handlers and  *)
(* the application's callbacks, other threads that call Send and Close,    *)
(* and the kernel that completes its reads and writes.                     *)
(*                                                                         *)
(* queue is the io_service's FIFO of handlers ready to run.  pc says where *)
(* the loop thread is: "idle" between two handlers, or inside a callback,  *)
(* where the application may call Send and Close before it returns.        *)
(***************************************************************************)
EXTENDS ByteBuffer

CONSTANTS InitCap,         \* the size buffers are constructed with (8 KB)
          HighWaterMark,
          MessageCallback, \* what msg_fn_ does with the buffer: see MsgResults
          MaxCalls,        \* bound: Send and Close calls
          MaxReceived      \* bound: bytes received

ASSUME CapAssumption == InitCap \in Nat /\ HighWaterMark \in Nat
ASSUME BoundAssumption == MaxCalls \in Nat /\ MaxReceived \in Nat
ASSUME CallbackAssumption == MessageCallback \in {"drain", "default", "any"}

VARIABLES status_, open, async_writing_,
          recv_buffer_, write_buffer_, writing_buffer_,
          read, write,   \* the asynchronous operations in progress
          queue, pc,
          owned,         \* the TCPServer or TCPClient still holds the connection
          peer,          \* "up", or "gone" once the peer or the network gave up
          downs,         \* calls of conn_fn_ for a connection that went down
          late,          \* history: Close was called after the latest report of the end
          calls, received

sendVars == <<async_writing_, write_buffer_, writing_buffer_, write>>
recvVars == <<recv_buffer_, read>>
env      == <<peer, late, calls, received>>
vars     == <<status_, open, sendVars, recvVars, queue, pc, owned, downs, env>>

Status    == {"kDisconnected", "kConnecting", "kConnected", "kDisconnecting"}
Callbacks == {"attach_fn", "msg_fn", "high_water_fn", "down_fn"}
Kinds     == {"attach", "send", "close", "read", "write"}

\* An asynchronous operation: not started, waiting for the kernel with the
\* memory it was given (at), or completed with an error or n bytes.
NoOp         == [st |-> "none", err |-> FALSE, n |-> 0, at |-> MovedFrom]
Pending(b)   == [st |-> "pending", err |-> FALSE, n |-> 0, at |-> b]
Done(err, n) == [st |-> "done", err |-> err, n |-> n, at |-> MovedFrom]
Operation    == [st : {"none", "pending", "done"}, err : BOOLEAN, n : Nat, at : Buffer]

Handler(kind)  == [kind |-> kind, data |-> <<>>]
SendTask(data) == [kind |-> "send", data |-> data]

\* Types, and no access through a buffer of the connection leaves its vector.
TypeOK ==
    /\ status_ \in Status
    /\ {open, async_writing_, owned, late} \subseteq BOOLEAN
    /\ \A b \in {recv_buffer_, write_buffer_, writing_buffer_} :
          b \in Buffer /\ InBounds(b)
    /\ {read, write} \subseteq Operation
    /\ queue \in Seq([kind : Kinds, data : Payloads \cup {<<>>}])
    /\ pc \in {"idle"} \cup Callbacks
    /\ peer \in {"up", "gone"}
    /\ downs \in Nat /\ calls \in Nat /\ received \in Nat

\* The constructor; its owner has posted, or runs at once, OnAttachedToLoop.
Init ==
    /\ status_ = "kDisconnected" /\ open = TRUE /\ async_writing_ = FALSE
    /\ recv_buffer_ = NewBuffer(InitCap)
    /\ write_buffer_ = NewBuffer(InitCap)
    /\ writing_buffer_ = NewBuffer(InitCap)
    /\ read = NoOp /\ write = NoOp
    /\ queue = <<Handler("attach")>> /\ pc = "idle"
    /\ owned = TRUE /\ peer = "up"
    /\ downs = 0 /\ late = FALSE /\ calls = 0 /\ received = 0

-----------------------------------------------------------------------------
(* Asynchronous operations of asio: on a closed socket they complete at    *)
(* once with an error, with no room for a single byte at once without one. *)

Started(b, room) == IF ~open THEN Done(TRUE, 0)
                    ELSE IF room = 0 THEN Done(FALSE, 0)
                    ELSE Pending(b)

\* The queue q, and the handler of operation op if it has completed.
Posted(q, kind, op) == IF op.st = "done" THEN Append(q, Handler(kind)) ELSE q

\* socket_.close: outstanding operations complete with operation_aborted.
Aborted(op) == IF op.st = "pending" THEN Done(TRUE, 0) ELSE op

\* Their handlers are posted in either order.
CloseSocket(r, w, q) ==
    LET Read(x)  == IF r.st = "pending" THEN Append(x, Handler("read")) ELSE x
        Wrote(x) == IF w.st = "pending" THEN Append(x, Handler("write")) ELSE x
    IN  /\ open' = FALSE
        /\ read' = Aborted(r) /\ write' = Aborted(w)
        /\ queue' \in {Wrote(Read(q)), Read(Wrote(q))}

AsyncRead(b, q) ==
    LET op == Started(b, ValidSize(b))
    IN  /\ recv_buffer_' = b
        /\ read' = op
        /\ queue' = Posted(q, "read", op)

\* AsyncWrite when async_writing_ is false, with writing_buffer_ = b.
AsyncWrite(b, q) ==
    /\ writing_buffer_' = b
    /\ IF Size(b) = 0
       THEN async_writing_' = FALSE /\ write' = NoOp /\ queue' = q
       ELSE LET op == Started(b, Size(b))
            IN  /\ async_writing_' = TRUE
                /\ write' = op
                /\ queue' = Posted(q, "write", op)

-----------------------------------------------------------------------------
(* Send and Close.                                                         *)

HighWater == Size(write_buffer_') + Size(writing_buffer_') > HighWaterMark

\* Mutant of SendInLoop: appends to the buffer a write in flight points into.
SendInLoopOneBuffer(data, q) ==
    \/ ~open /\ queue' = q /\ UNCHANGED sendVars
    \/ /\ open /\ ~async_writing_
       /\ UNCHANGED write_buffer_
       /\ AsyncWrite(Write(writing_buffer_, data), q)
    \/ /\ open /\ async_writing_
       /\ writing_buffer_' = Write(writing_buffer_, data)
       /\ queue' = q
       /\ UNCHANGED <<async_writing_, write_buffer_, write>>

SendInLoop(data, q) ==
    \/ ~open /\ queue' = q /\ UNCHANGED sendVars
    \/ /\ open /\ ~async_writing_
       /\ IF Size(write_buffer_) > 0
          THEN /\ write_buffer_' = writing_buffer_
               /\ AsyncWrite(Write(write_buffer_, data), q)
          ELSE /\ UNCHANGED write_buffer_
               /\ AsyncWrite(Write(writing_buffer_, data), q)
    \/ /\ open /\ async_writing_
       /\ write_buffer_' = Write(write_buffer_, data)
       /\ queue' = q
       /\ UNCHANGED <<async_writing_, writing_buffer_, write>>

Call == calls < MaxCalls /\ calls' = calls + 1 /\ UNCHANGED <<peer, received>>

\* Send from another thread.
SendFromThread(data) ==
    /\ Call
    /\ queue' = Append(queue, SendTask(data))
    /\ UNCHANGED <<status_, open, sendVars, recvVars, pc, owned, downs, late>>

\* Send from a callback runs SendInLoop at once, a high-water callback
\* within it adds only calls the enclosing callback can make as well.
SendFromCallback(data) ==
    /\ pc \in Callbacks
    /\ Call
    /\ SendInLoop(data, queue)
    /\ UNCHANGED <<status_, open, recvVars, pc, owned, downs, late>>

\* Close from a callback or from any thread, TCPServer's included, at any time:
\* it looks at nothing, so the connection may be down already.
Close ==
    /\ Call
    /\ status_' = "kDisconnecting"
    /\ late' = (late \/ (downs > 0 /\ status_ = "kDisconnected"))
    /\ queue' = Append(queue, Handler("close"))
    /\ UNCHANGED <<open, sendVars, recvVars, pc, owned, downs>>

-----------------------------------------------------------------------------
(* The handlers the loop thread runs.                                      *)

Runs(kind) == pc = "idle" /\ queue # <<>> /\ Head(queue).kind = kind

\* HandleClose, entered with status_ = st and the operations r and w, up to
\* the call of conn_fn_.
HandleClose(st, r, w) ==
    IF st = "kDisconnected"
    THEN /\ read' = r /\ write' = w /\ queue' = Tail(queue)
         /\ UNCHANGED <<status_, open, pc, downs>>
    ELSE /\ IF open THEN CloseSocket(r, w, Tail(queue))
            ELSE read' = r /\ write' = w /\ queue' = Tail(queue) /\ UNCHANGED open
         /\ status_' = "kDisconnecting"
         /\ downs' = downs + 1
         /\ pc' = "down_fn"

\* Mutant of DownReturns: HandleRead goes on to AsyncRead after HandleError.
DownReturnsAndReads ==
    /\ pc = "down_fn"
    /\ owned' = FALSE
    /\ status_' = "kDisconnected"
    /\ pc' = "idle"
    /\ late' = FALSE
    /\ AsyncRead(recv_buffer_, queue)
    /\ UNCHANGED <<open, sendVars, downs, peer, calls, received>>

\* Mutant of DownReturns: status_ is left at kDisconnecting.
DownReturnsStillDisconnecting ==
    /\ pc = "down_fn"
    /\ owned' = FALSE
    /\ pc' = "idle"
    /\ late' = FALSE
    /\ UNCHANGED <<status_, open, sendVars, recvVars, queue, downs, peer, calls, received>>

\* The rest of HandleClose: conn_fn_ returns, close_fn_, status_.
DownReturns ==
    /\ pc = "down_fn"
    /\ owned' = FALSE
    /\ status_' = "kDisconnected"
    /\ pc' = "idle"
    /\ late' = FALSE
    /\ UNCHANGED <<open, sendVars, recvVars, queue, downs, peer, calls, received>>

OnAttachedToLoop ==
    /\ Runs("attach")
    /\ queue' = Tail(queue)
    /\ status_' = "kConnected"
    /\ pc' = "attach_fn"
    /\ UNCHANGED <<open, sendVars, recvVars, owned, downs, env>>

AttachReturns ==
    /\ pc = "attach_fn"
    /\ AsyncRead(recv_buffer_, queue)
    /\ pc' = "idle"
    /\ UNCHANGED <<status_, open, sendVars, owned, downs, env>>

SendStringInLoop ==
    /\ Runs("send")
    /\ SendInLoop(Head(queue).data, Tail(queue))
    /\ pc' = IF open /\ async_writing_ /\ HighWater THEN "high_water_fn" ELSE "idle"
    /\ UNCHANGED <<status_, open, recvVars, owned, downs, env>>

HighWaterReturns ==
    /\ pc = "high_water_fn"
    /\ pc' = "idle"
    /\ UNCHANGED <<status_, open, sendVars, recvVars, queue, owned, downs, env>>

\* Mutant of RunClose: skips a connection that is already kDisconnecting.
RunCloseSkips ==
    /\ Runs("close")
    /\ IF open /\ status_ # "kDisconnecting" THEN CloseSocket(read, write, Tail(queue))
       ELSE queue' = Tail(queue) /\ UNCHANGED <<open, read, write>>
    /\ UNCHANGED <<status_, async_writing_, recv_buffer_, write_buffer_,
                   writing_buffer_, pc, owned, downs, env>>

\* The lambda posted by Close.
RunClose ==
    /\ Runs("close")
    /\ IF open THEN CloseSocket(read, write, Tail(queue))
       ELSE queue' = Tail(queue) /\ UNCHANGED <<open, read, write>>
    /\ UNCHANGED <<status_, async_writing_, recv_buffer_, write_buffer_,
                   writing_buffer_, pc, owned, downs, env>>

HandleRead ==
    /\ Runs("read")
    /\ \/ /\ read.err
          /\ HandleClose("kDisconnecting", NoOp, write)
          /\ UNCHANGED recv_buffer_
       \/ /\ ~read.err
          /\ recv_buffer_' = WriteBytes(recv_buffer_, read.n)
          /\ read' = NoOp
          /\ queue' = Tail(queue)
          /\ pc' = "msg_fn"
          /\ UNCHANGED <<status_, open, write, downs>>
    /\ UNCHANGED <<async_writing_, write_buffer_, writing_buffer_, owned, env>>

\* Mutant of MsgResults: the callback forgets Normalize.
MsgResultsNotNormalized(b) == {ReadBytes(b, Size(b))}

\* What the message callback leaves in the buffer it was given.  "drain" is
\* the callback of README.md and of TcpServerImpl and TcpClientImpl, "default"
\* is DefaultMessageCallback, "any" consumes any part of it.
MsgResults(b) ==
    CASE MessageCallback = "drain"   -> {Normalize(ReadBytes(b, Size(b)))}
      [] MessageCallback = "default" -> {b}
      [] MessageCallback = "any"     ->
            UNION {{ReadBytes(b, n), Normalize(ReadBytes(b, n))} : n \in 0 .. Size(b)}

\* Mutant of MsgReturns: the read is started before the callback is done.
MsgReturnsAfterRead ==
    /\ pc = "msg_fn"
    /\ LET op == Started(recv_buffer_, ValidSize(recv_buffer_))
       IN  read' = op /\ queue' = Posted(queue, "read", op)
    /\ recv_buffer_' \in MsgResults(recv_buffer_)
    /\ pc' = "idle"
    /\ UNCHANGED <<status_, open, sendVars, owned, downs, env>>

MsgReturns ==
    /\ pc = "msg_fn"
    /\ \E b \in MsgResults(recv_buffer_) : AsyncRead(b, queue)
    /\ pc' = "idle"
    /\ UNCHANGED <<status_, open, sendVars, owned, downs, env>>

\* Mutant of Swapped: swaps before the current buffer is written out.
SwappedEarly(b, c) == IF Size(c) > 0 THEN <<c, b>> ELSE <<b, c>>

\* Mutant of Swapped: never looks at write_buffer_.
SwappedNever(b, c) == <<b, c>>

\* writing_buffer_ and write_buffer_ for the next write, given b and c.
Swapped(b, c) == IF Size(b) = 0 /\ Size(c) > 0 THEN <<c, b>> ELSE <<b, c>>

HandleWrite ==
    /\ Runs("write")
    /\ \/ /\ write.err
          /\ async_writing_' = FALSE
          /\ HandleClose("kDisconnecting", read, NoOp)
          /\ UNCHANGED <<recv_buffer_, write_buffer_, writing_buffer_>>
       \/ /\ ~write.err
          /\ LET bufs == Swapped(ReadBytes(writing_buffer_, write.n), write_buffer_)
             IN  AsyncWrite(bufs[1], Tail(queue)) /\ write_buffer_' = bufs[2]
          /\ UNCHANGED <<status_, open, recvVars, pc, downs>>
    /\ UNCHANGED <<owned, env>>

-----------------------------------------------------------------------------
(* The kernel, and the peer behind it.                                     *)

\* Some bytes arrive into the memory the outstanding read was given.
BytesArrive(data) ==
    /\ read.st = "pending"
    /\ Len(data) \in 1 .. ValidSize(read.at)
    /\ received + Len(data) <= MaxReceived
    /\ received' = received + Len(data)
    /\ recv_buffer_' =
          [recv_buffer_ EXCEPT !.storage = Stored(@, read.at.wpos, data)]
    /\ read' = Done(FALSE, Len(data))
    /\ queue' = Append(queue, Handler("read"))
    /\ UNCHANGED <<status_, open, sendVars, pc, owned, peer, downs, late, calls>>

\* The first n bytes of the outstanding write are taken.
BytesTaken(n) ==
    /\ write.st = "pending"
    /\ write' = Done(FALSE, n)
    /\ queue' = Append(queue, Handler("write"))
    /\ UNCHANGED <<status_, open, async_writing_, write_buffer_, writing_buffer_,
                   recvVars, pc, owned, downs, env>>

PeerGone ==
    /\ peer = "up" /\ peer' = "gone"
    /\ UNCHANGED <<status_, open, sendVars, recvVars, queue, pc, owned, downs,
                   late, calls, received>>

\* End of file or an error, for the read or for the write.
ReadFails ==
    /\ peer = "gone" /\ read.st = "pending"
    /\ read' = Done(TRUE, 0)
    /\ queue' = Append(queue, Handler("read"))
    /\ UNCHANGED <<status_, open, sendVars, recv_buffer_, pc, owned, downs, env>>

WriteFails ==
    /\ peer = "gone" /\ write.st = "pending"
    /\ write' = Done(TRUE, 0)
    /\ queue' = Append(queue, Handler("write"))
    /\ UNCHANGED <<status_, open, async_writing_, write_buffer_, writing_buffer_,
                   recvVars, pc, owned, downs, env>>

-----------------------------------------------------------------------------
Loop == \/ OnAttachedToLoop \/ SendStringInLoop \/ RunClose
        \/ HandleRead \/ HandleWrite
        \/ AttachReturns \/ MsgReturns \/ HighWaterReturns \/ DownReturns

TakeSome == \E n \in 1 .. Size(write.at) : BytesTaken(n)

Kernel == \/ \E data \in Payloads : BytesArrive(data)
          \/ TakeSome \/ PeerGone \/ ReadFails \/ WriteFails

Application == \/ \E data \in Payloads : SendFromThread(data) \/ SendFromCallback(data)
               \/ Close

Next == Loop \/ Kernel \/ Application

Spec == Init /\ [][Next]_vars

\* The loop thread keeps running handlers, callbacks return, and the kernel
\* completes a write and reports a lost peer.
Fairness == WF_vars(Loop) /\ WF_vars(TakeSome \/ WriteFails) /\ WF_vars(ReadFails)

FairSpec == Spec /\ Fairness
-----------------------------------------------------------------------------
\* Accepted by SendInLoop and not yet taken by the kernel.
Unsent == SubSeq(Content(writing_buffer_), write.n + 1, Size(writing_buffer_))
             \o Content(write_buffer_)

\* Arrived and not yet consumed by the message callback.
Unread == SubSeq(recv_buffer_.storage, recv_buffer_.rpos + 1,
                 recv_buffer_.wpos + read.n)

(* Double buffering in SendInLoop and HandleWrite loses, repeats and       *)
(* reorders nothing: whatever mix of partial writes, swaps and growth, the *)
(* kernel takes the accepted bytes in the order they were accepted.        *)
Out == INSTANCE ByteStream WITH pending <- Unsent
SendsStream == Out!Spec

\* No byte is dropped on the way: what has arrived is consumed by msg_fn_ alone,
\* and what was accepted leaves only when the kernel takes it.
Dropped ==
    \/ Len(Unread') < Len(Unread) /\ pc # "msg_fn"
    \/ Len(Unsent') < Len(Unsent) /\ ~(write.st = "pending" /\ write'.st = "done")

(* AsyncRead and HandleRead hand the arrived bytes to msg_fn_ once and in  *)
(* order, whatever part of the buffer the callback consumes, and no close, *)
(* swap, error or late handler drops a byte in either direction.           *)
In == INSTANCE ByteStream WITH pending <- Unread
ReceivesStream == In!Spec /\ [][~Dropped]_vars

(* While asio holds a pointer into writing_buffer_ or recv_buffer_, nobody *)
(* moves, grows or overwrites that buffer: SendInLoop uses write_buffer_,  *)
(* and AsyncRead follows the callback that may normalize recv_buffer_.     *)
RegionsStable == /\ write.st = "pending" => writing_buffer_ = write.at
                 /\ read.st = "pending" => recv_buffer_ = read.at

(* async_writing_ tells the truth, and accepted bytes never sit in a       *)
(* buffer of an open connection with no write in flight to move them.      *)
NothingStranded ==
    /\ async_writing_ <=> write.st # "none"
    /\ open /\ ~async_writing_ => Size(writing_buffer_) = 0 /\ Size(write_buffer_) = 0

\* Some shared_ptr to the connection exists besides the application's own.
Referenced == \/ owned \/ pc # "idle" \/ queue # <<>>
              \/ read.st # "none" \/ write.st # "none"

\* The state ~TCPConn asserts, except where a Close came after the last report.
Ended == ~open /\ status_ = (IF late THEN "kDisconnecting" ELSE "kDisconnected")

(* When the library has dropped its last reference, the socket is closed   *)
(* and the connection kDisconnected, as ~TCPConn asserts, unless Close was *)
(* called after the end had been reported for the last time: that one only *)
(* sets status_, nothing sets it back, and the assertion at tcp_conn.cc:28 *)
(* fails.                                                                  *)
DtorSafe == ~Referenced => Ended

(* conn_fn_ hears of the end once for a failed read and once for a failed  *)
(* write, and after the second time no operation and no message follows.   *)
NotifiedAtMostTwice ==
    /\ downs <= 2
    /\ downs = 2 => read.st = "none" /\ write.st = "none" /\ pc # "msg_fn"

(* Bytes accepted by an open connection reach the kernel unless the        *)
(* connection closes first: HandleWrite always restarts the write.         *)
SendDrains == (open /\ Unsent # <<>>) ~> (Unsent = <<>> \/ ~open)

(* Close always completes, whenever it is called: the connection has been  *)
(* reported, and is released by its owner and by every handler; a Close of *)
(* a connection that is down already leaves it kDisconnecting.             *)
CloseCompletes ==
    (\E i \in DOMAIN queue : queue[i].kind = "close") ~> (downs > 0 /\ ~Referenced /\ Ended)

(* tcp_callbacks.h:13: "When a connection established, broken down, ...    *)
(* this callback will be called": a lost peer is always noticed.           *)
PeerLossNoticed == (peer = "gone") ~> (downs > 0)
=============================================================================
