---------------------------- MODULE TCPConnProofs ----------------------------
(***************************************************************************)
(* Theorems about TCPConn for every buffer size, payload, callback, caller *)
(* and bound.                                                              *)
(***************************************************************************)
EXTENDS TCPConn, ByteBuffersProofs

-----------------------------------------------------------------------------
(* The handlers in the queue.                                              *)

Task == [kind : Kinds, data : Payloads \cup {<<>>}]

Has(q, kind) == \E i \in DOMAIN q : q[i].kind = kind
Once(q, kind) == \A i, j \in DOMAIN q : q[i].kind = kind /\ q[j].kind = kind => i = j

\* Posting a handler: where it and the earlier ones are in the queue.
LEMMA AppendTask ==
    ASSUME NEW q \in Seq(Task), NEW t \in Task, NEW kind
    PROVE  /\ Append(q, t) \in Seq(Task)
           /\ Has(Append(q, t), kind) <=> Has(q, kind) \/ t.kind = kind
           /\ Once(q, kind) /\ (t.kind = kind => ~Has(q, kind)) => Once(Append(q, t), kind)
  <1>1. /\ Append(q, t) \in Seq(Task)
        /\ Len(Append(q, t)) = Len(q) + 1
        /\ \A i \in 1 .. Len(q) : Append(q, t)[i] = q[i]
        /\ Append(q, t)[Len(q) + 1] = t
        /\ DOMAIN q = 1 .. Len(q) /\ DOMAIN Append(q, t) = 1 .. Len(q) + 1
        /\ Len(q) \in Nat
    OBVIOUS
  <1>2. Has(Append(q, t), kind) <=> Has(q, kind) \/ t.kind = kind
    BY <1>1 DEF Has
  <1>3. Once(q, kind) /\ (t.kind = kind => ~Has(q, kind)) => Once(Append(q, t), kind)
    BY <1>1 DEF Has, Once
  <1>4. QED  BY <1>1, <1>2, <1>3

\* Taking the head of the queue: where the others are.
LEMMA TailTask ==
    ASSUME NEW q \in Seq(Task), q # <<>>, NEW kind
    PROVE  /\ Tail(q) \in Seq(Task)
           /\ Head(q) \in Task
           /\ Has(Tail(q), kind) => Has(q, kind)
           /\ Once(q, kind) => Once(Tail(q), kind)
           /\ Once(q, kind) /\ Head(q).kind = kind => ~Has(Tail(q), kind)
           /\ Head(q).kind = kind => Has(q, kind)
  <1>1. /\ Tail(q) \in Seq(Task) /\ Head(q) \in Task /\ Head(q) = q[1]
        /\ Len(q) \in Nat /\ Len(q) > 0
        /\ DOMAIN q = 1 .. Len(q) /\ DOMAIN Tail(q) = 1 .. Len(q) - 1
        /\ \A i \in 1 .. Len(q) - 1 : Tail(q)[i] = q[i + 1]
    OBVIOUS
  <1>2. Has(Tail(q), kind) => Has(q, kind)
    BY <1>1 DEF Has
  <1>3. Once(q, kind) => Once(Tail(q), kind)
    BY <1>1 DEF Once
  <1>4. Once(q, kind) /\ Head(q).kind = kind => ~Has(Tail(q), kind)
    BY <1>1 DEF Once, Has
  <1>5. Head(q).kind = kind => Has(q, kind)
    BY <1>1 DEF Has
  <1>6. QED  BY <1>1, <1>2, <1>3, <1>4, <1>5

\* A queue q in which each operation's handler occurs once, and only when the
\* operation, r or w, has completed.
QueueFor(q, r, w) ==
    /\ q \in Seq(Task)
    /\ Once(q, "read") /\ Once(q, "write") /\ Once(q, "attach")
    /\ Has(q, "read") => r.st = "done"
    /\ Has(q, "write") => w.st = "done"

\* An operation that is consistent with the socket and with its buffer.
WriteFor(w, b) ==
    /\ w \in Operation
    /\ w.st # "done" => w.n = 0
    /\ w.st = "pending" => open /\ w.at = b
    /\ w.err => w.n = 0
    /\ w.n <= Size(b)
ReadFor(r, b) ==
    /\ r \in Operation
    /\ r.st # "done" => r.n = 0
    /\ r.st = "pending" => open /\ r.at = b
    /\ r.err => r.n = 0
    /\ r.n <= ValidSize(b)

\* There is one read at a time: none while the connection is being attached
\* or the message callback runs.
OneRead == /\ Has(queue, "attach") => read.st = "none" /\ pc \notin {"attach_fn", "msg_fn"}
           /\ pc \in {"attach_fn", "msg_fn"} => read.st = "none"

\* The inductive invariant.
IndInv ==
    /\ TypeOK
    /\ QueueFor(queue, read, write)
    /\ WriteFor(write, writing_buffer_)
    /\ ReadFor(read, recv_buffer_)
    /\ NothingStranded
    /\ OneRead

\* An operation that has not been started.
LEMMA NoOpProperties ==
    /\ NoOp \in Operation /\ NoOp.st = "none" /\ NoOp.n = 0 /\ ~NoOp.err
    /\ \A err \in BOOLEAN, n \in Nat : Done(err, n) \in Operation
    /\ \A b \in Buffer : Pending(b) \in Operation
  BY MovedFromProperties DEF NoOp, Done, Pending, Operation

\* A posted handler is a task, and knows its kind.
LEMMA HandlerProperties ==
    ASSUME NEW kind \in Kinds
    PROVE  Handler(kind) \in Task /\ Handler(kind).kind = kind
  BY DEF Handler, Task

\* What async_read_some and async_write_some leave behind.
LEMMA StartedProperties ==
    ASSUME NEW b \in Buffer, NEW room \in Nat, open \in BOOLEAN
    PROVE  /\ Started(b, room) \in Operation
           /\ Started(b, room).st \in {"pending", "done"}
           /\ Started(b, room).n = 0
           /\ Started(b, room).st = "pending" => open /\ Started(b, room).at = b
  BY NoOpProperties DEF Started, Done, Pending

\* The size of a buffer in bounds is a natural number.
LEMMA SizeProperties ==
    ASSUME NEW b \in Buffer, InBounds(b)
    PROVE  /\ Size(b) \in Nat /\ ValidSize(b) \in Nat
           /\ \A n \in 0 .. Size(b) : Size(ReadBytes(b, n)) = Size(b) - n
  BY ContentProperties DEF Buffer, InBounds, Size, ValidSize, Capacity, ReadBytes

\* AsyncWrite on an idle send side.
LEMMA AsyncWriteStep ==
    ASSUME open \in BOOLEAN, NEW b \in Buffer, InBounds(b), NEW q, NEW r,
           QueueFor(q, r, NoOp), AsyncWrite(b, q), open' = open
    PROVE  /\ writing_buffer_' = b
           /\ async_writing_' \in BOOLEAN
           /\ (async_writing_ <=> write.st # "none")'
           /\ async_writing_' <=> Size(b) # 0
           /\ QueueFor(queue', r, write')
           /\ WriteFor(write, writing_buffer_)'
           /\ write'.n = 0
           /\ Has(queue', "attach") => Has(q, "attach")
  <1>1. Size(b) \in Nat
    BY SizeProperties
  <1>2. writing_buffer_' = b
    BY DEF AsyncWrite
  <1>3. CASE Size(b) = 0
    <2>1. async_writing_' = FALSE /\ write' = NoOp /\ queue' = q
      BY <1>3 DEF AsyncWrite
    <2>2. write'.st = "none" /\ write'.n = 0 /\ write' \in Operation
      BY <2>1, NoOpProperties
    <2>3. WriteFor(write, writing_buffer_)'
      BY <1>1, <1>2, <2>2 DEF WriteFor
    <2>4. QueueFor(queue', r, write')
      BY <2>1
    <2>5. QED  BY <1>2, <1>3, <2>1, <2>2, <2>3, <2>4
  <1>4. CASE Size(b) # 0
    <2> DEFINE op == Started(b, Size(b))
    <2>1. async_writing_' = TRUE /\ write' = op /\ queue' = Posted(q, "write", op)
      BY <1>4 DEF AsyncWrite
    <2>2. /\ op \in Operation /\ op.st \in {"pending", "done"} /\ op.n = 0
          /\ op.st = "pending" => open /\ op.at = b
      BY <1>1, StartedProperties
    <2>3. ~Has(q, "write") /\ q \in Seq(Task)
      BY NoOpProperties DEF QueueFor
    <2> HIDE DEF op
    <2>4. QueueFor(queue', r, op) /\ (Has(queue', "attach") => Has(q, "attach"))
      <3>1. CASE op.st = "done"
        <4>1. queue' = Append(q, Handler("write"))
          BY <2>1, <3>1 DEF Posted
        <4>2. Handler("write") \in Task /\ Handler("write").kind = "write"
          BY HandlerProperties DEF Kinds
        <4>3. QED  BY <2>3, <3>1, <4>1, <4>2, AppendTask DEF QueueFor
      <3>2. CASE op.st # "done"
        BY <2>1, <2>3, <3>2 DEF Posted, QueueFor
      <3>3. QED  BY <3>1, <3>2
    <2>5. QED  BY <1>1, <1>2, <1>4, <2>1, <2>2, <2>4 DEF WriteFor
  <1>5. QED  BY <1>3, <1>4

\* AsyncRead when no read is in progress.
LEMMA AsyncReadStep ==
    ASSUME open \in BOOLEAN, NEW b \in Buffer, InBounds(b), NEW q, NEW w,
           QueueFor(q, NoOp, w), AsyncRead(b, q), open' = open
    PROVE  /\ recv_buffer_' = b
           /\ QueueFor(queue', read', w)
           /\ ReadFor(read, recv_buffer_)'
           /\ read'.n = 0
           /\ Has(queue', "attach") => Has(q, "attach")
  <1> DEFINE op == Started(b, ValidSize(b))
  <1>1. ValidSize(b) \in Nat
    BY SizeProperties
  <1>2. recv_buffer_' = b /\ read' = op /\ queue' = Posted(q, "read", op)
    BY DEF AsyncRead
  <1>3. /\ op \in Operation /\ op.st \in {"pending", "done"} /\ op.n = 0
        /\ op.st = "pending" => open /\ op.at = b
    BY <1>1, StartedProperties
  <1>4. ~Has(q, "read") /\ q \in Seq(Task)
    BY NoOpProperties DEF QueueFor
  <1> HIDE DEF op
  <1>5. QueueFor(queue', op, w) /\ (Has(queue', "attach") => Has(q, "attach"))
    <2>1. CASE op.st = "done"
      <3>1. queue' = Append(q, Handler("read"))
        BY <1>2, <2>1 DEF Posted
      <3>2. Handler("read") \in Task /\ Handler("read").kind = "read"
        BY HandlerProperties DEF Kinds
      <3>3. QED  BY <1>4, <2>1, <3>1, <3>2, AppendTask DEF QueueFor
    <2>2. CASE op.st # "done"
      BY <1>2, <1>4, <2>2 DEF Posted, QueueFor
    <2>3. QED  BY <2>1, <2>2
  <1>6. QED  BY <1>1, <1>2, <1>3, <1>5 DEF ReadFor

\* y is operation x once the socket is closed.
Settled(x, y) == /\ y \in Operation /\ y.st # "pending" /\ y.n = x.n
                 /\ y.st = "none" <=> x.st = "none"
                 /\ x.st = "done" => y = x

\* Closing the socket leaves no operation pending.
LEMMA AbortedProperties ==
    ASSUME NEW x \in Operation, x.st # "done" => x.n = 0
    PROVE  Settled(x, Aborted(x)) /\ (x.st = "pending" => Aborted(x).st = "done")
  BY NoOpProperties DEF Settled, Aborted, Done, Operation

\* socket_.close keeps queue and operations in agreement.
LEMMA CloseSocketStep ==
    ASSUME NEW r \in Operation, NEW w \in Operation,
           r.st # "done" => r.n = 0, w.st # "done" => w.n = 0,
           NEW q, QueueFor(q, r, w), CloseSocket(r, w, q)
    PROVE  /\ open' = FALSE
           /\ Settled(r, read') /\ Settled(w, write')
           /\ QueueFor(queue', read', write')
           /\ Has(queue', "attach") => Has(q, "attach")
  <1>1. open' = FALSE /\ read' = Aborted(r) /\ write' = Aborted(w)
    BY DEF CloseSocket
  <1>2. Settled(r, read') /\ Settled(w, write')
    BY <1>1, AbortedProperties
  <1>3. /\ r.st = "pending" => read'.st = "done" /\ ~Has(q, "read")
        /\ w.st = "pending" => write'.st = "done" /\ ~Has(q, "write")
    BY <1>1, AbortedProperties DEF QueueFor
  <1>4. QueueFor(q, read', write')
    BY <1>2 DEF QueueFor, Settled
  <1> DEFINE R(x) == IF r.st = "pending" THEN Append(x, Handler("read")) ELSE x
             W(x) == IF w.st = "pending" THEN Append(x, Handler("write")) ELSE x
  <1>5. ASSUME NEW x, QueueFor(x, read', write'), r.st = "pending" => ~Has(x, "read")
        PROVE  /\ QueueFor(R(x), read', write')
               /\ Has(R(x), "attach") => Has(x, "attach")
               /\ Has(R(x), "write") <=> Has(x, "write")
    <2>1. CASE r.st = "pending"
      <3>1. Handler("read") \in Task /\ Handler("read").kind = "read"
        BY HandlerProperties DEF Kinds
      <3>2. QED  BY <1>3, <1>5, <2>1, <3>1, AppendTask DEF QueueFor
    <2>2. CASE r.st # "pending"
      BY <1>5, <2>2
    <2>3. QED  BY <2>1, <2>2
  <1>6. ASSUME NEW x, QueueFor(x, read', write'), w.st = "pending" => ~Has(x, "write")
        PROVE  /\ QueueFor(W(x), read', write')
               /\ Has(W(x), "attach") => Has(x, "attach")
               /\ Has(W(x), "read") <=> Has(x, "read")
    <2>1. CASE w.st = "pending"
      <3>1. Handler("write") \in Task /\ Handler("write").kind = "write"
        BY HandlerProperties DEF Kinds
      <3>2. QED  BY <1>3, <1>6, <2>1, <3>1, AppendTask DEF QueueFor
    <2>2. CASE w.st # "pending"
      BY <1>6, <2>2
    <2>3. QED  BY <2>1, <2>2
  <1>7. queue' \in {W(R(q)), R(W(q))}
    BY DEF CloseSocket
  <1> HIDE DEF R, W
  <1>8. QueueFor(queue', read', write') /\ (Has(queue', "attach") => Has(q, "attach"))
    BY <1>3, <1>4, <1>5, <1>6, <1>7
  <1>9. QED  BY <1>1, <1>2, <1>8

\* HandleClose as HandleRead and HandleWrite call it: the socket is closed and
\* the callback runs.
LEMMA HandleCloseStep ==
    ASSUME open \in BOOLEAN, NEW r \in Operation, NEW w \in Operation,
           r.st # "done" => r.n = 0, w.st # "done" => w.n = 0,
           r.st = "pending" => open, w.st = "pending" => open,
           QueueFor(Tail(queue), r, w), HandleClose("kDisconnecting", r, w)
    PROVE  /\ open' = FALSE /\ status_' = "kDisconnecting" /\ pc' = "down_fn"
           /\ downs' = downs + 1
           /\ Settled(r, read') /\ Settled(w, write')
           /\ QueueFor(queue', read', write')
           /\ Has(queue', "attach") => Has(Tail(queue), "attach")
  <1>1. CASE open
    <2>1. CloseSocket(r, w, Tail(queue))
      BY <1>1 DEF HandleClose
    <2>2. QED  BY <2>1, CloseSocketStep DEF HandleClose
  <1>2. CASE ~open
    BY <1>2 DEF HandleClose, Settled
  <1>3. QED  BY <1>1, <1>2


\* The parts of the invariant that most steps need.
LEMMA IndFacts ==
    ASSUME IndInv
    PROVE  /\ open \in BOOLEAN /\ async_writing_ \in BOOLEAN /\ owned \in BOOLEAN
           /\ recv_buffer_ \in Buffer /\ InBounds(recv_buffer_)
           /\ write_buffer_ \in Buffer /\ InBounds(write_buffer_)
           /\ writing_buffer_ \in Buffer /\ InBounds(writing_buffer_)
           /\ read \in Operation /\ write \in Operation
           /\ queue \in Seq(Task)
           /\ write.st # "none" <=> async_writing_
  BY DEF IndInv, TypeOK, Task, NothingStranded

\* A buffer without unread bytes has no content.
LEMMA EmptyContent ==
    ASSUME NEW b \in Buffer, InBounds(b), Size(b) = 0
    PROVE  Content(b) = <<>>
  BY ContentProperties, EmptySeq

\* SendInLoop, called with q as the rest of the queue, accepts data at the
\* end of what is unsent if the socket is open, and keeps a write in flight.
LEMMA SendInLoopStep ==
    ASSUME IndInv, NEW data \in Seq(Byte), NEW q, QueueFor(q, read, write),
           SendInLoop(data, q), open' = open
    PROVE  /\ async_writing_' \in BOOLEAN
           /\ write_buffer_' \in Buffer /\ InBounds(write_buffer_')
           /\ writing_buffer_' \in Buffer /\ InBounds(writing_buffer_')
           /\ QueueFor(queue', read, write')
           /\ Has(queue', "attach") => Has(q, "attach")
           /\ WriteFor(write, writing_buffer_)'
           /\ NothingStranded'
  <1> USE IndFacts
  <1>1. CASE ~open
    BY <1>1 DEF SendInLoop, sendVars, IndInv, WriteFor, NothingStranded
  <1>2. CASE open /\ ~async_writing_
    <2> DEFINE b == Write(writing_buffer_, data)
    <2>1. Size(writing_buffer_) = 0 /\ Size(write_buffer_) = 0 /\ write.st = "none"
      BY <1>2 DEF IndInv, NothingStranded
    <2>2. AsyncWrite(b, q) /\ write_buffer_' = write_buffer_
      BY <1>2, <2>1 DEF SendInLoop
    <2>3. b \in Buffer /\ InBounds(b)
      BY WriteProperties
    <2>4. QueueFor(q, read, NoOp)
      BY <2>1 DEF QueueFor
    <2> HIDE DEF b
    <2>5. /\ writing_buffer_' = b
          /\ async_writing_' \in BOOLEAN
          /\ (async_writing_ <=> write.st # "none")'
          /\ async_writing_' <=> Size(b) # 0
          /\ QueueFor(queue', read, write')
          /\ WriteFor(write, writing_buffer_)'
          /\ Has(queue', "attach") => Has(q, "attach")
      BY <2>2, <2>3, <2>4, AsyncWriteStep
    <2>6. NothingStranded'
      BY <2>1, <2>2, <2>5 DEF NothingStranded
    <2>7. QED  BY <2>2, <2>3, <2>5, <2>6
  <1>3. CASE open /\ async_writing_
    <2>1. /\ write_buffer_' = Write(write_buffer_, data) /\ queue' = q
          /\ UNCHANGED <<async_writing_, writing_buffer_, write>>
      BY <1>3 DEF SendInLoop
    <2>2. Write(write_buffer_, data) \in Buffer /\ InBounds(Write(write_buffer_, data))
      BY WriteProperties
    <2>3. QED  BY <1>3, <2>1, <2>2 DEF IndInv, WriteFor, NothingStranded
  <1>4. QED  BY <1>1, <1>2, <1>3

\* What the message callback leaves is within bounds, whatever it consumes.
LEMMA MsgResultsProperties ==
    ASSUME NEW b \in Buffer, InBounds(b), NEW c \in MsgResults(b)
    PROVE  /\ c \in Buffer /\ InBounds(c)
           /\ \E n \in 0 .. Size(b) : Content(c) = Content(ReadBytes(b, n))
  <1>1. Size(b) \in Nat /\ Size(b) \in 0 .. Size(b) /\ 0 \in 0 .. Size(b)
    BY SizeProperties
  <1>2. \A n \in 0 .. Size(b) :
           /\ ReadBytes(b, n) \in Buffer /\ InBounds(ReadBytes(b, n))
           /\ Normalize(ReadBytes(b, n)) \in Buffer /\ InBounds(Normalize(ReadBytes(b, n)))
           /\ Content(Normalize(ReadBytes(b, n))) = Content(ReadBytes(b, n))
    BY ReadBytesProperties, NormalizeProperties
  <1>3. ReadBytes(b, 0) = b
    BY DEF ReadBytes, Buffer
  <1>4. \E n \in 0 .. Size(b) : c = ReadBytes(b, n) \/ c = Normalize(ReadBytes(b, n))
    <2>1. CASE MessageCallback = "drain"
      BY <1>1, <2>1 DEF MsgResults
    <2>2. CASE MessageCallback = "default"
      BY <1>1, <1>3, <2>2 DEF MsgResults
    <2>3. CASE MessageCallback = "any"
      BY <2>3 DEF MsgResults
    <2>4. QED  BY <2>1, <2>2, <2>3, CallbackAssumption
  <1>5. QED  BY <1>2, <1>4


-----------------------------------------------------------------------------
(* Every action preserves IndInv.                                          *)

\* TCPConn's constructor establishes the invariant.
LEMMA InitInv == Init => IndInv
  <1> SUFFICES ASSUME Init PROVE IndInv
    OBVIOUS
  <1> DEFINE b == NewBuffer(InitCap)
  <1>1. b \in Buffer /\ InBounds(b) /\ Size(b) = 0 /\ ValidSize(b) \in Nat
    BY NewBufferProperties, SizeProperties, CapAssumption DEF NewBuffer, Size
  <1>2. Handler("attach") \in Task /\ Handler("attach").kind = "attach"
    BY HandlerProperties DEF Kinds
  <1> HIDE DEF b
  <1>3. queue \in Seq(Task) /\ DOMAIN queue = {1} /\ queue[1] = Handler("attach")
    BY <1>2 DEF Init
  <1>4. TypeOK
    BY <1>1, <1>3, NoOpProperties DEF Init, TypeOK, Status, Task, b
  <1>5. QueueFor(queue, read, write)
    BY <1>2, <1>3 DEF QueueFor, Has, Once
  <1>6. WriteFor(write, writing_buffer_) /\ ReadFor(read, recv_buffer_) /\ NothingStranded
    BY <1>1, NoOpProperties DEF Init, WriteFor, ReadFor, NothingStranded, b
  <1>7. OneRead
    BY NoOpProperties DEF Init, OneRead
  <1>8. QED  BY <1>4, <1>5, <1>6, <1>7 DEF IndInv

\* Posting a handler that is neither an operation's nor the attachment.
LEMMA PostStep ==
    ASSUME IndInv, NEW t \in Task, t.kind \notin {"read", "write", "attach"},
           queue' = Append(queue, t)
    PROVE  QueueFor(queue', read, write) /\ (Has(queue', "attach") => Has(queue, "attach"))
  BY IndFacts, AppendTask DEF IndInv, QueueFor

\* Send and Close, from any thread and callback, keep the invariant.
LEMMA ApplicationStep == ASSUME IndInv, Application PROVE IndInv'
  <1> USE IndFacts
  <1>0. pc \in {"idle"} \cup Callbacks /\ calls \in Nat
    BY DEF IndInv, TypeOK
  <1>1. ASSUME NEW data \in Payloads, SendFromThread(data)  PROVE IndInv'
    <2>1. SendTask(data) \in Task /\ SendTask(data).kind = "send"
      BY PayloadAssumption DEF SendTask, Task, Kinds
    <2>2. QueueFor(queue', read, write) /\ (Has(queue', "attach") => Has(queue, "attach"))
      BY <1>1, <2>1, PostStep DEF SendFromThread
    <2>3. QED
      BY <1>1, <2>2 DEF SendFromThread, Call, IndInv, TypeOK, QueueFor, WriteFor, ReadFor,
                        NothingStranded, OneRead, sendVars, recvVars, Task
  <1>2. ASSUME NEW data \in Payloads, SendFromCallback(data)  PROVE IndInv'
    <2>1. SendInLoop(data, queue) /\ open' = open /\ data \in Seq(Byte)
      BY <1>2, PayloadAssumption DEF SendFromCallback
    <2>2. QueueFor(queue, read, write)
      BY DEF IndInv
    <2>3. /\ async_writing_' \in BOOLEAN
          /\ write_buffer_' \in Buffer /\ InBounds(write_buffer_')
          /\ writing_buffer_' \in Buffer /\ InBounds(writing_buffer_')
          /\ QueueFor(queue', read, write')
          /\ Has(queue', "attach") => Has(queue, "attach")
          /\ WriteFor(write, writing_buffer_)'
          /\ NothingStranded'
      BY <2>1, <2>2, SendInLoopStep
    <2>4. UNCHANGED <<status_, open, recvVars, pc, owned, downs, peer, late, received>> /\ calls' = calls + 1
      BY <1>2 DEF SendFromCallback, Call
    <2>5. TypeOK'
      BY <2>3, <2>4 DEF IndInv, TypeOK, recvVars, WriteFor, QueueFor, Task
    <2>6. ReadFor(read, recv_buffer_)' /\ OneRead' /\ QueueFor(queue, read, write)'
      BY <2>3, <2>4 DEF IndInv, ReadFor, OneRead, recvVars
    <2>7. QED  BY <2>3, <2>5, <2>6 DEF IndInv
  <1>3. ASSUME Close  PROVE IndInv'
    <2>2. Handler("close") \in Task /\ Handler("close").kind = "close"
      BY HandlerProperties DEF Kinds
    <2>3. QueueFor(queue', read, write) /\ (Has(queue', "attach") => Has(queue, "attach"))
      BY <1>3, <2>2, PostStep DEF Close
    <2>4. QED
      BY <1>3, <2>3 DEF Close, Call, IndInv, TypeOK, QueueFor, WriteFor, ReadFor, Status,
                        NothingStranded, OneRead, sendVars, recvVars, Task
  <1>4. QED  BY <1>1, <1>2, <1>3 DEF Application


\* The kernel completes the outstanding read or write.
LEMMA CompleteRead ==
    ASSUME IndInv, read.st = "pending", NEW err \in BOOLEAN, NEW n \in Nat, err => n = 0,
           read' = Done(err, n), queue' = Append(queue, Handler("read"))
    PROVE  /\ read' \in Operation /\ read'.st = "done" /\ read'.n = n /\ (read'.err => n = 0)
           /\ QueueFor(queue', read', write) /\ (Has(queue', "attach") => Has(queue, "attach"))
  <1>1. read' \in Operation /\ read'.st = "done" /\ read'.n = n /\ (read'.err => n = 0)
    BY NoOpProperties DEF Done
  <1>2. Handler("read") \in Task /\ Handler("read").kind = "read"
    BY HandlerProperties DEF Kinds
  <1>3. queue \in Seq(Task) /\ QueueFor(queue, read, write) /\ ~Has(queue, "read")
    BY DEF IndInv, QueueFor
  <1>4. QED  BY <1>1, <1>2, <1>3, AppendTask DEF QueueFor

\* The same for the write.
LEMMA CompleteWrite ==
    ASSUME IndInv, write.st = "pending", NEW err \in BOOLEAN, NEW n \in Nat, err => n = 0,
           write' = Done(err, n), queue' = Append(queue, Handler("write"))
    PROVE  /\ write' \in Operation /\ write'.st = "done" /\ write'.n = n /\ (write'.err => n = 0)
           /\ QueueFor(queue', read, write') /\ (Has(queue', "attach") => Has(queue, "attach"))
  <1>1. write' \in Operation /\ write'.st = "done" /\ write'.n = n /\ (write'.err => n = 0)
    BY NoOpProperties DEF Done
  <1>2. Handler("write") \in Task /\ Handler("write").kind = "write"
    BY HandlerProperties DEF Kinds
  <1>3. queue \in Seq(Task) /\ QueueFor(queue, read, write) /\ ~Has(queue, "write")
    BY DEF IndInv, QueueFor
  <1>4. QED  BY <1>1, <1>2, <1>3, AppendTask DEF QueueFor

\* A read stores into the free part of the buffer.
LEMMA StoredProperties ==
    ASSUME NEW b \in Buffer, InBounds(b), NEW data \in Seq(Byte), Len(data) <= ValidSize(b),
           NEW c, c = [b EXCEPT !.storage = Stored(@, b.wpos, data)]
    PROVE  /\ c \in Buffer /\ InBounds(c)
           /\ c.wpos = b.wpos /\ c.rpos = b.rpos /\ c.storage = Stored(b.storage, b.wpos, data)
           /\ Capacity(c) = Capacity(b) /\ ValidSize(c) = ValidSize(b)
  <1>1. c.wpos = b.wpos /\ c.rpos = b.rpos /\ c.storage = Stored(b.storage, b.wpos, data)
    BY DEF Buffer
  <1>2. Fill(b, data) \in Buffer /\ Capacity(Fill(b, data)) = Capacity(b)
    BY FillProperties
  <1>3. c.storage \in Seq(Byte) /\ Len(c.storage) = Len(b.storage)
    BY <1>1, <1>2 DEF Fill, Buffer, Capacity
  <1>4. c \in Buffer
    BY <1>1, <1>3 DEF Buffer
  <1>5. QED  BY <1>1, <1>3, <1>4 DEF InBounds, Capacity, ValidSize

\* Completions, arriving bytes and a lost peer keep the invariant.
LEMMA KernelStep == ASSUME IndInv, Kernel PROVE IndInv'
  <1> USE IndFacts
  <1>1. ASSUME NEW data \in Payloads, BytesArrive(data)  PROVE IndInv'
    <2>1. /\ read.st = "pending" /\ read.at = recv_buffer_ /\ data \in Seq(Byte)
          /\ Len(data) \in Nat /\ Len(data) <= ValidSize(recv_buffer_)
      BY <1>1, PayloadAssumption, SizeProperties DEF BytesArrive, IndInv, ReadFor
    <2>2. /\ recv_buffer_' \in Buffer /\ InBounds(recv_buffer_')
          /\ ValidSize(recv_buffer_') = ValidSize(recv_buffer_)
      BY <1>1, <2>1, StoredProperties DEF BytesArrive
    <2>3. /\ read' \in Operation /\ read'.st = "done" /\ read'.n = Len(data) /\ (read'.err => read'.n = 0)
          /\ QueueFor(queue', read', write) /\ (Has(queue', "attach") => Has(queue, "attach"))
      BY <1>1, <2>1, CompleteRead DEF BytesArrive
    <2>4. UNCHANGED <<status_, open, sendVars, pc, owned, peer, late, downs, calls>>
      BY <1>1 DEF BytesArrive
    <2>5. received' \in Nat
      BY <1>1, <2>1 DEF BytesArrive, IndInv, TypeOK
    <2>6. TypeOK'
      BY <2>2, <2>3, <2>4, <2>5 DEF IndInv, TypeOK, sendVars, QueueFor, Task
    <2>7. ReadFor(read, recv_buffer_)'
      BY <2>1, <2>2, <2>3 DEF ReadFor
    <2>8. OneRead'
      BY <2>1, <2>3, <2>4 DEF IndInv, OneRead
    <2>9. WriteFor(write, writing_buffer_)' /\ NothingStranded' /\ QueueFor(queue, read, write)'
      BY <2>3, <2>4 DEF IndInv, WriteFor, NothingStranded, sendVars
    <2>10. QED  BY <2>6, <2>7, <2>8, <2>9 DEF IndInv
  <1>2. ASSUME ReadFails  PROVE IndInv'
    <2>1. /\ read' \in Operation /\ read'.st = "done" /\ read'.n = 0
          /\ QueueFor(queue', read', write) /\ (Has(queue', "attach") => Has(queue, "attach"))
      BY <1>2, CompleteRead DEF ReadFails
    <2>2. UNCHANGED <<status_, open, sendVars, recv_buffer_, pc, owned, downs, env>>
      BY <1>2 DEF ReadFails
    <2>3. TypeOK'
      BY <2>1, <2>2 DEF IndInv, TypeOK, sendVars, env, QueueFor, Task
    <2>4. ReadFor(read, recv_buffer_)'
      BY <2>1, <2>2, SizeProperties DEF ReadFor
    <2>5. OneRead'
      BY <1>2, <2>1, <2>2 DEF IndInv, OneRead, ReadFails
    <2>6. WriteFor(write, writing_buffer_)' /\ NothingStranded' /\ QueueFor(queue, read, write)'
      BY <2>1, <2>2 DEF IndInv, WriteFor, NothingStranded, sendVars
    <2>7. QED  BY <2>3, <2>4, <2>5, <2>6 DEF IndInv
  <1>3. ASSUME TakeSome \/ WriteFails  PROVE IndInv'
    <2>1. /\ write.st = "pending"
          /\ queue' = Append(queue, Handler("write"))
          /\ UNCHANGED <<status_, open, async_writing_, write_buffer_, writing_buffer_,
                         recvVars, pc, owned, downs, env>>
      BY <1>3 DEF TakeSome, BytesTaken, WriteFails
    <2>0. PICK n \in 0 .. Size(writing_buffer_) :
             write' = Done(FALSE, n) \/ (write' = Done(TRUE, n) /\ n = 0)
      <3>1. write.at = writing_buffer_ /\ Size(writing_buffer_) \in Nat
        BY <2>1, SizeProperties DEF IndInv, WriteFor
      <3>2. \A n \in 1 .. Size(writing_buffer_) : n \in 0 .. Size(writing_buffer_)
        OBVIOUS
      <3>3. CASE TakeSome
        BY <3>1, <3>2, <3>3, Zenon DEF TakeSome, BytesTaken
      <3>4. CASE WriteFails
        <4>1. 0 \in 0 .. Size(writing_buffer_) /\ write' = Done(TRUE, 0)
          BY <3>1, <3>4 DEF WriteFails
        <4>2. QED  BY <4>1, Zenon
      <3>5. QED  BY <1>3, <3>3, <3>4
    <2>2. n \in Nat /\ n <= Size(writing_buffer_)
      BY <2>0, SizeProperties
    <2>3. /\ write' \in Operation /\ write'.st = "done" /\ write'.n = n /\ (write'.err => n = 0)
          /\ QueueFor(queue', read, write') /\ (Has(queue', "attach") => Has(queue, "attach"))
      BY <2>0, <2>1, <2>2, CompleteWrite
    <2>4. TypeOK'
      BY <2>1, <2>3 DEF IndInv, TypeOK, recvVars, env, QueueFor, Task
    <2>5. WriteFor(write, writing_buffer_)' /\ NothingStranded'
      BY <2>1, <2>2, <2>3 DEF IndInv, WriteFor, NothingStranded
    <2>6. ReadFor(read, recv_buffer_)' /\ OneRead' /\ QueueFor(queue, read, write)'
      BY <2>1, <2>3 DEF IndInv, ReadFor, OneRead, recvVars
    <2>7. QED  BY <2>4, <2>5, <2>6 DEF IndInv
  <1>4. ASSUME PeerGone  PROVE IndInv'
    BY <1>4 DEF PeerGone, IndInv, TypeOK, QueueFor, WriteFor, ReadFor, NothingStranded,
                OneRead, sendVars, recvVars
  <1>5. QED  BY <1>1, <1>2, <1>3, <1>4 DEF Kernel


\* Taking the first handler off the queue.
LEMMA RunStep ==
    ASSUME IndInv, NEW kind, Runs(kind)
    PROVE  /\ pc = "idle" /\ Head(queue) \in Task /\ Head(queue).kind = kind /\ Has(queue, kind)
           /\ QueueFor(Tail(queue), read, write)
           /\ Has(Tail(queue), "attach") => Has(queue, "attach")
           /\ kind \in {"read", "write", "attach"} => ~Has(Tail(queue), kind)
  <1>1. queue \in Seq(Task) /\ queue # <<>> /\ pc = "idle" /\ Head(queue).kind = kind
    BY IndFacts DEF Runs
  <1>2. QueueFor(queue, read, write)
    BY DEF IndInv
  <1>3. QED  BY <1>1, <1>2, TailTask DEF QueueFor

\* With no handler of its own in q, an operation may be forgotten.
LEMMA ForgetOperation ==
    ASSUME NEW q, NEW r, NEW w, QueueFor(q, r, w)
    PROVE  /\ ~Has(q, "read") => QueueFor(q, NoOp, w)
           /\ ~Has(q, "write") => QueueFor(q, r, NoOp)
  BY DEF QueueFor

\* A callback that returns without an operation of its own.
LEMMA CallbackReturns ==
    ASSUME IndInv, AttachReturns \/ MsgReturns \/ HighWaterReturns \/ DownReturns
    PROVE  IndInv'
  <1> USE IndFacts
  <1>1. CASE HighWaterReturns \/ DownReturns
    <2>1. /\ status_' \in Status /\ {owned', late'} \subseteq BOOLEAN /\ pc' = "idle"
          /\ UNCHANGED <<open, async_writing_, write_buffer_, writing_buffer_, write,
                         recv_buffer_, read, queue, downs, peer, calls, received>>
      BY <1>1 DEF HighWaterReturns, DownReturns, IndInv, TypeOK, Status, sendVars, recvVars, env
    <2>2. TypeOK'
      BY <2>1 DEF IndInv, TypeOK
    <2>3. OneRead' /\ QueueFor(queue, read, write)'
      BY <2>1 DEF IndInv, OneRead
    <2>4. WriteFor(write, writing_buffer_)' /\ ReadFor(read, recv_buffer_)' /\ NothingStranded'
      BY <2>1 DEF IndInv, WriteFor, ReadFor, NothingStranded
    <2>5. QED  BY <2>2, <2>3, <2>4 DEF IndInv
  <1>2. CASE AttachReturns \/ MsgReturns
    <2>1. PICK b \in Buffer : InBounds(b) /\ AsyncRead(b, queue)
      BY <1>2, MsgResultsProperties DEF AttachReturns, MsgReturns
    <2>2. /\ UNCHANGED <<status_, open, sendVars, owned, downs, env>>
          /\ pc \in {"attach_fn", "msg_fn"} /\ pc' = "idle"
      BY <1>2 DEF AttachReturns, MsgReturns
    <2>3. read.st = "none" /\ ~Has(queue, "attach") /\ QueueFor(queue, NoOp, write)
      BY <2>2, ForgetOperation DEF IndInv, OneRead, QueueFor
    <2>4. /\ recv_buffer_' = b
          /\ QueueFor(queue', read', write)
          /\ ReadFor(read, recv_buffer_)'
          /\ ~Has(queue', "attach")
      BY <2>1, <2>2, <2>3, AsyncReadStep
    <2>5. TypeOK'
      BY <2>1, <2>2, <2>4 DEF IndInv, TypeOK, ReadFor, QueueFor, Task, sendVars, env
    <2>6. OneRead'
      BY <2>2, <2>4 DEF OneRead
    <2>7. WriteFor(write, writing_buffer_)' /\ NothingStranded' /\ QueueFor(queue, read, write)'
      BY <2>2, <2>4 DEF IndInv, WriteFor, NothingStranded, sendVars
    <2>8. QED  BY <2>4, <2>5, <2>6, <2>7 DEF IndInv
  <1>3. QED  BY <1>1, <1>2

\* Every handler the loop thread runs keeps the invariant.
LEMMA LoopStep == ASSUME IndInv, Loop PROVE IndInv'
  <1> USE IndFacts
  <1>0. downs \in Nat
    BY DEF IndInv, TypeOK
  <1>1. ASSUME OnAttachedToLoop  PROVE IndInv'
    <2>1. /\ QueueFor(Tail(queue), read, write) /\ ~Has(Tail(queue), "attach")
          /\ read.st = "none"
      BY <1>1, RunStep DEF OnAttachedToLoop, IndInv, OneRead
    <2>2. QED
      BY <1>1, <2>1 DEF OnAttachedToLoop, IndInv, TypeOK, Status, Callbacks, QueueFor, WriteFor,
                        ReadFor, NothingStranded, OneRead, Task, sendVars, recvVars, env
  <1>2. ASSUME SendStringInLoop  PROVE IndInv'
    <2>1. /\ SendInLoop(Head(queue).data, Tail(queue))
          /\ UNCHANGED <<status_, open, recvVars, owned, downs, env>>
          /\ pc' \in {"idle", "high_water_fn"}
      BY <1>2 DEF SendStringInLoop
    <2>2. /\ QueueFor(Tail(queue), read, write) /\ Head(queue).data \in Seq(Byte)
          /\ Has(Tail(queue), "attach") => Has(queue, "attach")
      BY <1>2, RunStep, PayloadAssumption, EmptySeq DEF SendStringInLoop, Task
    <2>3. /\ async_writing_' \in BOOLEAN
          /\ write_buffer_' \in Buffer /\ InBounds(write_buffer_')
          /\ writing_buffer_' \in Buffer /\ InBounds(writing_buffer_')
          /\ QueueFor(queue', read, write')
          /\ Has(queue', "attach") => Has(Tail(queue), "attach")
          /\ WriteFor(write, writing_buffer_)'
          /\ NothingStranded'
      BY <2>1, <2>2, SendInLoopStep
    <2>4. TypeOK'
      BY <2>1, <2>3 DEF IndInv, TypeOK, recvVars, env, WriteFor, QueueFor, Task, Callbacks
    <2>5. ReadFor(read, recv_buffer_)' /\ OneRead' /\ QueueFor(queue, read, write)'
      BY <2>1, <2>2, <2>3 DEF IndInv, ReadFor, OneRead, recvVars
    <2>6. QED  BY <2>3, <2>4, <2>5 DEF IndInv
  <1>3. ASSUME RunClose  PROVE IndInv'
    <2>1. /\ QueueFor(Tail(queue), read, write)
          /\ Has(Tail(queue), "attach") => Has(queue, "attach")
      BY <1>3, RunStep DEF RunClose
    <2>2. UNCHANGED <<status_, async_writing_, recv_buffer_, write_buffer_, writing_buffer_,
                      pc, owned, downs, env>>
      BY <1>3 DEF RunClose
    <2>3. /\ open' = FALSE /\ Settled(read, read') /\ Settled(write, write')
          /\ QueueFor(queue', read', write')
          /\ Has(queue', "attach") => Has(Tail(queue), "attach")
      <3>1. CASE open
        <4>1. CloseSocket(read, write, Tail(queue))
          BY <1>3, <3>1 DEF RunClose
        <4>2. QED  BY <2>1, <4>1, CloseSocketStep DEF IndInv, ReadFor, WriteFor
      <3>2. CASE ~open
        BY <1>3, <2>1, <3>2 DEF RunClose, Settled, IndInv, ReadFor, WriteFor
      <3>3. QED  BY <3>1, <3>2
    <2>4. TypeOK'
      BY <2>2, <2>3 DEF IndInv, TypeOK, env, Settled, QueueFor, Task
    <2>5. WriteFor(write, writing_buffer_)' /\ ReadFor(read, recv_buffer_)' /\ NothingStranded'
      BY <2>2, <2>3 DEF IndInv, WriteFor, ReadFor, NothingStranded, Settled
    <2>6. OneRead' /\ QueueFor(queue, read, write)'
      BY <2>1, <2>2, <2>3 DEF IndInv, OneRead, Settled
    <2>7. QED  BY <2>4, <2>5, <2>6 DEF IndInv
  <1>4. ASSUME HandleRead  PROVE IndInv'
    <2>1. /\ QueueFor(Tail(queue), NoOp, write) /\ read.st = "done"
          /\ ~Has(queue, "attach") /\ ~Has(Tail(queue), "attach")
      BY <1>4, RunStep, ForgetOperation DEF HandleRead, IndInv, QueueFor, OneRead
    <2>2. UNCHANGED <<async_writing_, write_buffer_, writing_buffer_, owned, env>>
      BY <1>4 DEF HandleRead
    <2>3. CASE read.err
      <3>1. HandleClose("kDisconnecting", NoOp, write) /\ recv_buffer_' = recv_buffer_
        BY <1>4, <2>3 DEF HandleRead
      <3>2. /\ open' = FALSE /\ status_' = "kDisconnecting" /\ pc' = "down_fn"
            /\ downs' = downs + 1
            /\ Settled(NoOp, read') /\ Settled(write, write')
            /\ QueueFor(queue', read', write')
            /\ ~Has(queue', "attach")
        BY <2>1, <3>1, HandleCloseStep, NoOpProperties DEF IndInv, WriteFor
      <3>3. TypeOK'
        <4>1. /\ downs' \in Nat /\ status_' \in Status /\ pc' \in {"idle"} \cup Callbacks
              /\ read' \in Operation /\ write' \in Operation /\ queue' \in Seq(Task)
          BY <1>0, <3>2 DEF Settled, QueueFor, Status, Callbacks
        <4>2. QED  BY <2>2, <3>1, <3>2, <4>1 DEF IndInv, TypeOK, env, Task
      <3>4. WriteFor(write, writing_buffer_)' /\ NothingStranded'
        BY <2>2, <3>2 DEF IndInv, WriteFor, NothingStranded, Settled
      <3>5. ReadFor(read, recv_buffer_)'
        BY <3>1, <3>2, NoOpProperties, SizeProperties DEF ReadFor, Settled
      <3>6. OneRead'
        BY <3>2 DEF OneRead
      <3>7. QED  BY <3>2, <3>3, <3>4, <3>5, <3>6 DEF IndInv
    <2>4. CASE ~read.err
      <3>1. /\ recv_buffer_' = WriteBytes(recv_buffer_, read.n)
            /\ read' = NoOp /\ queue' = Tail(queue) /\ pc' = "msg_fn"
            /\ UNCHANGED <<status_, open, write, downs>>
        BY <1>4, <2>4 DEF HandleRead
      <3>2. recv_buffer_' \in Buffer /\ InBounds(recv_buffer_')
        <4>1. read.n \in Nat /\ read.n <= ValidSize(recv_buffer_)
          BY DEF IndInv, ReadFor, Operation
        <4>2. QED  BY <3>1, <4>1, WriteBytesProperties
      <3>3. TypeOK'
        BY <2>1, <2>2, <3>1, <3>2, NoOpProperties
           DEF IndInv, TypeOK, env, QueueFor, Task, Callbacks
      <3>4. ReadFor(read, recv_buffer_)' /\ OneRead'
        BY <2>1, <3>1, <3>2, NoOpProperties, SizeProperties DEF ReadFor, OneRead
      <3>5. WriteFor(write, writing_buffer_)' /\ NothingStranded' /\ QueueFor(queue, read, write)'
        BY <2>1, <2>2, <3>1 DEF IndInv, WriteFor, NothingStranded
      <3>6. QED  BY <3>3, <3>4, <3>5 DEF IndInv
    <2>5. QED  BY <2>3, <2>4
  <1>5. ASSUME HandleWrite  PROVE IndInv'
    <2>1. /\ QueueFor(Tail(queue), read, NoOp) /\ write.st = "done" /\ pc = "idle"
          /\ Has(Tail(queue), "attach") => Has(queue, "attach")
      BY <1>5, RunStep, ForgetOperation DEF HandleWrite, IndInv, QueueFor
    <2>2. UNCHANGED <<owned, env>>
      BY <1>5 DEF HandleWrite
    <2>3. CASE write.err
      <3>1. /\ HandleClose("kDisconnecting", read, NoOp) /\ async_writing_' = FALSE
            /\ UNCHANGED <<recv_buffer_, write_buffer_, writing_buffer_>>
        BY <1>5, <2>3 DEF HandleWrite
      <3>2. /\ open' = FALSE /\ status_' = "kDisconnecting" /\ pc' = "down_fn"
            /\ downs' = downs + 1
            /\ Settled(read, read') /\ Settled(NoOp, write')
            /\ QueueFor(queue', read', write')
            /\ Has(queue', "attach") => Has(Tail(queue), "attach")
        BY <2>1, <3>1, HandleCloseStep, NoOpProperties DEF IndInv, ReadFor
      <3>3. TypeOK'
        <4>1. /\ downs' \in Nat /\ status_' \in Status /\ pc' \in {"idle"} \cup Callbacks
              /\ read' \in Operation /\ write' \in Operation /\ queue' \in Seq(Task)
          BY <1>0, <3>2 DEF Settled, QueueFor, Status, Callbacks
        <4>2. QED  BY <2>2, <3>1, <3>2, <4>1 DEF IndInv, TypeOK, env, Task
      <3>4. WriteFor(write, writing_buffer_)' /\ NothingStranded'
        BY <3>1, <3>2, NoOpProperties, SizeProperties DEF WriteFor, NothingStranded, Settled
      <3>5. ReadFor(read, recv_buffer_)' /\ OneRead'
        BY <2>1, <3>1, <3>2 DEF IndInv, ReadFor, OneRead, Settled
      <3>6. QED  BY <3>2, <3>3, <3>4, <3>5 DEF IndInv
    <2>4. CASE ~write.err
      <3> DEFINE b == ReadBytes(writing_buffer_, write.n)
      <3>1. b \in Buffer /\ InBounds(b)
        BY ReadBytesProperties, SizeProperties DEF IndInv, WriteFor, Operation
      <3>2. UNCHANGED <<status_, open, recvVars, pc, downs>>
        BY <1>5, <2>4 DEF HandleWrite
      <3>3. PICK c \in Buffer :
               /\ InBounds(c) /\ AsyncWrite(c, Tail(queue))
               /\ write_buffer_' \in Buffer /\ InBounds(write_buffer_')
               /\ Size(c) = 0 => Size(write_buffer_') = 0
        <4>1. CASE Size(b) = 0 /\ Size(write_buffer_) > 0
          BY <1>5, <2>4, <3>1, <4>1 DEF HandleWrite, Swapped
        <4>2. CASE ~(Size(b) = 0 /\ Size(write_buffer_) > 0)
          <5>1. Size(write_buffer_) \in Nat
            BY SizeProperties
          <5>2. AsyncWrite(b, Tail(queue)) /\ write_buffer_' = write_buffer_
            BY <1>5, <2>4, <4>2 DEF HandleWrite, Swapped
          <5>3. QED  BY <3>1, <4>2, <5>1, <5>2
        <4>3. QED  BY <4>1, <4>2
      <3>4. /\ writing_buffer_' = c
            /\ async_writing_' \in BOOLEAN
            /\ (async_writing_ <=> write.st # "none")'
            /\ async_writing_' <=> Size(c) # 0
            /\ QueueFor(queue', read, write')
            /\ WriteFor(write, writing_buffer_)'
            /\ Has(queue', "attach") => Has(Tail(queue), "attach")
        BY <2>1, <3>2, <3>3, AsyncWriteStep
      <3>5. TypeOK'
        BY <2>2, <3>2, <3>3, <3>4 DEF IndInv, TypeOK, recvVars, env, WriteFor, QueueFor, Task
      <3>6. NothingStranded'
        BY <3>3, <3>4 DEF NothingStranded
      <3>7. ReadFor(read, recv_buffer_)' /\ OneRead' /\ QueueFor(queue, read, write)'
        BY <2>1, <3>2, <3>4 DEF IndInv, ReadFor, OneRead, recvVars
      <3>8. QED  BY <3>4, <3>5, <3>6, <3>7 DEF IndInv
    <2>5. QED  BY <2>3, <2>4
  <1>6. QED  BY <1>1, <1>2, <1>3, <1>4, <1>5, CallbackReturns DEF Loop


\* The invariant is inductive.
LEMMA StepInv == IndInv /\ [Next]_vars => IndInv'
  <1>1. ASSUME IndInv, UNCHANGED vars PROVE IndInv'
    BY <1>1 DEF vars, sendVars, recvVars, env, IndInv, TypeOK, QueueFor, WriteFor, ReadFor,
                NothingStranded, OneRead
  <1>2. QED  BY <1>1, ApplicationStep, KernelStep, LoopStep DEF Next

\* The invariant holds in every reachable state.
LEMMA Invariance == Spec => []IndInv
  BY InitInv, StepInv, PTL DEF Spec

(* The buffers of a connection stay within their vectors for ever: no      *)
(* payload, partial write or callback makes SendInLoop, HandleRead or      *)
(* HandleWrite touch memory outside them.                                  *)
THEOREM TypeTheorem == Spec => []TypeOK
  <1>1. IndInv => TypeOK  BY DEF IndInv
  <1>2. QED  BY <1>1, Invariance, PTL

(* No accepted byte is ever left behind on an open connection without a    *)
(* write in flight, and async_writing_ always matches the pending write.   *)
THEOREM StrandedTheorem == Spec => []NothingStranded
  <1>1. IndInv => NothingStranded  BY DEF IndInv
  <1>2. QED  BY <1>1, Invariance, PTL

(* The memory given to an outstanding asio operation is never moved,       *)
(* grown or overwritten before its handler runs.                           *)
THEOREM RegionsTheorem == Spec => []RegionsStable
  <1>1. IndInv => RegionsStable  BY DEF IndInv, RegionsStable, WriteFor, ReadFor
  <1>2. QED  BY <1>1, Invariance, PTL


-----------------------------------------------------------------------------
(* The two directions implement ByteStream.                                *)

\* Concatenation of byte sequences.
LEMMA ConcatFacts ==
    ASSUME NEW s \in Seq(Byte), NEW t \in Seq(Byte), NEW u \in Seq(Byte)
    PROVE  /\ s \o t \in Seq(Byte) /\ Len(s \o t) = Len(s) + Len(t)
           /\ s \o <<>> = s /\ <<>> \o s = s
           /\ (s \o t) \o u = s \o (t \o u)
  OBVIOUS

\* Dropping a prefix of s from s \o t.
LEMMA DropPrefix ==
    ASSUME NEW s \in Seq(Byte), NEW t \in Seq(Byte), NEW n \in 0 .. Len(s)
    PROVE  /\ SubSeq(s \o t, n + 1, Len(s \o t)) = SubSeq(s, n + 1, Len(s)) \o t
           /\ n \in 0 .. Len(s \o t)
  <1> DEFINE c == s \o t
             d == SubSeq(s, n + 1, Len(s))
             u == SubSeq(c, n + 1, Len(c))
  <1>1. /\ c \in Seq(Byte) /\ Len(c) = Len(s) + Len(t) /\ Len(s) \in Nat /\ Len(t) \in Nat
        /\ \A i \in 1 .. Len(c) : c[i] = IF i <= Len(s) THEN s[i] ELSE t[i - Len(s)]
    OBVIOUS
  <1>2. /\ d \in Seq(Byte) /\ Len(d) = Len(s) - n
        /\ \A i \in 1 .. Len(s) - n : d[i] = s[n + i]
    BY <1>1
  <1> HIDE DEF c
  <1>3. /\ u \in Seq(Byte) /\ Len(u) = Len(c) - n
        /\ \A i \in 1 .. Len(c) - n : u[i] = c[n + i]
    BY <1>1
  <1> HIDE DEF d, u
  <1>4. Len(u) = Len(d) + Len(t)
    BY <1>1, <1>2, <1>3
  <1>5. \A i \in 1 .. Len(d) : u[i] = d[i]
    BY <1>1, <1>2, <1>3, SMTT(30)
  <1>6. ASSUME NEW i \in 1 .. Len(t)  PROVE u[Len(d) + i] = t[i]
    <2>1. Len(d) + i \in 1 .. Len(c) - n /\ n + (Len(d) + i) = Len(s) + i
      BY <1>1, <1>2
    <2>2. u[Len(d) + i] = c[Len(s) + i]
      BY <1>3, <2>1
    <2>3. Len(s) + i \in 1 .. Len(c) /\ ~(Len(s) + i <= Len(s)) /\ (Len(s) + i) - Len(s) = i
      BY <1>1
    <2>4. QED  BY <1>1, <2>2, <2>3
  <1>7. u = d \o t
    BY <1>2, <1>3, <1>4, <1>5, <1>6, ConcatEqual
  <1>8. n \in 0 .. Len(c)
    BY <1>1
  <1>9. QED  BY <1>7, <1>8 DEF c, d, u


\* Unsent for given buffers, of which n bytes have been taken.
UnsentIn(b, c, n) == SubSeq(Content(b), n + 1, Size(b)) \o Content(c)

\* What is unsent, in terms of the contents of the two buffers.
LEMMA UnsentProperties ==
    ASSUME NEW b \in Buffer, InBounds(b), NEW c \in Buffer, InBounds(c)
    PROVE  /\ Content(b) \in Seq(Byte) /\ Content(c) \in Seq(Byte) /\ Len(Content(b)) = Size(b)
           /\ UnsentIn(b, c, 0) = Content(b) \o Content(c)
           /\ \A n \in 0 .. Size(b) :
                 /\ UnsentIn(b, c, n) = Content(ReadBytes(b, n)) \o Content(c)
                 /\ ReadBytes(b, n) \in Buffer /\ InBounds(ReadBytes(b, n))
  <1>1. /\ Content(b) \in Seq(Byte) /\ Content(c) \in Seq(Byte) /\ Len(Content(b)) = Size(b)
    BY ContentProperties
  <1>2. UnsentIn(b, c, 0) = Content(b) \o Content(c)
    BY <1>1, SubSeqFull, SMTT(30) DEF UnsentIn
  <1>3. \A n \in 0 .. Size(b) :
           /\ UnsentIn(b, c, n) = Content(ReadBytes(b, n)) \o Content(c)
           /\ ReadBytes(b, n) \in Buffer /\ InBounds(ReadBytes(b, n))
    BY <1>1, ReadBytesProperties DEF UnsentIn
  <1>4. QED  BY <1>1, <1>2, <1>3

\* Data written behind everything else is at the end of what is unsent.
LEMMA UnsentGrows ==
    ASSUME NEW b \in Buffer, InBounds(b), NEW c \in Buffer, InBounds(c),
           NEW data \in Seq(Byte), NEW d \in Buffer, InBounds(d)
    PROVE  /\ \A n \in 0 .. Size(b) : UnsentIn(b, c, n) \in Seq(Byte)
           /\ Content(d) = Content(c) \o data =>
                 \A n \in 0 .. Size(b) : UnsentIn(b, d, n) = UnsentIn(b, c, n) \o data
           /\ Content(b) = <<>> /\ Content(c) = <<>> /\ Content(d) = Content(b) \o data =>
                 UnsentIn(d, c, 0) = UnsentIn(b, c, 0) \o data
  <1>1. ASSUME NEW n \in 0 .. Size(b)
        PROVE  /\ UnsentIn(b, c, n) \in Seq(Byte)
               /\ Content(d) = Content(c) \o data => UnsentIn(b, d, n) = UnsentIn(b, c, n) \o data
    <2> DEFINE t == Content(ReadBytes(b, n))
    <2>1. t \in Seq(Byte) /\ Content(c) \in Seq(Byte)
      BY UnsentProperties, ContentProperties
    <2>2. UnsentIn(b, c, n) = t \o Content(c) /\ UnsentIn(b, d, n) = t \o Content(d)
      BY UnsentProperties
    <2> HIDE DEF t
    <2>3. (t \o Content(c)) \o data = t \o (Content(c) \o data) /\ t \o Content(c) \in Seq(Byte)
      BY <2>1, ConcatFacts, SMTT(30)
    <2>4. QED  BY ONLY <2>2, <2>3, Zenon
  <1>2. ASSUME Content(b) = <<>>, Content(c) = <<>>, Content(d) = Content(b) \o data
        PROVE  UnsentIn(d, c, 0) = UnsentIn(b, c, 0) \o data
    <2>1. UnsentIn(b, c, 0) = Content(b) \o Content(c) /\ UnsentIn(d, c, 0) = Content(d) \o Content(c)
      BY UnsentProperties
    <2>2. <<>> \o <<>> = <<>> /\ <<>> \o data = data /\ data \o <<>> = data
      BY ConcatFacts, EmptySeq
    <2>3. UnsentIn(b, c, 0) = <<>> \o <<>> /\ UnsentIn(d, c, 0) = (<<>> \o data) \o <<>>
      BY ONLY <1>2, <2>1, Zenon
    <2>4. UnsentIn(b, c, 0) = <<>> /\ UnsentIn(d, c, 0) = data
      BY ONLY <2>2, <2>3, Zenon
    <2>5. QED  BY ONLY <2>2, <2>4, Zenon
  <1>3. QED  BY <1>1, <1>2

\* The case of UnsentGrows for a write in flight.
LEMMA UnsentAppends ==
    ASSUME NEW b \in Buffer, InBounds(b), NEW c \in Buffer, InBounds(c),
           NEW data \in Seq(Byte), NEW d \in Buffer, InBounds(d),
           Content(d) = Content(c) \o data, NEW n \in 0 .. Size(b)
    PROVE  UnsentIn(b, d, n) = UnsentIn(b, c, n) \o data
  <1>1. \A m \in 0 .. Size(b) : UnsentIn(b, d, m) = UnsentIn(b, c, m) \o data
    BY UnsentGrows, ZenonT(60)
  <1>2. QED  BY ONLY <1>1, n \in 0 .. Size(b), Zenon

\* Unsent in the invariant's terms, before and after a step.
LEMMA UnsentFacts ==
    ASSUME IndInv
    PROVE  /\ Unsent = UnsentIn(writing_buffer_, write_buffer_, write.n)
           /\ Unsent' = UnsentIn(writing_buffer_', write_buffer_', write'.n)
           /\ write.n \in 0 .. Size(writing_buffer_)
           /\ write.st # "done" \/ write.err => write.n = 0
  <1>1. write.n \in Nat /\ write.n <= Size(writing_buffer_) /\ Size(writing_buffer_) \in Nat
    BY IndFacts, SizeProperties DEF IndInv, WriteFor, Operation
  <1>2. QED  BY <1>1 DEF Unsent, UnsentIn, IndInv, WriteFor

\* No byte has been taken away: y is x, or x with bytes behind it.
Kept(x, y) == y = x \/ \E data \in Seq(Byte) : y = x \o data

\* A step of the stream sent, in which only the kernel takes bytes.
SendSide == [Out!Next]_<<Unsent, open>> /\ (TakeSome \/ Kept(Unsent, Unsent'))

\* SendInLoop puts data at the end of the stream of an open connection.
LEMMA SendInLoopStream ==
    ASSUME IndInv, NEW data \in Payloads \cup {<<>>}, NEW q, QueueFor(q, read, write),
           SendInLoop(data, q), open' = open
    PROVE  SendSide
  <1> USE IndFacts
  <1>0. data \in Seq(Byte)
    BY PayloadAssumption, EmptySeq
  <1>1. CASE ~open
    <2>1. Unsent' = Unsent
      BY <1>1 DEF SendInLoop, sendVars, Unsent
    <2>2. QED  BY <1>1, <2>1 DEF SendSide, Kept
  <1>2. CASE open
    <2>1. Unsent' = Unsent \o data
      <3>1. CASE ~async_writing_
        <4> DEFINE b == Write(writing_buffer_, data)
        <4>1. Size(writing_buffer_) = 0 /\ Size(write_buffer_) = 0 /\ write.st = "none"
          BY <1>2, <3>1 DEF IndInv, NothingStranded
        <4>2. AsyncWrite(b, q) /\ write_buffer_' = write_buffer_
          BY <1>2, <3>1, <4>1 DEF SendInLoop
        <4>3. b \in Buffer /\ InBounds(b) /\ Content(b) = Content(writing_buffer_) \o data
          BY <1>0, WriteProperties
        <4>4. QueueFor(q, read, NoOp)
          BY <4>1 DEF QueueFor
        <4> HIDE DEF b
        <4>5. writing_buffer_' = b /\ write'.n = 0
          BY <4>2, <4>3, <4>4, AsyncWriteStep
        <4>6. Content(writing_buffer_) = <<>> /\ Content(write_buffer_) = <<>>
          BY <4>1, EmptyContent
        <4>7. write.n = 0
          BY <4>1, UnsentFacts
        <4>8. UnsentIn(b, write_buffer_, 0) = UnsentIn(writing_buffer_, write_buffer_, 0) \o data
          BY <1>0, <4>3, <4>6, UnsentGrows, ZenonT(40)
        <4>9. QED  BY <4>2, <4>5, <4>7, <4>8, UnsentFacts
      <3>2. CASE async_writing_
        <4>1. /\ write_buffer_' = Write(write_buffer_, data)
              /\ UNCHANGED <<async_writing_, writing_buffer_, write>>
          BY <1>2, <3>2 DEF SendInLoop
        <4>2. /\ write_buffer_' \in Buffer /\ InBounds(write_buffer_')
              /\ Content(write_buffer_') = Content(write_buffer_) \o data
          BY <1>0, <4>1, WriteProperties
        <4>3. UnsentIn(writing_buffer_, write_buffer_', write.n) =
                 UnsentIn(writing_buffer_, write_buffer_, write.n) \o data
          <5>1. write.n \in 0 .. Size(writing_buffer_)
            BY UnsentFacts
          <5>2. /\ writing_buffer_ \in Buffer /\ InBounds(writing_buffer_)
                /\ write_buffer_ \in Buffer /\ InBounds(write_buffer_)
            OBVIOUS
          <5>3. QED  BY ONLY <1>0, <4>2, <5>1, <5>2, UnsentAppends, ZenonT(40)
        <4>4. QED  BY <4>1, <4>3, UnsentFacts
      <3>3. QED  BY <3>1, <3>2
    <2>2. CASE data \in Payloads
      <3>1. Kept(Unsent, Unsent')
        BY <1>0, <2>1, Zenon DEF Kept
      <3>2. Out!Next
        BY <1>2, <2>1, <2>2 DEF Out!Next, Out!Put
      <3>3. QED  BY <3>1, <3>2 DEF SendSide
    <2>3. CASE data = <<>>
      <3>1. Unsent \in Seq(Byte)
        BY <1>0, UnsentGrows, UnsentFacts
      <3>2. Unsent' = Unsent
        BY <2>1, <2>3, <3>1, ConcatFacts
      <3>3. QED  BY <3>2 DEF SendSide, Kept
    <2>4. QED  BY <2>2, <2>3
  <1>3. QED  BY <1>1, <1>2


\* Steps that leave the bytes to send alone, and perhaps close the socket.
LEMMA SendSideQuiet ==
    ASSUME UNCHANGED <<writing_buffer_, write_buffer_>>, write'.n = write.n,
           open' = open \/ open' = FALSE
    PROVE  SendSide
  <1>1. Unsent' = Unsent
    BY DEF Unsent
  <1>2. QED  BY <1>1 DEF Out!Next, Out!Shut, SendSide, Kept

\* How the loop's close handler and the two completion handlers close the socket.
LEMMA ClosingSteps ==
    ASSUME IndInv
    PROVE  /\ RunClose => open' = FALSE /\ Settled(read, read') /\ Settled(write, write')
           /\ HandleRead /\ read.err => open' = FALSE /\ Settled(NoOp, read') /\ Settled(write, write')
           /\ HandleWrite /\ write.err => open' = FALSE /\ Settled(read, read') /\ Settled(NoOp, write')
  <1> USE IndFacts
  <1>1. ASSUME RunClose
        PROVE  open' = FALSE /\ Settled(read, read') /\ Settled(write, write')
    <2>1. QueueFor(Tail(queue), read, write)
      BY <1>1, RunStep DEF RunClose
    <2>2. CASE open
      <3>1. CloseSocket(read, write, Tail(queue))
        BY <1>1, <2>2 DEF RunClose
      <3>2. QED  BY <2>1, <3>1, CloseSocketStep DEF IndInv, ReadFor, WriteFor
    <2>3. CASE ~open
      BY <1>1, <2>3 DEF RunClose, Settled, IndInv, ReadFor, WriteFor
    <2>4. QED  BY <2>2, <2>3
  <1>2. ASSUME HandleRead, read.err
        PROVE  open' = FALSE /\ Settled(NoOp, read') /\ Settled(write, write')
    <2>1. QueueFor(Tail(queue), NoOp, write)
      BY <1>2, RunStep, ForgetOperation DEF HandleRead
    <2>2. HandleClose("kDisconnecting", NoOp, write)
      BY <1>2 DEF HandleRead
    <2>3. QED  BY <2>1, <2>2, HandleCloseStep, NoOpProperties DEF IndInv, WriteFor
  <1>3. ASSUME HandleWrite, write.err
        PROVE  open' = FALSE /\ Settled(read, read') /\ Settled(NoOp, write')
    <2>1. QueueFor(Tail(queue), read, NoOp)
      BY <1>3, RunStep, ForgetOperation DEF HandleWrite
    <2>2. HandleClose("kDisconnecting", read, NoOp)
      BY <1>3 DEF HandleWrite
    <2>3. QED  BY <2>1, <2>2, HandleCloseStep, NoOpProperties DEF IndInv, ReadFor
  <1>4. QED  BY <1>1, <1>2, <1>3

\* HandleWrite after a successful write moves bytes between buffers only.
LEMMA HandleWriteStream ==
    ASSUME IndInv, HandleWrite, ~write.err
    PROVE  Unsent' = Unsent
  <1> USE IndFacts
  <1> DEFINE b == ReadBytes(writing_buffer_, write.n)
  <1>1. b \in Buffer /\ InBounds(b)
    BY UnsentProperties, UnsentFacts
  <1>2. Unsent = Content(b) \o Content(write_buffer_)
    BY UnsentProperties, UnsentFacts
  <1>3. QueueFor(Tail(queue), read, NoOp) /\ open' = open
    BY RunStep, ForgetOperation DEF HandleWrite
  <1>4. CASE Size(b) = 0 /\ Size(write_buffer_) > 0
    <2>1. write_buffer_' = b /\ AsyncWrite(write_buffer_, Tail(queue))
      BY <1>4 DEF HandleWrite, Swapped
    <2>2. writing_buffer_' = write_buffer_ /\ write'.n = 0
      BY <1>3, <2>1, AsyncWriteStep
    <2>3. Content(b) = <<>>
      BY <1>1, <1>4, EmptyContent
    <2> HIDE DEF b
    <2>4. Unsent' = Content(write_buffer_) \o Content(b)
      <3>1. UnsentIn(write_buffer_, b, 0) = Content(write_buffer_) \o Content(b)
        BY <1>1, UnsentProperties
      <3>2. Unsent' = UnsentIn(write_buffer_, b, 0)
        BY <2>1, <2>2, UnsentFacts
      <3>3. QED  BY ONLY <3>1, <3>2
    <2>5. Content(write_buffer_) \o <<>> = <<>> \o Content(write_buffer_)
      BY ContentProperties, ConcatFacts
    <2>6. QED  BY ONLY <1>2, <2>3, <2>4, <2>5, Zenon
  <1>5. CASE ~(Size(b) = 0 /\ Size(write_buffer_) > 0)
    <2>1. write_buffer_' = write_buffer_ /\ AsyncWrite(b, Tail(queue))
      BY <1>5 DEF HandleWrite, Swapped
    <2> HIDE DEF b
    <2>2. writing_buffer_' = b /\ write'.n = 0
      BY <1>1, <1>3, <2>1, AsyncWriteStep
    <2>3. UnsentIn(b, write_buffer_, 0) = Content(b) \o Content(write_buffer_)
      BY <1>1, UnsentProperties
    <2>4. Unsent' = UnsentIn(b, write_buffer_, 0)
      BY <2>1, <2>2, UnsentFacts
    <2>5. QED  BY ONLY <1>2, <2>3, <2>4, Zenon
  <1>6. QED  BY <1>4, <1>5

\* Every step of a connection is a step of the stream it sends, or none.
LEMMA SendStreamStep == IndInv /\ [Next]_vars => SendSide
  <1> SUFFICES ASSUME IndInv, [Next]_vars PROVE SendSide
    OBVIOUS
  <1> USE IndFacts
  <1>1. ASSUME NEW data \in Payloads, SendFromCallback(data)
        PROVE  SendSide
    <2>1. SendInLoop(data, queue) /\ open' = open /\ QueueFor(queue, read, write)
      BY <1>1 DEF SendFromCallback, IndInv
    <2>2. QED  BY <2>1, SendInLoopStream
  <1>2. CASE SendStringInLoop
    <2>1. /\ SendInLoop(Head(queue).data, Tail(queue)) /\ open' = open
          /\ QueueFor(Tail(queue), read, write) /\ Head(queue).data \in Payloads \cup {<<>>}
      BY <1>2, RunStep DEF SendStringInLoop, Task
    <2>2. QED  BY <2>1, SendInLoopStream
  <1>3. CASE TakeSome
    <2>1. PICK n \in 1 .. Size(write.at) : BytesTaken(n)
      BY <1>3 DEF TakeSome
    <2>2. write.st = "pending" /\ write.at = writing_buffer_ /\ write'.n = n
      BY <2>1 DEF BytesTaken, Done, IndInv, WriteFor
    <2>3. UNCHANGED <<writing_buffer_, write_buffer_, open>>
      BY <2>1 DEF BytesTaken
    <2> DEFINE c == Content(writing_buffer_)
               d == Content(write_buffer_)
    <2>4. c \in Seq(Byte) /\ d \in Seq(Byte) /\ Len(c) = Size(writing_buffer_) /\ n \in 0 .. Len(c)
      BY <2>2, ContentProperties
    <2>5. Unsent = c \o d
      <3>1. write.n = 0
        BY <2>2, UnsentFacts
      <3>2. QED  BY <3>1, UnsentProperties, UnsentFacts
    <2>6. Unsent' = SubSeq(c, n + 1, Len(c)) \o d
      BY <2>2, <2>3, <2>4, UnsentFacts DEF UnsentIn
    <2> HIDE DEF c, d
    <2>7. SubSeq(c \o d, n + 1, Len(c \o d)) = SubSeq(c, n + 1, Len(c)) \o d /\ n \in 0 .. Len(c \o d)
      BY <2>4, DropPrefix
    <2>8. n \in 0 .. Len(Unsent) /\ Unsent' = SubSeq(Unsent, n + 1, Len(Unsent))
      BY ONLY <2>5, <2>6, <2>7, Zenon
    <2>9. Out!Next
      BY <2>3, <2>8, Zenon DEF Out!Next, Out!Get
    <2>10. QED  BY <1>3, <2>9 DEF SendSide
  <1>4. CASE HandleWrite
    <2>1. CASE write.err
      <3>1. UNCHANGED <<writing_buffer_, write_buffer_>>
        BY <1>4, <2>1 DEF HandleWrite
      <3>2. open' = FALSE /\ write'.n = write.n
        BY <1>4, <2>1, ClosingSteps, NoOpProperties, UnsentFacts DEF Settled
      <3>3. QED  BY <3>1, <3>2, SendSideQuiet
    <2>2. CASE ~write.err
      <3>1. Unsent' = Unsent
        BY <1>4, <2>2, HandleWriteStream
      <3>2. open' = open
        BY <1>4, <2>2 DEF HandleWrite
      <3>3. QED  BY <3>1, <3>2 DEF SendSide, Kept
    <2>3. QED  BY <2>1, <2>2
  <1>5. CASE RunClose
    <2>1. UNCHANGED <<writing_buffer_, write_buffer_>>
      BY <1>5 DEF RunClose
    <2>2. open' = FALSE /\ write'.n = write.n
      BY <1>5, ClosingSteps DEF Settled
    <2>3. QED  BY <2>1, <2>2, SendSideQuiet
  <1>6. CASE HandleRead
    <2>1. UNCHANGED <<writing_buffer_, write_buffer_>>
      BY <1>6 DEF HandleRead
    <2>2. CASE read.err
      <3>1. open' = FALSE /\ write'.n = write.n
        BY <1>6, <2>2, ClosingSteps DEF Settled
      <3>2. QED  BY <2>1, <3>1, SendSideQuiet
    <2>3. CASE ~read.err
      BY <1>6, <2>1, <2>3, SendSideQuiet DEF HandleRead
    <2>4. QED  BY <2>2, <2>3
  <1>7. CASE WriteFails
    <2>1. write'.n = write.n
      BY <1>7, UnsentFacts DEF WriteFails, Done
    <2>2. QED  BY <1>7, <2>1, SendSideQuiet DEF WriteFails
  <1>8. ASSUME UNCHANGED <<sendVars, open>>  PROVE SendSide
    BY <1>8, SendSideQuiet DEF sendVars
  <1>9. CASE AttachReturns \/ MsgReturns \/ HighWaterReturns \/ DownReturns \/ OnAttachedToLoop
    BY <1>8, <1>9 DEF AttachReturns, MsgReturns, HighWaterReturns, DownReturns, OnAttachedToLoop
  <1>10. ASSUME NEW data \in Payloads, BytesArrive(data) \/ SendFromThread(data)
         PROVE  SendSide
    BY <1>8, <1>10 DEF BytesArrive, SendFromThread
  <1>11. CASE PeerGone \/ ReadFails \/ Close
    BY <1>8, <1>11 DEF PeerGone, ReadFails, Close
  <1>12. CASE UNCHANGED vars
    BY <1>8, <1>12 DEF vars
  <1>13. QED
    BY <1>1, <1>2, <1>3, <1>4, <1>5, <1>6, <1>7, <1>9, <1>10, <1>11, <1>12
       DEF Next, Loop, Kernel, Application

(* The kernel gets the bytes the application sent: each once, in the order *)
(* they were accepted, for every mix of partial writes, buffer swaps,      *)
(* growth, callers and failures.                                           *)
THEOREM SendTheorem == Spec => SendsStream
  <1>1. Init => Out!Init
    <2> SUFFICES ASSUME Init PROVE Unsent = <<>> /\ open = TRUE
      BY DEF Out!Init
    <2> DEFINE b == NewBuffer(InitCap)
    <2>1. b \in Buffer /\ InBounds(b) /\ Content(b) = <<>>
      BY NewBufferProperties, CapAssumption
    <2> HIDE DEF b
    <2>2. UnsentIn(b, b, 0) = Content(b) \o Content(b)
      BY <2>1, UnsentProperties
    <2>3. <<>> \o <<>> = <<>>
      BY ConcatFacts, EmptySeq
    <2>4. UnsentIn(b, b, 0) = <<>>
      BY ONLY <2>1, <2>2, <2>3, Zenon
    <2>5. Unsent = UnsentIn(b, b, 0)
      BY NoOpProperties DEF Init, Unsent, UnsentIn, b
    <2>6. QED  BY <2>4, <2>5 DEF Init
  <1>2. QED
    <2>1. IndInv /\ [Next]_vars => [Out!Next]_<<Unsent, open>>
      BY SendStreamStep DEF SendSide
    <2>2. QED  BY <1>1, <2>1, Invariance, PTL DEF Spec, SendsStream, Out!Spec

-----------------------------------------------------------------------------
(* The receiving direction.                                                *)

\* Unread for a given buffer behind whose content n bytes have arrived.
UnreadIn(b, n) == SubSeq(b.storage, b.rpos + 1, b.wpos + n)

\* Unread in the invariant's terms, before and after a step.
LEMMA UnreadFacts ==
    ASSUME IndInv
    PROVE  /\ Unread = UnreadIn(recv_buffer_, read.n)
           /\ Unread' = UnreadIn(recv_buffer_', read'.n)
           /\ read.n \in Nat /\ read.n <= ValidSize(recv_buffer_)
           /\ read.st # "done" \/ read.err => read.n = 0
           /\ Unread \in Seq(Byte)
  <1>1. read.n \in Nat /\ read.n <= ValidSize(recv_buffer_)
    BY DEF IndInv, ReadFor, Operation
  <1>2. Unread = Content(WriteBytes(recv_buffer_, read.n))
    BY <1>1, IndFacts, WriteBytesProperties DEF Content, Unread
  <1>3. Unread \in Seq(Byte)
    BY <1>1, <1>2, IndFacts, WriteBytesProperties, ContentProperties
  <1>4. QED  BY <1>1, <1>3 DEF Unread, UnreadIn, IndInv, ReadFor

\* With nothing behind it, what is unread is the content of the buffer; bytes
\* accounted for by WriteBytes were unread before, and bytes stored by a read
\* come last.
LEMMA UnreadProperties ==
    ASSUME NEW b \in Buffer, InBounds(b)
    PROVE  /\ UnreadIn(b, 0) = Content(b)
           /\ \A n \in Nat : n <= ValidSize(b) => UnreadIn(WriteBytes(b, n), 0) = UnreadIn(b, n)
           /\ \A data \in Seq(Byte) : Len(data) <= ValidSize(b) =>
                 UnreadIn([b EXCEPT !.storage = Stored(@, b.wpos, data)], Len(data)) =
                    UnreadIn(b, 0) \o data
  <1>1. \A c \in Buffer : UnreadIn(c, 0) = Content(c)
    <2> SUFFICES ASSUME NEW c \in Buffer PROVE UnreadIn(c, 0) = Content(c)
      OBVIOUS
    <2>1. c.wpos + 0 = c.wpos
      BY DEF Buffer
    <2>2. QED  BY <2>1 DEF UnreadIn, Content
  <1>2. ASSUME NEW n \in Nat, n <= ValidSize(b)
        PROVE  UnreadIn(WriteBytes(b, n), 0) = UnreadIn(b, n)
    BY <1>1, <1>2, WriteBytesProperties DEF UnreadIn, Content
  <1>3. ASSUME NEW data \in Seq(Byte), Len(data) <= ValidSize(b),
               NEW c, c = [b EXCEPT !.storage = Stored(@, b.wpos, data)]
        PROVE  UnreadIn(c, Len(data)) = UnreadIn(b, 0) \o data
    <2>1. c.wpos = b.wpos /\ c.rpos = b.rpos /\ c.storage = Stored(b.storage, b.wpos, data)
      BY <1>3, StoredProperties
    <2>2. UnreadIn(c, Len(data)) = Content(Fill(b, data))
      BY <2>1 DEF UnreadIn, Content, Fill
    <2>3. QED  BY <1>1, <1>3, <2>2, FillProperties
  <1>4. QED  BY <1>1, <1>2, <1>3, Zenon

\* A step of the stream received, in which only msg_fn_ takes bytes.
RecvSide == /\ [In!Next]_<<Unread, open>>
            /\ pc = "msg_fn" \/ Kept(Unread, Unread')

\* Steps that leave the received bytes alone, and perhaps close the socket.
LEMMA RecvSideQuiet ==
    ASSUME recv_buffer_' = recv_buffer_, read'.n = read.n, open' = open \/ open' = FALSE
    PROVE  RecvSide
  <1>1. Unread' = Unread
    BY DEF Unread
  <1>2. QED  BY <1>1 DEF In!Next, In!Shut, RecvSide, Kept

\* Every step of a connection is a step of the stream it receives, or none.
LEMMA RecvStreamStep == IndInv /\ [Next]_vars => RecvSide
  <1> SUFFICES ASSUME IndInv, [Next]_vars PROVE RecvSide
    OBVIOUS
  <1> USE IndFacts
  <1>1. ASSUME NEW data \in Payloads, BytesArrive(data)  PROVE RecvSide
    <2>1. /\ read.st = "pending" /\ read.at = recv_buffer_ /\ data \in Seq(Byte) /\ open
          /\ Len(data) <= ValidSize(recv_buffer_) /\ read.n = 0 /\ read'.n = Len(data)
      BY <1>1, PayloadAssumption, SizeProperties DEF BytesArrive, IndInv, ReadFor, Done
    <2>2. /\ open' = open
          /\ recv_buffer_' = [recv_buffer_ EXCEPT !.storage = Stored(@, recv_buffer_.wpos, data)]
      BY <1>1, <2>1 DEF BytesArrive
    <2>3. UnreadIn(recv_buffer_', Len(data)) = UnreadIn(recv_buffer_, 0) \o data
      BY <2>1, <2>2, UnreadProperties
    <2>4. Unread' = Unread \o data
      BY <2>1, <2>3, UnreadFacts
    <2>5. Kept(Unread, Unread')
      BY <2>1, <2>4, Zenon DEF Kept
    <2>6. In!Next
      BY <1>1, <2>1, <2>2, <2>4 DEF In!Next, In!Put
    <2>7. QED  BY <2>5, <2>6 DEF RecvSide
  <1>2. CASE HandleRead
    <2>1. CASE read.err
      <3>1. recv_buffer_' = recv_buffer_
        BY <1>2, <2>1 DEF HandleRead
      <3>2. open' = FALSE /\ read'.n = read.n
        BY <1>2, <2>1, ClosingSteps, NoOpProperties, UnreadFacts DEF Settled
      <3>3. QED  BY <3>1, <3>2, RecvSideQuiet
    <2>2. CASE ~read.err
      <3>1. /\ recv_buffer_' = WriteBytes(recv_buffer_, read.n) /\ read'.n = 0 /\ open' = open
        BY <1>2, <2>2, NoOpProperties DEF HandleRead
      <3>2. UnreadIn(recv_buffer_', 0) = UnreadIn(recv_buffer_, read.n)
        BY <3>1, UnreadFacts, UnreadProperties
      <3>3. Unread' = Unread
        BY <3>1, <3>2, UnreadFacts
      <3>4. QED  BY <3>1, <3>3 DEF RecvSide, Kept
    <2>3. QED  BY <2>1, <2>2
  <1>3. CASE MsgReturns
    <2>1. PICK c \in MsgResults(recv_buffer_) : AsyncRead(c, queue)
      BY <1>3 DEF MsgReturns
    <2>2. pc = "msg_fn" /\ open' = open /\ read.n = 0
      BY <1>3, UnreadFacts DEF MsgReturns, IndInv, OneRead
    <2>3. c \in Buffer /\ InBounds(c)
      BY <2>1, MsgResultsProperties
    <2>4. recv_buffer_' = c /\ read'.n = 0
      BY <2>1, <2>3, SizeProperties, StartedProperties DEF AsyncRead
    <2>5. PICK n \in 0 .. Size(recv_buffer_) : Content(c) = Content(ReadBytes(recv_buffer_, n))
      BY <2>1, MsgResultsProperties
    <2>6. Unread = Content(recv_buffer_) /\ Unread' = Content(c)
      BY <2>2, <2>3, <2>4, UnreadFacts, UnreadProperties
    <2>7. /\ Len(Content(recv_buffer_)) = Size(recv_buffer_)
          /\ Content(ReadBytes(recv_buffer_, n)) =
                SubSeq(Content(recv_buffer_), n + 1, Len(Content(recv_buffer_)))
      BY ContentProperties, ReadBytesProperties
    <2>8. n \in 0 .. Len(Unread) /\ Unread' = SubSeq(Unread, n + 1, Len(Unread))
      BY ONLY <2>5, <2>6, <2>7, Zenon
    <2>9. In!Next
      BY <2>2, <2>8, Zenon DEF In!Next, In!Get
    <2>10. QED  BY <2>2, <2>9 DEF RecvSide
  <1>4. CASE AttachReturns
    <2>1. AsyncRead(recv_buffer_, queue) /\ read.n = 0 /\ open' = open
      BY <1>4, UnreadFacts DEF AttachReturns, IndInv, OneRead
    <2>2. recv_buffer_' = recv_buffer_ /\ read'.n = 0
      BY <2>1, SizeProperties, StartedProperties DEF AsyncRead
    <2>3. QED  BY <2>1, <2>2, RecvSideQuiet
  <1>5. CASE RunClose
    <2>1. recv_buffer_' = recv_buffer_ /\ open' = FALSE /\ read'.n = read.n
      BY <1>5, ClosingSteps DEF RunClose, Settled
    <2>2. QED  BY <2>1, RecvSideQuiet
  <1>6. CASE HandleWrite
    <2>1. CASE write.err
      <3>1. recv_buffer_' = recv_buffer_ /\ open' = FALSE /\ read'.n = read.n
        BY <1>6, <2>1, ClosingSteps DEF HandleWrite, Settled
      <3>2. QED  BY <3>1, RecvSideQuiet
    <2>2. CASE ~write.err
      BY <1>6, <2>2, RecvSideQuiet DEF HandleWrite, recvVars
    <2>3. QED  BY <2>1, <2>2
  <1>7. CASE ReadFails
    <2>1. read'.n = read.n
      BY <1>7, UnreadFacts DEF ReadFails, Done
    <2>2. QED  BY <1>7, <2>1, RecvSideQuiet DEF ReadFails
  <1>8. ASSUME UNCHANGED <<recvVars, open>>  PROVE RecvSide
    BY <1>8, RecvSideQuiet DEF recvVars
  <1>9. CASE SendStringInLoop \/ HighWaterReturns \/ DownReturns \/ OnAttachedToLoop
    BY <1>8, <1>9 DEF SendStringInLoop, HighWaterReturns, DownReturns, OnAttachedToLoop
  <1>10. ASSUME NEW data \in Payloads, SendFromThread(data) \/ SendFromCallback(data)
         PROVE  RecvSide
    BY <1>8, <1>10 DEF SendFromThread, SendFromCallback
  <1>11. CASE TakeSome \/ WriteFails \/ PeerGone \/ Close
    BY <1>8, <1>11 DEF TakeSome, BytesTaken, WriteFails, PeerGone, Close
  <1>12. CASE UNCHANGED vars
    BY <1>8, <1>12 DEF vars
  <1>13. QED
    BY <1>1, <1>2, <1>3, <1>4, <1>5, <1>6, <1>7, <1>9, <1>10, <1>11, <1>12
       DEF Next, Loop, Kernel, Application

\* Bytes that are kept are not fewer.
LEMMA KeptLonger ==
    ASSUME NEW x \in Seq(Byte), NEW y, Kept(x, y)
    PROVE  ~(Len(y) < Len(x))
  <1>1. Len(x) \in Nat /\ \A d \in Seq(Byte) : Len(d) \in Nat
    BY LenProperties
  <1>2. CASE y = x
    BY <1>1, <1>2
  <1>3. ASSUME NEW d \in Seq(Byte), y = x \o d  PROVE ~(Len(y) < Len(x))
    BY <1>1, <1>3, ConcatFacts
  <1>4. QED  BY <1>2, <1>3 DEF Kept

\* No step drops a byte in either direction.
LEMMA NoneDropped == IndInv /\ [Next]_vars => ~Dropped
  <1> SUFFICES ASSUME IndInv, [Next]_vars PROVE ~Dropped
    OBVIOUS
  <1>1. pc = "msg_fn" \/ ~(Len(Unread') < Len(Unread))
    BY RecvStreamStep, UnreadFacts, KeptLonger DEF RecvSide
  <1>2. TakeSome => write.st = "pending" /\ write'.st = "done"
    BY DEF TakeSome, BytesTaken, Done
  <1>3. Unsent \in Seq(Byte)
    <2>1. /\ writing_buffer_ \in Buffer /\ InBounds(writing_buffer_)
          /\ write_buffer_ \in Buffer /\ InBounds(write_buffer_)
      BY IndFacts
    <2> DEFINE t == Content(ReadBytes(writing_buffer_, write.n))
    <2>2. Unsent = t \o Content(write_buffer_) /\ t \in Seq(Byte)
      BY <2>1, UnsentFacts, UnsentProperties, ContentProperties
    <2>3. Content(write_buffer_) \in Seq(Byte)
      BY <2>1, ContentProperties
    <2>4. QED  BY <2>2, <2>3, ConcatFacts
  <1>4. TakeSome \/ ~(Len(Unsent') < Len(Unsent))
    BY <1>3, SendStreamStep, KeptLonger DEF SendSide
  <1>5. QED  BY <1>1, <1>2, <1>4 DEF Dropped

(* The message callback gets the bytes that arrived, each once and in      *)
(* order, whatever part of the buffer it consumes at a time; and no error, *)
(* close, swap or growth drops a byte in either direction.                 *)
THEOREM ReceiveTheorem == Spec => ReceivesStream
  <1>1. Init => In!Init
    <2> SUFFICES ASSUME Init PROVE Unread = <<>> /\ open = TRUE
      BY DEF In!Init
    <2>1. IndInv
      BY InitInv
    <2>2. Unread = Content(recv_buffer_)
      BY <2>1, IndFacts, UnreadFacts, UnreadProperties, NoOpProperties DEF Init
    <2>3. QED  BY <2>2, NewBufferProperties, CapAssumption DEF Init
  <1>2. IndInv /\ [Next]_vars => [In!Next]_<<Unread, open>>
    BY RecvStreamStep DEF RecvSide
  <1>3. IndInv /\ [Next]_vars => [~Dropped]_vars
    BY NoneDropped
  <1>4. QED
    BY <1>1, <1>2, <1>3, Invariance, PTL DEF Spec, ReceivesStream, In!Spec

-----------------------------------------------------------------------------
(* How often conn_fn_ hears of the end, and what ~TCPConn finds.           *)

\* The attachment is waiting in p if and only if it is in q.
SameAttach(p, q) == Has(p, "attach") <=> Has(q, "attach")

\* Taking or posting any other handler leaves the attachment where it is.
LEMMA SameAttachProperties ==
    ASSUME NEW q \in Seq(Task)
    PROVE  /\ q # <<>> /\ Head(q).kind # "attach" => Tail(q) \in Seq(Task) /\ SameAttach(Tail(q), q)
           /\ \A t \in Task : t.kind # "attach" =>
                 Append(q, t) \in Seq(Task) /\ SameAttach(Append(q, t), q)
           /\ \A kind \in {"read", "write"} : \A op : SameAttach(Posted(q, kind, op), q)
  <1>1. ASSUME q # <<>>, Head(q).kind # "attach"
        PROVE  Tail(q) \in Seq(Task) /\ SameAttach(Tail(q), q)
    <2>1. /\ Tail(q) \in Seq(Task) /\ Head(q) = q[1]
          /\ Len(q) \in Nat /\ Len(q) > 0
          /\ DOMAIN q = 1 .. Len(q) /\ DOMAIN Tail(q) = 1 .. Len(q) - 1
          /\ \A i \in 1 .. Len(q) - 1 : Tail(q)[i] = q[i + 1]
      BY <1>1
    <2>2. ASSUME NEW i \in 1 .. Len(q), q[i].kind = "attach"
          PROVE  Has(Tail(q), "attach")
      <3>1. i # 1 /\ i - 1 \in 1 .. Len(q) - 1 /\ (i - 1) + 1 = i
        BY <1>1, <2>1, <2>2
      <3>2. QED  BY <2>1, <2>2, <3>1 DEF Has
    <2>3. Has(q, "attach") => Has(Tail(q), "attach")
      BY <2>1, <2>2 DEF Has
    <2>4. QED  BY <1>1, <2>1, <2>3, TailTask DEF SameAttach
  <1>2. ASSUME NEW t \in Task, t.kind # "attach"
        PROVE  Append(q, t) \in Seq(Task) /\ SameAttach(Append(q, t), q)
    BY <1>2, AppendTask DEF SameAttach
  <1>3. ASSUME NEW kind \in {"read", "write"}, NEW op
        PROVE  SameAttach(Posted(q, kind, op), q)
    <2>1. Handler(kind) \in Task /\ Handler(kind).kind = kind
      BY HandlerProperties DEF Kinds
    <2>2. QED  BY <1>2, <2>1 DEF Posted, SameAttach
  <1>4. QED  BY <1>1, <1>2, <1>3

\* Closing the socket and HandleClose post completion handlers only.
LEMMA ClosingAttach ==
    ASSUME NEW r, NEW w
    PROVE  /\ \A q \in Seq(Task) : CloseSocket(r, w, q) => SameAttach(queue', q)
           /\ Tail(queue) \in Seq(Task) /\ HandleClose("kDisconnecting", r, w) =>
                 SameAttach(queue', Tail(queue))
  <1>0. /\ Handler("read") \in Task /\ Handler("read").kind = "read"
        /\ Handler("write") \in Task /\ Handler("write").kind = "write"
    BY HandlerProperties DEF Kinds
  <1>1. ASSUME NEW q \in Seq(Task), CloseSocket(r, w, q)  PROVE SameAttach(queue', q)
    <2> DEFINE R(x) == IF r.st = "pending" THEN Append(x, Handler("read")) ELSE x
               W(x) == IF w.st = "pending" THEN Append(x, Handler("write")) ELSE x
    <2>1. queue' \in {W(R(q)), R(W(q))}
      BY <1>1 DEF CloseSocket
    <2>2. ASSUME NEW x \in Seq(Task)
          PROVE  /\ R(x) \in Seq(Task) /\ SameAttach(R(x), x)
                 /\ W(x) \in Seq(Task) /\ SameAttach(W(x), x)
      BY <1>0, SameAttachProperties DEF SameAttach
    <2> HIDE DEF R, W
    <2>3. QED  BY <2>1, <2>2 DEF SameAttach
  <1>2. ASSUME Tail(queue) \in Seq(Task), HandleClose("kDisconnecting", r, w)
        PROVE  SameAttach(queue', Tail(queue))
    <2>1. CASE open
      BY <1>1, <1>2, <2>1 DEF HandleClose
    <2>2. CASE ~open
      BY <1>2, <2>2 DEF HandleClose, SameAttach
    <2>3. QED  BY <2>1, <2>2
  <1>3. QED  BY <1>1, <1>2

\* So do SendInLoop and the calls it makes.
LEMMA SendAttach ==
    ASSUME NEW q \in Seq(Task)
    PROVE  /\ \A b : AsyncWrite(b, q) => SameAttach(queue', q)
           /\ \A b : AsyncRead(b, q) => SameAttach(queue', q)
           /\ \A data : SendInLoop(data, q) => SameAttach(queue', q)
  <1>1. ASSUME NEW b, AsyncWrite(b, q)  PROVE SameAttach(queue', q)
    <2>1. queue' = q \/ queue' = Posted(q, "write", Started(b, Size(b)))
      BY <1>1 DEF AsyncWrite
    <2>2. QED  BY <2>1, SameAttachProperties DEF SameAttach
  <1>2. ASSUME NEW b, AsyncRead(b, q)  PROVE SameAttach(queue', q)
    <2>1. queue' = Posted(q, "read", Started(b, ValidSize(b)))
      BY <1>2 DEF AsyncRead
    <2>2. QED  BY <2>1, SameAttachProperties
  <1>3. ASSUME NEW data, SendInLoop(data, q)  PROVE SameAttach(queue', q)
    <2>1. \/ queue' = q
          \/ AsyncWrite(Write(write_buffer_, data), q)
          \/ AsyncWrite(Write(writing_buffer_, data), q)
      BY <1>3 DEF SendInLoop
    <2>2. QED  BY <1>1, <2>1 DEF SameAttach
  <1>4. QED  BY <1>1, <1>2, <1>3

\* Only OnAttachedToLoop takes the attachment out of the queue.
LEMMA AttachStays ==
    ASSUME IndInv, [Next]_vars, ~OnAttachedToLoop
    PROVE  SameAttach(queue', queue)
  <1>0. queue \in Seq(Task)
    BY IndFacts
  <1>1. ASSUME NEW kind, Runs(kind), kind # "attach"
        PROVE  Tail(queue) \in Seq(Task) /\ SameAttach(Tail(queue), queue)
    BY <1>0, <1>1, SameAttachProperties DEF Runs
  <1>2. CASE SendStringInLoop
    <2>1. Runs("send") /\ SendInLoop(Head(queue).data, Tail(queue))
      BY <1>2 DEF SendStringInLoop
    <2>2. QED  BY <1>1, <2>1, SendAttach DEF SameAttach
  <1>3. CASE RunClose
    <2>1. Runs("close") /\ (CloseSocket(read, write, Tail(queue)) \/ queue' = Tail(queue))
      BY <1>3 DEF RunClose
    <2>2. QED  BY <1>1, <2>1, ClosingAttach DEF SameAttach
  <1>4. CASE HandleRead
    <2>1. Runs("read") /\ (HandleClose("kDisconnecting", NoOp, write) \/ queue' = Tail(queue))
      BY <1>4 DEF HandleRead
    <2>2. QED  BY <1>1, <2>1, ClosingAttach DEF SameAttach
  <1>5. CASE HandleWrite
    <2>1. /\ Runs("write")
          /\ HandleClose("kDisconnecting", read, NoOp) \/ \E b : AsyncWrite(b, Tail(queue))
      BY <1>5 DEF HandleWrite
    <2>2. QED  BY <1>1, <2>1, ClosingAttach, SendAttach DEF SameAttach
  <1>6. CASE AttachReturns \/ MsgReturns
    BY <1>0, <1>6, SendAttach DEF AttachReturns, MsgReturns
  <1>7. ASSUME NEW data \in Payloads, SendFromThread(data) \/ SendFromCallback(data) \/ BytesArrive(data)
        PROVE  SameAttach(queue', queue)
    <2>1. /\ SendTask(data) \in Task /\ SendTask(data).kind = "send"
          /\ Handler("read") \in Task /\ Handler("read").kind = "read"
      BY HandlerProperties DEF SendTask, Task, Kinds
    <2>2. \/ queue' = Append(queue, SendTask(data)) \/ queue' = Append(queue, Handler("read"))
          \/ SendInLoop(data, queue)
      BY <1>7 DEF SendFromThread, SendFromCallback, BytesArrive
    <2>3. QED  BY <1>0, <2>1, <2>2, SameAttachProperties, SendAttach
  <1>8. CASE TakeSome \/ WriteFails \/ ReadFails \/ Close
    <2>1. \A kind \in {"read", "write", "close"} :
             Handler(kind) \in Task /\ Handler(kind).kind = kind
      BY HandlerProperties DEF Kinds
    <2>2. \E kind \in {"read", "write", "close"} : queue' = Append(queue, Handler(kind))
      BY <1>8 DEF TakeSome, BytesTaken, WriteFails, ReadFails, Close
    <2>3. QED  BY <1>0, <2>1, <2>2, SameAttachProperties
  <1>9. CASE HighWaterReturns \/ DownReturns \/ PeerGone \/ UNCHANGED vars
    BY <1>9 DEF HighWaterReturns, DownReturns, PeerGone, vars, SameAttach
  <1>10. QED
    BY <1>2, <1>3, <1>4, <1>5, <1>6, <1>7, <1>8, <1>9 DEF Next, Loop, Kernel, Application

-----------------------------------------------------------------------------
\* No read is in progress, and none will ever be started again.
ReadOver == /\ read.st = "none" /\ pc \notin {"attach_fn", "msg_fn"}
            /\ ~Has(queue, "attach")

\* The same for writes: none starts on a closed socket.
WriteOver == write.st = "none" /\ ~open

\* conn_fn_ has been called once for each direction that is over by failing.
DownsInv ==
    /\ downs \in 0 .. 2
    /\ downs >= 1 => ~open /\ (ReadOver \/ WriteOver)
    /\ downs = 2 => ReadOver /\ WriteOver
    /\ downs = 0 => ~ReadOver
    /\ pc = "down_fn" \/ ~owned => downs >= 1

\* Until a read or write fails, the directions stay as they are.
LEMMA QuietStep ==
    ASSUME DownsInv, downs' = downs, ReadOver' <=> ReadOver, WriteOver => WriteOver',
           downs >= 1 => ~open',
           pc' = "down_fn" => pc = "down_fn", owned' = owned \/ downs >= 1
    PROVE  DownsInv'
  BY DEF DownsInv

Fails == (HandleRead /\ read.err) \/ (HandleWrite /\ write.err)

\* A failed read or write ends its direction and calls conn_fn_.
LEMMA FailingStep ==
    ASSUME IndInv, DownsInv,
           Fails
    PROVE  /\ pc' = "down_fn"
           /\ DownsInv'
  <1> USE IndFacts
  <1>0. downs \in 0 .. 2 /\ [Next]_vars
    BY DEF DownsInv, Next, Loop, Fails
  <1>1. CASE HandleRead /\ read.err
    <2>1. /\ QueueFor(Tail(queue), NoOp, write) /\ read.st = "done" /\ ~Has(queue, "attach")
          /\ pc = "idle"
      BY <1>1, RunStep, ForgetOperation DEF HandleRead, IndInv, QueueFor, OneRead
    <2>2. HandleClose("kDisconnecting", NoOp, write) /\ owned' = owned
      BY <1>1 DEF HandleRead
    <2>3. /\ open' = FALSE /\ pc' = "down_fn" /\ downs' = downs + 1
          /\ Settled(NoOp, read') /\ Settled(write, write')
      BY <2>1, <2>2, HandleCloseStep, NoOpProperties DEF IndInv, WriteFor
    <2>4. SameAttach(queue', queue)
      BY <1>0, <1>1, <2>3, AttachStays DEF OnAttachedToLoop
    <2>5. ReadOver' /\ ~ReadOver /\ (WriteOver => WriteOver')
      BY <2>1, <2>3, <2>4, NoOpProperties DEF ReadOver, WriteOver, Settled, SameAttach
    <2>6. QED  BY <1>0, <2>2, <2>3, <2>5 DEF DownsInv
  <1>2. CASE HandleWrite /\ write.err
    <2>1. QueueFor(Tail(queue), read, NoOp) /\ write.st = "done" /\ pc = "idle"
      BY <1>2, RunStep, ForgetOperation DEF HandleWrite, IndInv, QueueFor
    <2>2. HandleClose("kDisconnecting", read, NoOp) /\ owned' = owned
      BY <1>2 DEF HandleWrite
    <2>3. /\ open' = FALSE /\ pc' = "down_fn" /\ downs' = downs + 1
          /\ Settled(read, read') /\ Settled(NoOp, write')
      BY <2>1, <2>2, HandleCloseStep, NoOpProperties DEF IndInv, ReadFor
    <2>4. SameAttach(queue', queue)
      BY <1>0, <1>2, <2>3, AttachStays DEF OnAttachedToLoop
    <2>5. WriteOver' /\ ~WriteOver /\ (ReadOver => ReadOver')
      BY <2>1, <2>3, <2>4, NoOpProperties DEF ReadOver, WriteOver, Settled, SameAttach
    <2>6. QED  BY <1>0, <2>2, <2>3, <2>5 DEF DownsInv
  <1>3. QED  BY <1>1, <1>2 DEF Fails

\* Every other step is quiet, and calls no conn_fn_.
LEMMA OtherSteps ==
    ASSUME IndInv, DownsInv, [Next]_vars,
           ~Fails
    PROVE  /\ downs' = downs /\ (ReadOver' <=> ReadOver) /\ (WriteOver => WriteOver')
           /\ open' => open
           /\ open' = open \/ (pc = "idle" /\ pc' = "idle")
           /\ pc' = "down_fn" => pc = "down_fn"
           /\ owned' = owned \/ downs >= 1
           /\ pc' = "high_water_fn" => pc = "high_water_fn" \/ open
           /\ UNCHANGED <<status_, late>> \/ Close \/ ~ReadOver \/ pc = "down_fn"
           /\ pc = "down_fn" /\ pc' # "down_fn" => status_' = "kDisconnected" /\ ~late'
  <1> DEFINE Quiet ==
        /\ downs' = downs /\ (ReadOver' <=> ReadOver) /\ (WriteOver => WriteOver')
        /\ open' => open
        /\ open' = open \/ (pc = "idle" /\ pc' = "idle")
        /\ pc' = "down_fn" => pc = "down_fn"
        /\ owned' = owned \/ downs >= 1
        /\ pc' = "high_water_fn" => pc = "high_water_fn" \/ open
        /\ UNCHANGED <<status_, late>> \/ Close \/ ~ReadOver \/ pc = "down_fn"
        /\ pc = "down_fn" /\ pc' # "down_fn" => status_' = "kDisconnected" /\ ~late'
  <1> SUFFICES Quiet
    OBVIOUS
  <1> USE IndFacts
  <1>1. CASE OnAttachedToLoop
    <2>1. /\ read.st = "none" /\ Has(queue, "attach") /\ pc = "idle"
      BY <1>1, RunStep DEF OnAttachedToLoop, IndInv, OneRead
    <2>2. UNCHANGED <<open, sendVars, recvVars, owned, downs>> /\ pc' = "attach_fn"
      BY <1>1 DEF OnAttachedToLoop
    <2>3. ~ReadOver /\ ~ReadOver'
      BY <2>1, <2>2 DEF ReadOver
    <2>4. QED  BY <2>1, <2>2, <2>3 DEF sendVars, WriteOver
  <1> SUFFICES ASSUME ~OnAttachedToLoop PROVE Quiet
    BY <1>1
  <1>0. SameAttach(queue', queue)
    BY AttachStays
  <1>2. CASE SendStringInLoop \/ \E data \in Payloads : SendFromCallback(data)
    <2>1. /\ UNCHANGED <<status_, late, open, recvVars, owned, downs>>
          /\ \E data, q : SendInLoop(data, q)
          /\ pc' = pc \/ (pc = "idle" /\ (pc' = "idle" \/ (pc' = "high_water_fn" /\ open)))
      BY <1>2 DEF SendStringInLoop, SendFromCallback, Runs, env
    <2>2. ~open => UNCHANGED sendVars
      BY <2>1 DEF SendInLoop
    <2>3. ReadOver' <=> ReadOver
      BY <1>0, <2>1 DEF ReadOver, SameAttach, recvVars
    <2>4. WriteOver => WriteOver'
      BY <2>1, <2>2 DEF WriteOver, sendVars
    <2>5. QED  BY <2>1, <2>3, <2>4
  <1>3. CASE RunClose
    <2>1. /\ UNCHANGED <<status_, late, pc, owned, downs>> /\ pc = "idle"
          /\ open' = FALSE /\ Settled(read, read') /\ Settled(write, write')
      BY <1>3, ClosingSteps DEF RunClose, Runs, env
    <2>2. (ReadOver' <=> ReadOver) /\ (WriteOver => WriteOver')
      BY <1>0, <2>1 DEF ReadOver, WriteOver, SameAttach, Settled
    <2>3. QED  BY <2>1, <2>2
  <1>4. CASE HandleRead /\ ~read.err
    <2>1. read.st = "done" /\ pc = "idle"
      BY <1>4, RunStep DEF HandleRead, IndInv, QueueFor
    <2>2. UNCHANGED <<status_, late, open, write, downs, owned>> /\ pc' = "msg_fn"
      BY <1>4 DEF HandleRead, env
    <2>3. ~ReadOver /\ ~ReadOver' /\ (WriteOver => WriteOver')
      BY <2>1, <2>2 DEF ReadOver, WriteOver
    <2>4. QED  BY <2>1, <2>2, <2>3
  <1>5. CASE HandleWrite /\ ~write.err
    <2>1. write.st = "done"
      BY <1>5, RunStep DEF HandleWrite, IndInv, QueueFor
    <2>2. UNCHANGED <<status_, late, open, recvVars, pc, downs, owned>>
      BY <1>5 DEF HandleWrite, env
    <2>3. (ReadOver' <=> ReadOver) /\ ~WriteOver
      BY <1>0, <2>1, <2>2 DEF ReadOver, WriteOver, SameAttach, recvVars
    <2>4. QED  BY <2>2, <2>3
  <1>6. CASE AttachReturns \/ MsgReturns
    <2>1. PICK b \in Buffer : InBounds(b) /\ AsyncRead(b, queue)
      BY <1>6, MsgResultsProperties DEF AttachReturns, MsgReturns
    <2>2. /\ UNCHANGED <<status_, late, open, sendVars, owned, downs>>
          /\ pc \in {"attach_fn", "msg_fn"} /\ pc' = "idle"
      BY <1>6 DEF AttachReturns, MsgReturns, env
    <2>3. read'.st # "none"
      BY <2>1, SizeProperties, StartedProperties DEF AsyncRead
    <2>4. ~ReadOver /\ ~ReadOver' /\ (WriteOver => WriteOver')
      BY <2>2, <2>3 DEF ReadOver, WriteOver, sendVars
    <2>5. QED  BY <2>2, <2>4
  <1>7. CASE HighWaterReturns \/ DownReturns
    <2>1. /\ UNCHANGED <<open, sendVars, recvVars, queue, downs>>
          /\ pc \in {"high_water_fn", "down_fn"} /\ pc' = "idle"
      BY <1>7 DEF HighWaterReturns, DownReturns
    <2>2. (ReadOver' <=> ReadOver) /\ (WriteOver => WriteOver')
      BY <2>1 DEF ReadOver, WriteOver, sendVars, recvVars
    <2>3. HighWaterReturns => UNCHANGED <<status_, late>> /\ owned' = owned /\ pc = "high_water_fn"
      BY DEF HighWaterReturns, env
    <2>4. DownReturns => status_' = "kDisconnected" /\ ~late' /\ pc = "down_fn" /\ downs >= 1
      BY DEF DownReturns, DownsInv
    <2>5. QED  BY <1>7, <2>1, <2>2, <2>3, <2>4
  <1>8. CASE ReadFails \/ \E data \in Payloads : BytesArrive(data)
    <2>1. /\ UNCHANGED <<status_, late, open, sendVars, pc, owned, downs>>
          /\ read.st = "pending" /\ read'.st = "done"
      BY <1>8 DEF ReadFails, BytesArrive, Done, env
    <2>2. ~ReadOver /\ ~ReadOver' /\ (WriteOver => WriteOver')
      BY <2>1 DEF ReadOver, WriteOver, sendVars
    <2>3. QED  BY <2>1, <2>2
  <1>9. CASE TakeSome \/ WriteFails
    <2>1. UNCHANGED <<status_, late, open, recvVars, pc, owned, downs>> /\ write.st = "pending"
      BY <1>9 DEF TakeSome, BytesTaken, WriteFails, env
    <2>2. (ReadOver' <=> ReadOver) /\ ~WriteOver
      BY <1>0, <2>1 DEF ReadOver, WriteOver, SameAttach, recvVars
    <2>3. QED  BY <2>1, <2>2
  <1>10. CASE \/ PeerGone \/ Close \/ UNCHANGED vars
              \/ \E data \in Payloads : SendFromThread(data)
    <2>1. UNCHANGED <<open, sendVars, recvVars, pc, owned, downs>> /\ (UNCHANGED <<status_, late>> \/ Close)
      BY <1>10 DEF PeerGone, Close, vars, env, SendFromThread
    <2>2. (ReadOver' <=> ReadOver) /\ (WriteOver => WriteOver')
      BY <1>0, <2>1 DEF ReadOver, WriteOver, SameAttach, sendVars, recvVars
    <2>3. QED  BY <2>1, <2>2
  <1>11. QED
    BY <1>2, <1>3, <1>4, <1>5, <1>6, <1>7, <1>8, <1>9, <1>10
       DEF Next, Loop, Kernel, Application, Fails

\* The invariant is inductive.
LEMMA DownsStep == IndInv /\ DownsInv /\ [Next]_vars => DownsInv'
  <1> SUFFICES ASSUME IndInv, DownsInv, [Next]_vars PROVE DownsInv'
    OBVIOUS
  <1>1. CASE Fails
    BY <1>1, FailingStep
  <1>2. CASE ~Fails
    <2>1. downs >= 1 => ~open
      BY DEF DownsInv
    <2>2. QED  BY <1>2, <2>1, OtherSteps, QuietStep
  <1>3. QED  BY <1>1, <1>2

\* The attachment is the first handler a connection waits for.
LEMMA InitDowns == Init => DownsInv
  <1> SUFFICES ASSUME Init PROVE DownsInv
    OBVIOUS
  <1>1. queue = <<Handler("attach")>> /\ queue[1] = Handler("attach") /\ 1 \in DOMAIN queue
    BY DEF Init
  <1>2. Has(queue, "attach")
    BY <1>1 DEF Has, Handler
  <1>3. QED  BY <1>2 DEF Init, DownsInv, ReadOver

\* DownsInv holds in every reachable state.
LEMMA DownsInvariance == Spec => []DownsInv
  BY InitDowns, DownsStep, Invariance, PTL DEF Spec

(* The application hears of the end of a connection at most twice, once    *)
(* from HandleRead and once from HandleWrite, and after the second time    *)
(* no operation is outstanding and no message callback runs: for every     *)
(* order of closes, errors, sends and completions.                         *)
THEOREM NotifiedTheorem == Spec => []NotifiedAtMostTwice
  <1>1. DownsInv => NotifiedAtMostTwice
    BY DEF DownsInv, NotifiedAtMostTwice, ReadOver, WriteOver
  <1>2. QED  BY <1>1, DownsInvariance, PTL

-----------------------------------------------------------------------------
\* Once nothing more is read, only the callback for the end itself, and a
\* Close that comes after it, leave a status other than kDisconnected.
StatusInv ==
    ReadOver /\ pc # "down_fn" =>
        status_ = (IF late THEN "kDisconnecting" ELSE "kDisconnected")

\* Every step keeps it: a failure calls conn_fn_, DownReturns clears late, and
\* a Close that finds the connection kDisconnected sets it.
LEMMA StatusStep ==
    ASSUME IndInv, DownsInv, StatusInv, [Next]_vars
    PROVE  StatusInv'
  <1>1. CASE Fails
    BY <1>1, FailingStep DEF StatusInv
  <1>2. CASE ~Fails
    <2>1. /\ downs' = downs /\ (ReadOver' <=> ReadOver)
          /\ pc' = "down_fn" => pc = "down_fn"
          /\ UNCHANGED <<status_, late>> \/ Close \/ ~ReadOver \/ pc = "down_fn"
          /\ pc = "down_fn" /\ pc' # "down_fn" => status_' = "kDisconnected" /\ ~late'
      BY <1>2, OtherSteps
    <2>2. ASSUME ReadOver, pc # "down_fn"
          PROVE  status_' = (IF late' THEN "kDisconnecting" ELSE "kDisconnected")
      <3>1. status_ = (IF late THEN "kDisconnecting" ELSE "kDisconnected")
        BY <2>2 DEF StatusInv
      <3>2. late \in BOOLEAN /\ downs > 0
        BY <2>2 DEF IndInv, TypeOK, DownsInv
      <3>3. CASE Close  BY <3>1, <3>2, <3>3 DEF Close
      <3>4. CASE UNCHANGED <<status_, late>>  BY <3>1, <3>4
      <3>5. QED  BY <2>1, <2>2, <3>3, <3>4
    <2>3. QED  BY <2>1, <2>2 DEF StatusInv
  <1>3. QED  BY <1>1, <1>2

(* When the library drops its last reference to a connection, ~TCPConn     *)
(* finds its socket closed, and finds it kDisconnected unless Close was    *)
(* called after the last report of its end; nobody is kept from calling    *)
(* Close then, TCPServer::StopInLoop included.                             *)
THEOREM DtorTheorem == Spec => []DtorSafe
  <1>1. Init => StatusInv
    <2> SUFFICES ASSUME Init PROVE StatusInv
      OBVIOUS
    <2>1. DownsInv
      BY InitDowns
    <2>2. QED  BY <2>1 DEF Init, StatusInv, DownsInv
  <1>2. IndInv /\ DownsInv /\ StatusInv /\ [Next]_vars => StatusInv'
    BY StatusStep
  <1>3. DownsInv /\ StatusInv => DtorSafe
    <2> SUFFICES ASSUME DownsInv, StatusInv, ~Referenced
                 PROVE  Ended
      BY DEF DtorSafe
    <2>1. /\ queue = <<>> /\ pc = "idle" /\ read.st = "none" /\ ~owned
      BY DEF Referenced
    <2>2. ReadOver
      BY <2>1 DEF ReadOver, Has
    <2>3. QED  BY <2>1, <2>2 DEF StatusInv, DownsInv, Ended
  <1>4. QED  BY <1>1, <1>2, <1>3, Invariance, DownsInvariance, PTL DEF Spec
=============================================================================
