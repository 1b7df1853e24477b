---------------------------- MODULE ByteBuffers -----------------------------
(***************************************************************************)
(* A state machine over named byte buffers: every operation of             *)
(* bytebuffer.h, called within the contract its callers keep (never read   *)
(* past wpos_, never shrink below wpos_, never store past ValidSize()).    *)
(***************************************************************************)
EXTENDS ByteBuffer

CONSTANTS Names,        \* the buffers
          InitSizes,    \* the sizes buffers are constructed with
          MaxCapacity   \* bound: operations that would grow beyond it are cut

ASSUME SizeAssumption == InitSizes \subseteq Nat /\ MaxCapacity \in Nat

VARIABLES buf,
          call    \* history: the latest call, and the bytes it took or handed out

buffers == <<buf, call>>

Nothing == [op |-> "none", on |-> <<>>, data |-> <<>>, turn |-> 0]
Called(op, on, data) ==
    call' = [op |-> op, on |-> on, data |-> data, turn |-> 1 - call.turn]

BuffersInit == buf \in [Names -> {NewBuffer(n) : n \in InitSizes}] /\ call = Nothing

\* Replace buffer x, within the bound.
Set(x, b) == /\ Capacity(b) <= MaxCapacity
             /\ buf' = [buf EXCEPT ![x] = b]

DoWrite(x)     == \E data \in Payloads :
                     Set(x, Write(buf[x], data)) /\ Called("put", <<x>>, data)
DoFill(x)      == \E data \in Payloads :
                     /\ Len(data) <= ValidSize(buf[x])
                     /\ Set(x, Fill(buf[x], data)) /\ Called("put", <<x>>, data)
\* The reader takes n bytes from ReadBegin() on and accounts for them.
DoRead(x)      == \E n \in 0 .. Size(buf[x]) :
                     /\ Set(x, ReadBytes(buf[x], n))
                     /\ Called("get", <<x>>, SubSeq(buf[x].storage, buf[x].rpos + 1, buf[x].rpos + n))
DoReset(x)     == Set(x, Reset(buf[x])) /\ Called("clear", <<x>>, <<>>)
DoNormalize(x) == Set(x, Normalize(buf[x])) /\ Called("keep", <<x>>, <<>>)
DoEnsure(x)    == Set(x, EnsureValidSize(buf[x])) /\ Called("keep", <<x>>, <<>>)
DoResize(x)    == \E n \in buf[x].wpos .. MaxCapacity :
                     Set(x, Resize(buf[x], n)) /\ Called("keep", <<x>>, <<>>)
DoSwap(x, y)   == /\ buf' = [buf EXCEPT ![x] = buf[y], ![y] = buf[x]]
                  /\ Called("swap", <<x, y>>, <<>>)
\* operator= returns at once when both sides are the same object.
DoCopy(x, y)   == /\ x # y /\ buf' = [buf EXCEPT ![x] = buf[y]]
                  /\ Called("copy", <<x, y>>, <<>>)
DoMove(x, y)   == /\ x # y /\ buf' = [buf EXCEPT ![x] = buf[y], ![y] = MovedFrom]
                  /\ Called("move", <<x, y>>, <<>>)

BuffersNext ==
    \/ \E x \in Names : \/ DoWrite(x) \/ DoFill(x) \/ DoRead(x) \/ DoReset(x)
                        \/ DoNormalize(x) \/ DoEnsure(x) \/ DoResize(x)
    \/ \E x, y \in Names : DoSwap(x, y) \/ DoCopy(x, y) \/ DoMove(x, y)

BuffersSpec == BuffersInit /\ [][BuffersNext]_buffers

-----------------------------------------------------------------------------
(* bytebuffer.h keeps 0 <= rpos_ <= wpos_ <= storage_.size(): no memcpy,   *)
(* memmove or socket read through it leaves the vector, and the unsigned   *)
(* differences Size() and ValidSize() never wrap.                          *)
BuffersInBounds == \A x \in Names : buf[x] \in Buffer /\ InBounds(buf[x])

\* The refinement mapping: the unread bytes of each buffer.
Contents == [x \in Names |-> Content(buf[x])]

(* Each buffer behaves as a FIFO byte queue: Write and the socket append   *)
(* at the end, a reader gets the bytes at the front and only those leave   *)
(* the queue, and Normalize, growth and Resize, which move the bytes in    *)
(* memory, change nothing a reader sees.                                   *)
Queues == INSTANCE ByteQueues WITH queue <- Contents
ImplementsQueues == Queues!Spec
=============================================================================
