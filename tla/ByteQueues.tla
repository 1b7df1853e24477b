----------------------------- MODULE ByteQueues -----------------------------
(***************************************************************************)
(* What ByteBuffer promises its users: each buffer is a FIFO queue of      *)
(* bytes.  The calls are visible, with the bytes that go in and come out:  *)
(* what a step may do to a queue depends on which operation was called.    *)
(* Capacity, positions and growth are not visible here.                    *)
(***************************************************************************)
EXTENDS Integers, Sequences

CONSTANTS Names,    \* the buffers
          Payloads  \* the byte sequences written at once

VARIABLES queue,
          call    \* the latest call: operation, buffers, and the bytes in or out

Nothing == [op |-> "none", on |-> <<>>, data |-> <<>>, turn |-> 0]

\* turn tells a call from an equal one before it, so that no call is a stutter.
Called(op, on, data) ==
    call' = [op |-> op, on |-> on, data |-> data, turn |-> 1 - call.turn]

Init == queue = [x \in Names |-> <<>>] /\ call = Nothing

Put(x)  == \E data \in Payloads :
              /\ Called("put", <<x>>, data)
              /\ queue' = [queue EXCEPT ![x] = @ \o data]
\* What a reader gets is what the queue loses, from its front.
Get(x)  == \E n \in 0 .. Len(queue[x]) :
              /\ Called("get", <<x>>, SubSeq(queue[x], 1, n))
              /\ queue' = [queue EXCEPT ![x] = SubSeq(@, n + 1, Len(@))]
Clear(x) == Called("clear", <<x>>, <<>>) /\ queue' = [queue EXCEPT ![x] = <<>>]
\* An operation on the memory only.
Keep(x)  == Called("keep", <<x>>, <<>>) /\ UNCHANGED queue
Swap(x, y) == /\ Called("swap", <<x, y>>, <<>>)
              /\ queue' = [queue EXCEPT ![x] = queue[y], ![y] = queue[x]]
Copy(x, y) == /\ Called("copy", <<x, y>>, <<>>)
              /\ queue' = [queue EXCEPT ![x] = queue[y]]
Move(x, y) == /\ Called("move", <<x, y>>, <<>>)
              /\ queue' = [queue EXCEPT ![x] = queue[y], ![y] = <<>>]

Next == \/ \E x \in Names : Put(x) \/ Get(x) \/ Clear(x) \/ Keep(x)
        \/ \E x, y \in Names : Swap(x, y) \/ Copy(x, y) \/ Move(x, y)

Spec == Init /\ [][Next]_<<queue, call>>
=============================================================================
