----------------------------- MODULE ByteBuffer -----------------------------
(***************************************************************************)
(* The growable byte buffer of bytebuffer.h as operators on a record: the  *)
(* write and read positions and the storage vector.  Byte n of storage_ in *)
(* the code is storage[n + 1] here.                                        *)
(***************************************************************************)
EXTENDS Integers, Sequences

CONSTANTS Byte,    \* the values a char can take
          Zero,    \* what vector::resize fills new elements with
          Payloads \* the byte sequences written, or received, at once

ASSUME ByteAssumption == Zero \in Byte
ASSUME PayloadAssumption == Payloads \subseteq Seq(Byte)

Buffer == [wpos : Nat, rpos : Nat, storage : Seq(Byte)]

\* std::vector::resize(n)
Resized(s, n) == [i \in 1 .. n |-> IF i <= Len(s) THEN s[i] ELSE Zero]

\* explicit ByteBuffer(size)
NewBuffer(size) == [wpos |-> 0, rpos |-> 0, storage |-> Resized(<<>>, size)]

Size(b)      == b.wpos - b.rpos
Capacity(b)  == Len(b.storage)
ValidSize(b) == Capacity(b) - b.wpos

\* The bytes from ReadBegin() on: what has been written and not yet read.
Content(b) == SubSeq(b.storage, b.rpos + 1, b.wpos)

Reset(b)        == [wpos |-> 0, rpos |-> 0, storage |-> b.storage]
Resize(b, n)    == [b EXCEPT !.storage = Resized(@, n)]
ReadBytes(b, n) == [b EXCEPT !.rpos = @ + n]

WriteBytes(b, n) == [b EXCEPT !.wpos = @ + n]

\* Mutant of Normalize: the positions go back and no unread byte is moved.
NormalizeForgets(b) == IF b.rpos > 0 THEN Reset(b) ELSE b

\* memmove of the unread bytes to the front.
Normalize(b) ==
    IF b.rpos > 0
    THEN [wpos    |-> b.wpos - b.rpos,
          rpos    |-> 0,
          storage |-> [i \in 1 .. Capacity(b) |->
                          IF i <= Size(b) THEN b.storage[b.rpos + i]
                                          ELSE b.storage[i]]]
    ELSE b

EnsureValidSize(b) ==
    IF ValidSize(b) = 0 THEN Resize(b, (Capacity(b) * 3) \div 2) ELSE b

\* Mutant of EstimateSize: grows by half whatever is asked for.
EstimateIgnoresRequest(b, n) ==
    IF ValidSize(b) < n THEN Resize(b, (Capacity(b) * 3) \div 2) ELSE b

EstimateSize(b, n) ==
    IF ValidSize(b) < n THEN Resize(b, ((Capacity(b) + n) * 3) \div 2) ELSE b

\* memcpy of data, or a socket read, to position pos of the vector.
Stored(s, pos, data) ==
    [i \in 1 .. Len(s) |->
        IF i \in pos + 1 .. pos + Len(data) THEN data[i - pos] ELSE s[i]]

\* Bytes placed from WriteBegin() on and then accounted for by WriteBytes().
Fill(b, data) ==
    [wpos    |-> b.wpos + Len(data),
     rpos    |-> b.rpos,
     storage |-> Stored(b.storage, b.wpos, data)]

Write(b, data) ==
    IF data = <<>> THEN b ELSE Fill(EstimateSize(b, Len(data)), data)

\* What the move constructor and the move assignment leave behind: Move().
MovedFrom == [wpos |-> 0, rpos |-> 0, storage |-> <<>>]

\* 0 <= rpos_ <= wpos_ <= storage_.size()
InBounds(b) == b.rpos <= b.wpos /\ b.wpos <= Capacity(b)
=============================================================================
