-------------------------- MODULE ByteBuffersProofs -------------------------
(***************************************************************************)
(* What the operations of bytebuffer.h do to the unread bytes, for every   *)
(* capacity and every payload; then that every sequence of them stays      *)
(* within the vectors and implements the FIFO queues of module ByteQueues, *)
(* for any number of buffers and any initial sizes.                        *)
(***************************************************************************)
EXTENDS ByteBuffers, SequenceTheorems, TLAPS

\* A function on 1 .. n is a sequence of length n.
LEMMA FunctionIsSeq ==
    ASSUME NEW n \in Nat, NEW f \in [1 .. n -> Byte]
    PROVE  f \in Seq(Byte) /\ Len(f) = n
  BY SeqDef

\* A sequence that starts as s and goes on as t is s \o t.
LEMMA ConcatEqual ==
    ASSUME NEW s \in Seq(Byte), NEW t \in Seq(Byte), NEW u \in Seq(Byte),
           Len(u) = Len(s) + Len(t),
           \A i \in 1 .. Len(s) : u[i] = s[i],
           \A i \in 1 .. Len(t) : u[Len(s) + i] = t[i]
    PROVE  u = s \o t
  <1>1. Len(s) \in Nat /\ Len(t) \in Nat
    BY LenProperties
  <1>2. /\ s \o t \in Seq(Byte)
        /\ Len(s \o t) = Len(s) + Len(t)
        /\ \A i \in 1 .. Len(s) + Len(t) :
              (s \o t)[i] = IF i <= Len(s) THEN s[i] ELSE t[i - Len(s)]
    BY ConcatProperties
  <1>3. ASSUME NEW i \in 1 .. Len(u)  PROVE u[i] = (s \o t)[i]
    <2>1. CASE i <= Len(s)
      BY <1>1, <1>2, <2>1
    <2>2. CASE i > Len(s)
      <3>1. i - Len(s) \in 1 .. Len(t) /\ Len(s) + (i - Len(s)) = i
        BY <1>1, <2>2
      <3>2. QED  BY <1>1, <1>2, <2>2, <3>1
    <2>3. QED  BY <1>1, <2>1, <2>2
  <1>4. QED  BY <1>2, <1>3, SeqEqual

\* vector::resize yields a vector of the new length that keeps what fits.
LEMMA ResizedProperties ==
    ASSUME NEW s \in Seq(Byte), NEW n \in Nat
    PROVE  /\ Resized(s, n) \in Seq(Byte)
           /\ Len(Resized(s, n)) = n
           /\ \A i \in 1 .. n : i <= Len(s) => Resized(s, n)[i] = s[i]
  <1>1. Resized(s, n) \in [1 .. n -> Byte]
    BY ByteAssumption, ElementOfSeq DEF Resized
  <1>2. QED  BY <1>1, FunctionIsSeq DEF Resized

\* The unread bytes of a buffer within its bounds, one by one.
LEMMA ContentProperties ==
    ASSUME NEW b \in Buffer, InBounds(b)
    PROVE  /\ Content(b) \in Seq(Byte)
           /\ Len(Content(b)) = Size(b)
           /\ Size(b) \in Nat
           /\ \A i \in 1 .. Size(b) : Content(b)[i] = b.storage[b.rpos + i]
  <1>1. \A i \in b.rpos + 1 .. b.wpos : b.storage[i] \in Byte
    BY ElementOfSeq DEF Buffer, InBounds, Capacity
  <1>2. b.rpos + 1 \in Int /\ b.wpos \in Int /\ b.rpos \in Nat /\ b.rpos <= b.wpos
    BY DEF Buffer, InBounds
  <1>3. /\ SubSeq(b.storage, b.rpos + 1, b.wpos) \in Seq(Byte)
        /\ Len(SubSeq(b.storage, b.rpos + 1, b.wpos)) =
              IF b.rpos + 1 <= b.wpos THEN b.wpos - (b.rpos + 1) + 1 ELSE 0
        /\ \A i \in 1 .. b.wpos - (b.rpos + 1) + 1 :
              SubSeq(b.storage, b.rpos + 1, b.wpos)[i] = b.storage[(b.rpos + 1) + i - 1]
    BY <1>1, <1>2, SubSeqProperties
  <1>4. QED  BY <1>2, <1>3 DEF Content, Size

\* Two buffers with the same unread bytes position by position have the
\* same content.
LEMMA SameContent ==
    ASSUME NEW b \in Buffer, InBounds(b), NEW c \in Buffer, InBounds(c),
           Size(b) = Size(c),
           \A i \in 1 .. Size(b) : b.storage[b.rpos + i] = c.storage[c.rpos + i]
    PROVE  Content(b) = Content(c)
  BY ContentProperties, SeqEqual

\* A freshly constructed buffer is empty.
LEMMA NewBufferProperties ==
    ASSUME NEW n \in Nat
    PROVE  /\ NewBuffer(n) \in Buffer
           /\ InBounds(NewBuffer(n))
           /\ Content(NewBuffer(n)) = <<>>
  <1>1. <<>> \in Seq(Byte)  OBVIOUS
  <1>2. Resized(<<>>, n) \in Seq(Byte) /\ Len(Resized(<<>>, n)) = n
    BY <1>1, ResizedProperties
  <1>3. QED  BY <1>2, SubSeqEmpty DEF NewBuffer, Buffer, InBounds, Content, Capacity

\* A moved-from buffer is empty and has no storage.
LEMMA MovedFromProperties ==
    MovedFrom \in Buffer /\ InBounds(MovedFrom) /\ Content(MovedFrom) = <<>>
  BY SubSeqEmpty DEF MovedFrom, Buffer, InBounds, Content, Capacity

\* Resizing to no less than wpos_ keeps the unread bytes.
LEMMA ResizeProperties ==
    ASSUME NEW b \in Buffer, InBounds(b), NEW n \in Nat, b.wpos <= n
    PROVE  /\ Resize(b, n) \in Buffer
           /\ InBounds(Resize(b, n))
           /\ Capacity(Resize(b, n)) = n
           /\ Resize(b, n).wpos = b.wpos /\ Resize(b, n).rpos = b.rpos
           /\ Content(Resize(b, n)) = Content(b)
  <1>1. b.storage \in Seq(Byte) /\ b.wpos \in Nat /\ b.rpos \in Nat
    BY DEF Buffer
  <1>2. /\ Resized(b.storage, n) \in Seq(Byte)
        /\ Len(Resized(b.storage, n)) = n
        /\ \A i \in 1 .. n : i <= Len(b.storage) => Resized(b.storage, n)[i] = b.storage[i]
    BY <1>1, ResizedProperties
  <1>3. Resize(b, n) = [wpos |-> b.wpos, rpos |-> b.rpos, storage |-> Resized(b.storage, n)]
    BY DEF Resize, Buffer
  <1>4. /\ Resize(b, n) \in Buffer
        /\ InBounds(Resize(b, n))
        /\ Capacity(Resize(b, n)) = n
        /\ Size(Resize(b, n)) = Size(b)
        /\ Resize(b, n).wpos = b.wpos /\ Resize(b, n).rpos = b.rpos
    BY <1>1, <1>2, <1>3 DEF Buffer, InBounds, Capacity, Size
  <1>5. \A i \in 1 .. Size(b) :
           Resize(b, n).storage[Resize(b, n).rpos + i] = b.storage[b.rpos + i]
    BY <1>1, <1>2, <1>3, SMTT(30) DEF Size, InBounds, Capacity
  <1>6. QED  BY <1>4, <1>5, SameContent

\* ReadBytes drops that many bytes from the front.
LEMMA ReadBytesProperties ==
    ASSUME NEW b \in Buffer, InBounds(b), NEW n \in 0 .. Size(b)
    PROVE  /\ ReadBytes(b, n) \in Buffer
           /\ InBounds(ReadBytes(b, n))
           /\ Content(ReadBytes(b, n)) = SubSeq(Content(b), n + 1, Len(Content(b)))
  <1> DEFINE r == ReadBytes(b, n)
             t == SubSeq(Content(b), n + 1, Len(Content(b)))
  <1>1. r = [wpos |-> b.wpos, rpos |-> b.rpos + n, storage |-> b.storage]
    BY DEF ReadBytes, Buffer
  <1>2. r \in Buffer /\ InBounds(r) /\ Size(r) = Size(b) - n
    BY <1>1 DEF Buffer, InBounds, Capacity, Size
  <1>3. /\ Content(b) \in Seq(Byte) /\ Len(Content(b)) = Size(b) /\ Size(b) \in Nat
        /\ \A i \in 1 .. Size(b) : Content(b)[i] = b.storage[b.rpos + i]
    BY ContentProperties
  <1>4. /\ Content(r) \in Seq(Byte) /\ Len(Content(r)) = Size(r)
        /\ \A i \in 1 .. Size(r) : Content(r)[i] = r.storage[r.rpos + i]
    BY <1>2, ContentProperties
  <1>5. \A i \in n + 1 .. Size(b) : Content(b)[i] \in Byte
    BY <1>3, ElementOfSeq
  <1>6. /\ t \in Seq(Byte)
        /\ Len(t) = Size(b) - n
        /\ \A i \in 1 .. Size(b) - n : t[i] = Content(b)[n + i]
    BY <1>3, <1>5, SubSeqProperties
  <1>7. \A i \in 1 .. Len(t) : Content(r)[i] = t[i]
    <2>1. SUFFICES ASSUME NEW i \in 1 .. Len(t)  PROVE Content(r)[i] = t[i]
      OBVIOUS
    <2>2. i \in 1 .. Size(r) /\ i \in 1 .. Size(b) - n /\ n + i \in 1 .. Size(b)
      BY <1>2, <1>3, <1>6
    <2>3. Content(r)[i] = b.storage[(b.rpos + n) + i]
      BY <1>1, <1>4, <2>2
    <2>4. t[i] = b.storage[b.rpos + (n + i)]
      BY <1>3, <1>6, <2>2
    <2>5. (b.rpos + n) + i = b.rpos + (n + i)
      BY <1>3, <2>2 DEF Buffer
    <2>6. QED  BY <2>3, <2>4, <2>5
  <1>8. Content(r) = t
    BY <1>2, <1>4, <1>6, <1>7, SeqEqual, SMTT(30)
  <1>9. QED  BY <1>2, <1>8

\* Reset empties the buffer.
LEMMA ResetProperties ==
    ASSUME NEW b \in Buffer
    PROVE  Reset(b) \in Buffer /\ InBounds(Reset(b)) /\ Content(Reset(b)) = <<>>
  BY SubSeqEmpty, LenProperties DEF Reset, Buffer, InBounds, Content, Capacity

\* Normalize moves the unread bytes to the front and changes none of them.
LEMMA NormalizeProperties ==
    ASSUME NEW b \in Buffer, InBounds(b)
    PROVE  /\ Normalize(b) \in Buffer
           /\ InBounds(Normalize(b))
           /\ Normalize(b).rpos = 0
           /\ Capacity(Normalize(b)) = Capacity(b)
           /\ Content(Normalize(b)) = Content(b)
  <1>1. b.storage \in Seq(Byte) /\ b.wpos \in Nat /\ b.rpos \in Nat /\ Capacity(b) \in Nat
    BY LenProperties DEF Buffer, Capacity
  <1>2. CASE b.rpos = 0
    BY <1>1, <1>2 DEF Normalize
  <1>3. CASE b.rpos > 0
    <2> DEFINE s == [i \in 1 .. Capacity(b) |->
                        IF i <= Size(b) THEN b.storage[b.rpos + i] ELSE b.storage[i]]
    <2>1. Normalize(b) = [wpos |-> b.wpos - b.rpos, rpos |-> 0, storage |-> s]
      BY <1>3 DEF Normalize
    <2>2. \A i \in 1 .. Capacity(b) : s[i] \in Byte
      BY <1>1, ElementOfSeq DEF InBounds, Size, Capacity
    <2>3. s \in Seq(Byte) /\ Len(s) = Capacity(b)
      <3>1. s \in [1 .. Capacity(b) -> Byte]  BY <2>2
      <3>2. QED  BY <1>1, <3>1, FunctionIsSeq
    <2> HIDE DEF s
    <2>4. /\ Normalize(b) \in Buffer
          /\ InBounds(Normalize(b))
          /\ Normalize(b).rpos = 0
          /\ Capacity(Normalize(b)) = Capacity(b)
          /\ Size(Normalize(b)) = Size(b)
      BY <1>1, <2>1, <2>3 DEF Buffer, InBounds, Capacity, Size
    <2>5. \A i \in 1 .. Size(b) : s[i] = b.storage[b.rpos + i]
      BY <1>1 DEF s, InBounds, Size, Capacity
    <2>6. Content(Normalize(b)) = Content(b)
      BY <1>1, <2>1, <2>4, <2>5, SameContent DEF Size
    <2>7. QED  BY <2>4, <2>6
  <1>4. QED  BY <1>1, <1>2, <1>3

\* EnsureValidSize never touches the unread bytes, and makes room in every
\* full buffer of at least two bytes.
LEMMA EnsureValidSizeProperties ==
    ASSUME NEW b \in Buffer, InBounds(b)
    PROVE  /\ EnsureValidSize(b) \in Buffer
           /\ InBounds(EnsureValidSize(b))
           /\ Content(EnsureValidSize(b)) = Content(b)
           /\ Capacity(b) >= 2 => ValidSize(EnsureValidSize(b)) > 0
  <1>1. b.wpos \in Nat /\ b.rpos \in Nat /\ Capacity(b) \in Nat
    BY LenProperties DEF Buffer, Capacity
  <1> DEFINE n == (Capacity(b) * 3) \div 2
  <1>2. n \in Nat /\ n >= Capacity(b) /\ (Capacity(b) >= 2 => n > Capacity(b))
    BY <1>1
  <1> HIDE DEF n
  <1>3. CASE ValidSize(b) = 0
    <2>1. EnsureValidSize(b) = Resize(b, n)  BY <1>3 DEF EnsureValidSize, n
    <2>2. b.wpos = Capacity(b)  BY <1>1, <1>3 DEF ValidSize
    <2>3. QED  BY <1>1, <1>2, <2>1, <2>2, ResizeProperties DEF ValidSize
  <1>4. CASE ValidSize(b) # 0
    BY <1>1, <1>4 DEF EnsureValidSize, ValidSize, InBounds
  <1>5. QED  BY <1>3, <1>4

\* After EstimateSize(n) there is room for n bytes.
LEMMA EstimateSizeProperties ==
    ASSUME NEW b \in Buffer, InBounds(b), NEW n \in Nat
    PROVE  /\ EstimateSize(b, n) \in Buffer
           /\ InBounds(EstimateSize(b, n))
           /\ Content(EstimateSize(b, n)) = Content(b)
           /\ n <= ValidSize(EstimateSize(b, n))
  <1>1. b.wpos \in Nat /\ b.rpos \in Nat /\ Capacity(b) \in Nat /\ b.wpos <= Capacity(b)
    BY LenProperties DEF Buffer, Capacity, InBounds
  <1> DEFINE m == ((Capacity(b) + n) * 3) \div 2
  <1>2. m \in Nat /\ m >= Capacity(b) + n
    BY <1>1
  <1> HIDE DEF m
  <1>3. CASE ValidSize(b) < n
    <2>1. EstimateSize(b, n) = Resize(b, m)  BY <1>3 DEF EstimateSize, m
    <2>2. b.wpos <= m  BY <1>1, <1>2
    <2>3. QED  BY <1>1, <1>2, <2>1, <2>2, ResizeProperties DEF ValidSize
  <1>4. CASE ~(ValidSize(b) < n)
    BY <1>1, <1>4 DEF EstimateSize, ValidSize
  <1>5. QED  BY <1>3, <1>4

\* Bytes stored in the free region and accounted for by WriteBytes follow
\* the unread ones.
LEMMA FillProperties ==
    ASSUME NEW b \in Buffer, InBounds(b), NEW data \in Seq(Byte),
           Len(data) <= ValidSize(b)
    PROVE  /\ Fill(b, data) \in Buffer
           /\ InBounds(Fill(b, data))
           /\ Capacity(Fill(b, data)) = Capacity(b)
           /\ Content(Fill(b, data)) = Content(b) \o data
  <1> DEFINE s == Stored(b.storage, b.wpos, data)
             f == Fill(b, data)
  <1>1. /\ b.storage \in Seq(Byte) /\ b.wpos \in Nat /\ b.rpos \in Nat
        /\ Capacity(b) \in Nat /\ Len(data) \in Nat
        /\ b.rpos <= b.wpos /\ b.wpos + Len(data) <= Capacity(b)
    BY LenProperties DEF Buffer, Capacity, InBounds, ValidSize
  <1>2. f = [wpos |-> b.wpos + Len(data), rpos |-> b.rpos, storage |-> s]
    BY DEF Fill
  <1>3. \A i \in 1 .. Capacity(b) : s[i] \in Byte
    BY <1>1, ElementOfSeq DEF Stored, Capacity
  <1>4. s \in Seq(Byte) /\ Len(s) = Capacity(b)
    <2>1. s \in [1 .. Capacity(b) -> Byte]  BY <1>3 DEF Stored, Capacity
    <2>2. QED  BY <1>1, <2>1, FunctionIsSeq
  <1>5. \A i \in 1 .. b.wpos : s[i] = b.storage[i]
    BY <1>1 DEF Stored, Capacity
  <1>6. \A i \in 1 .. Len(data) : s[b.wpos + i] = data[i]
    <2> TAKE i \in 1 .. Len(data)
    <2>1. b.wpos + i \in 1 .. Len(b.storage) /\ b.wpos + i \in b.wpos + 1 .. b.wpos + Len(data)
      BY <1>1 DEF Capacity
    <2>2. (b.wpos + i) - b.wpos = i  BY <1>1
    <2>3. QED  BY <2>1, <2>2 DEF Stored
  <1> HIDE DEF s
  <1>7. /\ f \in Buffer /\ InBounds(f) /\ Capacity(f) = Capacity(b)
        /\ Size(f) = Size(b) + Len(data) /\ f.rpos = b.rpos /\ f.storage = s
    BY <1>1, <1>2, <1>4 DEF Buffer, InBounds, Capacity, Size
  <1> HIDE DEF f
  <1>8. /\ Content(f) \in Seq(Byte) /\ Len(Content(f)) = Size(b) + Len(data)
        /\ \A i \in 1 .. Size(b) + Len(data) : Content(f)[i] = s[b.rpos + i]
    BY <1>7, ContentProperties
  <1>9. /\ Content(b) \in Seq(Byte) /\ Len(Content(b)) = Size(b) /\ Size(b) \in Nat
        /\ \A i \in 1 .. Size(b) : Content(b)[i] = b.storage[b.rpos + i]
    BY ContentProperties
  <1>10. \A i \in 1 .. Len(Content(b)) : Content(f)[i] = Content(b)[i]
    <2> TAKE i \in 1 .. Len(Content(b))
    <2>1. i \in 1 .. Size(b) /\ i \in 1 .. Size(b) + Len(data)
      BY <1>1, <1>9
    <2>2. b.rpos + i \in 1 .. b.wpos
      BY <1>1, <2>1 DEF Size
    <2>3. QED  BY <1>5, <1>8, <1>9, <2>1, <2>2
  <1>11. \A i \in 1 .. Len(data) : Content(f)[Len(Content(b)) + i] = data[i]
    <2> TAKE i \in 1 .. Len(data)
    <2>1. Size(b) + i \in 1 .. Size(b) + Len(data)
      BY <1>1, <1>9
    <2>2. b.rpos + (Size(b) + i) = b.wpos + i
      BY <1>1 DEF Size
    <2>3. QED  BY <1>6, <1>8, <1>9, <2>1, <2>2
  <1>12. Content(f) = Content(b) \o data
    <2>1. Len(Content(f)) = Len(Content(b)) + Len(data)  BY <1>8, <1>9
    <2>2. Content(f) \in Seq(Byte) /\ Content(b) \in Seq(Byte)  BY <1>8, <1>9
    <2>3. QED  BY ONLY <2>1, <2>2, <1>10, <1>11, data \in Seq(Byte), ConcatEqual
  <1>13. QED  BY <1>7, <1>12 DEF f

\* Write appends its payload, whatever room there was before.
LEMMA WriteProperties ==
    ASSUME NEW b \in Buffer, InBounds(b), NEW data \in Seq(Byte)
    PROVE  /\ Write(b, data) \in Buffer
           /\ InBounds(Write(b, data))
           /\ Content(Write(b, data)) = Content(b) \o data
  <1>1. CASE data = <<>>
    BY <1>1, ContentProperties, ConcatEmptySeq DEF Write
  <1>2. CASE data # <<>>
    <2>1. Len(data) \in Nat  BY LenProperties
    <2>2. QED  BY <1>2, <2>1, EstimateSizeProperties, FillProperties DEF Write
  <1>3. QED  BY <1>1, <1>2

\* Accounting for bytes a read has stored behind the unread ones.
LEMMA WriteBytesProperties ==
    ASSUME NEW b \in Buffer, InBounds(b), NEW n \in Nat, n <= ValidSize(b)
    PROVE  /\ WriteBytes(b, n) \in Buffer /\ InBounds(WriteBytes(b, n))
           /\ WriteBytes(b, n).wpos = b.wpos + n /\ WriteBytes(b, n).rpos = b.rpos
           /\ WriteBytes(b, n).storage = b.storage
  <1> DEFINE c == WriteBytes(b, n)
  <1>1. c.wpos = b.wpos + n /\ c.rpos = b.rpos /\ c.storage = b.storage
    BY DEF WriteBytes, Buffer
  <1>2. c \in Buffer
    BY DEF WriteBytes, Buffer
  <1>3. InBounds(c)
    <2> HIDE DEF c
    <2>1. b.wpos \in Nat /\ b.rpos \in Nat /\ Len(b.storage) \in Nat
      BY DEF Buffer
    <2>2. QED  BY <1>1, <2>1 DEF InBounds, ValidSize, Capacity
  <1>4. QED  BY <1>1, <1>2, <1>3

-----------------------------------------------------------------------------
(* The state machine of module ByteBuffers.                                *)

\* Replacing one buffer by another one within its bounds keeps all in bounds.
LEMMA SetKeepsBounds ==
    ASSUME BuffersInBounds, buf \in [Names -> Buffer], NEW x \in Names, NEW b,
           Set(x, b), b \in Buffer, InBounds(b)
    PROVE  BuffersInBounds' /\ buf' \in [Names -> Buffer]
  BY DEF BuffersInBounds, Set

\* The inductive invariant: BuffersInBounds, and buf has no other index.
BuffersInv == BuffersInBounds /\ buf \in [Names -> Buffer]

\* A newly constructed buffer is in bounds.
LEMMA InitBounds == BuffersInit => BuffersInv
  <1> SUFFICES ASSUME BuffersInit PROVE BuffersInv
    OBVIOUS
  <1>1. \A n \in InitSizes : NewBuffer(n) \in Buffer /\ InBounds(NewBuffer(n))
    BY NewBufferProperties, SizeAssumption
  <1>2. QED  BY <1>1 DEF BuffersInit, BuffersInv, BuffersInBounds

\* Each operation, seen from the buffer it changes: the result is in bounds,
\* and its content is what the abstract queue operation yields.
LEMMA OperationsInBounds ==
    ASSUME NEW b \in Buffer, InBounds(b)
    PROVE  /\ \A data \in Payloads : Write(b, data) \in Buffer /\ InBounds(Write(b, data))
           /\ \A data \in Payloads : Len(data) <= ValidSize(b) =>
                 Fill(b, data) \in Buffer /\ InBounds(Fill(b, data))
           /\ \A n \in 0 .. Size(b) : ReadBytes(b, n) \in Buffer /\ InBounds(ReadBytes(b, n))
           /\ \A n \in b.wpos .. MaxCapacity : Resize(b, n) \in Buffer /\ InBounds(Resize(b, n))
           /\ Normalize(b) \in Buffer /\ InBounds(Normalize(b))
           /\ EnsureValidSize(b) \in Buffer /\ InBounds(EnsureValidSize(b))
           /\ Reset(b) \in Buffer /\ InBounds(Reset(b))
  <1>1. \A data \in Payloads : data \in Seq(Byte)
    BY PayloadAssumption
  <1>2. \A n \in b.wpos .. MaxCapacity : n \in Nat /\ b.wpos <= n
    BY SizeAssumption DEF Buffer
  <1>3. \A data \in Payloads : Write(b, data) \in Buffer /\ InBounds(Write(b, data))
    BY <1>1, WriteProperties
  <1>4. \A data \in Payloads : Len(data) <= ValidSize(b) =>
                 Fill(b, data) \in Buffer /\ InBounds(Fill(b, data))
    BY <1>1, FillProperties
  <1>5. \A n \in 0 .. Size(b) : ReadBytes(b, n) \in Buffer /\ InBounds(ReadBytes(b, n))
    BY ReadBytesProperties
  <1>6. \A n \in b.wpos .. MaxCapacity : Resize(b, n) \in Buffer /\ InBounds(Resize(b, n))
    BY <1>2, ResizeProperties
  <1>7. QED
    BY <1>3, <1>4, <1>5, <1>6, NormalizeProperties, EnsureValidSizeProperties, ResetProperties

\* Every operation of bytebuffer.h keeps every buffer in bounds.
LEMMA StepBounds == BuffersInv /\ [BuffersNext]_buffers => BuffersInv'
  <1> SUFFICES ASSUME BuffersInv, [BuffersNext]_buffers  PROVE BuffersInv'
    OBVIOUS
  <1>1. \A x \in Names : buf[x] \in Buffer /\ InBounds(buf[x])
    BY DEF BuffersInv, BuffersInBounds
  <1>2. ASSUME NEW x \in Names,
               \/ DoWrite(x) \/ DoFill(x) \/ DoRead(x) \/ DoReset(x)
               \/ DoNormalize(x) \/ DoEnsure(x) \/ DoResize(x)
        PROVE  BuffersInv'
    <2>1. \E b \in Buffer : InBounds(b) /\ Set(x, b)
      <3>1. CASE DoWrite(x)  BY <1>1, <3>1, OperationsInBounds DEF DoWrite
      <3>2. CASE DoFill(x)  BY <1>1, <3>2, OperationsInBounds DEF DoFill
      <3>3. CASE DoRead(x)  BY <1>1, <3>3, OperationsInBounds DEF DoRead
      <3>4. CASE DoReset(x)  BY <1>1, <3>4, OperationsInBounds DEF DoReset
      <3>5. CASE DoNormalize(x)  BY <1>1, <3>5, OperationsInBounds DEF DoNormalize
      <3>6. CASE DoEnsure(x)  BY <1>1, <3>6, OperationsInBounds DEF DoEnsure
      <3>7. CASE DoResize(x)  BY <1>1, <3>7, OperationsInBounds DEF DoResize
      <3>8. QED  BY <1>2, <3>1, <3>2, <3>3, <3>4, <3>5, <3>6, <3>7
    <2>2. QED  BY <2>1, SetKeepsBounds DEF BuffersInv
  <1>3. ASSUME NEW x \in Names, NEW y \in Names, DoSwap(x, y) \/ DoCopy(x, y) \/ DoMove(x, y)
        PROVE  BuffersInv'
    BY <1>1, <1>3, MovedFromProperties
       DEF BuffersInv, BuffersInBounds, DoSwap, DoCopy, DoMove
  <1>4. CASE UNCHANGED buffers
    BY <1>4 DEF BuffersInv, BuffersInBounds, buffers
  <1>5. QED  BY <1>2, <1>3, <1>4 DEF BuffersNext

(* No operation of bytebuffer.h ever leaves the storage vector: the        *)
(* positions stay ordered, for every size, payload and interleaving.       *)
THEOREM BoundsTheorem == BuffersSpec => []BuffersInBounds
  <1>1. BuffersInv => BuffersInBounds  BY DEF BuffersInv
  <1>2. QED  BY <1>1, InitBounds, StepBounds, PTL DEF BuffersSpec

-----------------------------------------------------------------------------
\* The abstract queue contents after one buffer was replaced.
LEMMA SetContent ==
    ASSUME BuffersInv, NEW x \in Names, NEW b, Set(x, b)
    PROVE  Contents' = [Contents EXCEPT ![x] = Content(b)]
  BY DEF BuffersInv, Set, Contents

\* The n bytes from ReadBegin() on are the first n unread ones.
LEMMA FrontProperties ==
    ASSUME NEW b \in Buffer, InBounds(b), NEW n \in 0 .. Size(b)
    PROVE  SubSeq(b.storage, b.rpos + 1, b.rpos + n) = SubSeq(Content(b), 1, n)
  BY SMT DEF Buffer, InBounds, Size, Capacity, Content

(* The bytes a reader gets are the bytes written, in order, none lost and  *)
(* none repeated: each call does to the queue what it is called for, and   *)
(* Normalize, growth and Resize do nothing to it.                          *)
THEOREM RefinementTheorem == BuffersSpec => ImplementsQueues
  <1>1. BuffersInit => Queues!Init
    <2> SUFFICES ASSUME BuffersInit PROVE Contents = [x \in Names |-> <<>>]
      BY DEF Queues!Init, Contents, BuffersInit, Nothing, Queues!Nothing
    <2>1. \A n \in InitSizes : Content(NewBuffer(n)) = <<>>
      BY NewBufferProperties, SizeAssumption
    <2>2. QED  BY <2>1 DEF BuffersInit, Contents
  <1>2. BuffersInv /\ [BuffersNext]_buffers => [Queues!Next]_<<Contents, call>>
    <2> SUFFICES ASSUME BuffersInv, [BuffersNext]_buffers
                 PROVE  Queues!Next \/ UNCHANGED <<Contents, call>>
      OBVIOUS
    <2>1. \A x \in Names : buf[x] \in Buffer /\ InBounds(buf[x])
      BY DEF BuffersInv, BuffersInBounds
    <2>2. \A x \in Names : /\ Contents[x] = Content(buf[x])
                           /\ Contents[x] \in Seq(Byte)
                           /\ Len(Contents[x]) = Size(buf[x])
      BY <2>1, ContentProperties DEF Contents
    <2>3. ASSUME NEW x \in Names, NEW b, Set(x, b)
          PROVE  Contents' = [Contents EXCEPT ![x] = Content(b)]
      BY <2>3, SetContent
    <2>4. \A op, on, data : Called(op, on, data) => Queues!Called(op, on, data)
      BY DEF Called, Queues!Called
    <2>5. ASSUME NEW x \in Names, NEW data \in Payloads, NEW b,
                 Set(x, b), Content(b) = Contents[x] \o data, Called("put", <<x>>, data)
          PROVE  Queues!Next
      BY <2>3, <2>4, <2>5 DEF Queues!Next, Queues!Put
    <2>6. ASSUME NEW x \in Names, NEW b,
                 Set(x, b), Content(b) = Content(buf[x]), Called("keep", <<x>>, <<>>)
          PROVE  Queues!Next
      <3>1. Contents' = Contents
        BY <2>2, <2>3, <2>6, ZenonT(40) DEF Contents
      <3>2. QED  BY <2>4, <2>6, <3>1 DEF Queues!Next, Queues!Keep
    <2>7. ASSUME NEW x \in Names, DoWrite(x)  PROVE Queues!Next
      <3>1. PICK data \in Payloads : Set(x, Write(buf[x], data)) /\ Called("put", <<x>>, data)
        BY <2>7 DEF DoWrite
      <3>2. Content(Write(buf[x], data)) = Contents[x] \o data
        BY <2>1, <2>2, WriteProperties, PayloadAssumption
      <3>3. QED  BY <2>5, <3>1, <3>2
    <2>8. ASSUME NEW x \in Names, DoFill(x)  PROVE Queues!Next
      <3>1. PICK data \in Payloads : /\ Len(data) <= ValidSize(buf[x])
                                     /\ Set(x, Fill(buf[x], data))
                                     /\ Called("put", <<x>>, data)
        BY <2>8 DEF DoFill
      <3>2. Content(Fill(buf[x], data)) = Contents[x] \o data
        BY <2>1, <2>2, <3>1, FillProperties, PayloadAssumption
      <3>3. QED  BY <2>5, <3>1, <3>2
    <2>9. ASSUME NEW x \in Names, DoRead(x)  PROVE Queues!Next
      <3> DEFINE Front(n) == SubSeq(buf[x].storage, buf[x].rpos + 1, buf[x].rpos + n)
      <3>1. PICK n \in 0 .. Size(buf[x]) : Set(x, ReadBytes(buf[x], n)) /\ Called("get", <<x>>, Front(n))
        BY <2>9 DEF DoRead
      <3>2. Content(ReadBytes(buf[x], n)) = SubSeq(Contents[x], n + 1, Len(Contents[x]))
        BY <2>1, <2>2, ReadBytesProperties
      <3>3. n \in 0 .. Len(Contents[x])
        BY <2>2
      <3>4. Front(n) = SubSeq(Contents[x], 1, n)
        BY <2>1, <2>2, FrontProperties
      <3>5. Contents' = [Contents EXCEPT ![x] = SubSeq(@, n + 1, Len(@))]
        BY <2>2, <2>3, <3>1, <3>2
      <3> HIDE DEF Front
      <3>6. QED  BY <2>4, <3>1, <3>3, <3>4, <3>5 DEF Queues!Next, Queues!Get
    <2>10. ASSUME NEW x \in Names, DoReset(x)  PROVE Queues!Next
      <3>1. /\ Set(x, Reset(buf[x])) /\ Content(Reset(buf[x])) = <<>>
            /\ Called("clear", <<x>>, <<>>)
        BY <2>1, <2>10, ResetProperties DEF DoReset
      <3>2. QED  BY <2>3, <2>4, <3>1 DEF Queues!Next, Queues!Clear
    <2>11. ASSUME NEW x \in Names, DoNormalize(x) \/ DoEnsure(x) \/ DoResize(x)
           PROVE  Queues!Next
      <3>1. CASE DoNormalize(x)
        BY <2>1, <2>6, <3>1, NormalizeProperties DEF DoNormalize
      <3>2. CASE DoEnsure(x)
        BY <2>1, <2>6, <3>2, EnsureValidSizeProperties DEF DoEnsure
      <3>3. CASE DoResize(x)
        <4>1. PICK n \in buf[x].wpos .. MaxCapacity :
                 Set(x, Resize(buf[x], n)) /\ Called("keep", <<x>>, <<>>)
          BY <3>3 DEF DoResize
        <4>2. n \in Nat /\ buf[x].wpos <= n
          BY <2>1, <4>1, SizeAssumption DEF Buffer
        <4>3. QED  BY <2>1, <2>6, <4>1, <4>2, ResizeProperties
      <3>4. QED  BY <2>11, <3>1, <3>2, <3>3
    <2>12. ASSUME NEW x \in Names, NEW y \in Names, DoSwap(x, y)  PROVE Queues!Next
      <3>1. Contents' = [Contents EXCEPT ![x] = Contents[y], ![y] = Contents[x]]
        BY <2>12 DEF DoSwap, Contents, BuffersInv
      <3>2. QED  BY <2>4, <2>12, <3>1 DEF DoSwap, Queues!Next, Queues!Swap
    <2>13. ASSUME NEW x \in Names, NEW y \in Names, DoCopy(x, y)  PROVE Queues!Next
      <3>1. Contents' = [Contents EXCEPT ![x] = Contents[y]]
        BY <2>13 DEF DoCopy, Contents, BuffersInv
      <3>2. QED  BY <2>4, <2>13, <3>1 DEF DoCopy, Queues!Next, Queues!Copy
    <2>14. ASSUME NEW x \in Names, NEW y \in Names, DoMove(x, y)  PROVE Queues!Next
      <3>1. Contents' = [Contents EXCEPT ![x] = Contents[y], ![y] = <<>>]
        BY <2>14, MovedFromProperties DEF DoMove, Contents, BuffersInv
      <3>2. QED  BY <2>4, <2>14, <3>1 DEF DoMove, Queues!Next, Queues!Move
    <2>15. CASE UNCHANGED buffers
      BY <2>15 DEF buffers, Contents
    <2>16. QED
      BY <2>7, <2>8, <2>9, <2>10, <2>11, <2>12, <2>13, <2>14, <2>15 DEF BuffersNext
  <1>3. QED
    BY <1>1, <1>2, InitBounds, StepBounds, PTL DEF BuffersSpec, ImplementsQueues, Queues!Spec
=============================================================================
