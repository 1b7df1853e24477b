----------------------------- MODULE LogProofs ------------------------------
(***************************************************************************)
(* Theorems about the logger: LogStream, the text of a log, for every size *)
(* of _content and any texts; LogFiles, the loggers, their configuration   *)
(* and their files, for any contents, changes, days and limits.            *)
(***************************************************************************)
EXTENDS LogFiles, LogStream, FiniteSetTheorems, SequenceTheorems, WellFoundedInduction, TLAPS

\* Every set of natural numbers that is not empty has a least element.
LEMMA LeastNumber ==
    ASSUME NEW T, T \subseteq Nat, T # {}
    PROVE  \E m \in T : \A k \in T : m <= k
<1> DEFINE R == OpToRel(<, Nat)
<1>1. IsWellFoundedOn(R, Nat) BY NatLessThanWellFounded
<1>2. \A x, y \in Nat : x < y => <<x, y>> \in R BY DEF OpToRel
<1> HIDE DEF R
<1>3. PICK m \in T : \A k \in T : ~(<<k, m>> \in R) BY <1>1, WFMin
<1>4. ASSUME NEW k \in T PROVE m <= k
  <2>1. m \in Nat /\ k \in Nat OBVIOUS
  <2>2. ~(k < m) BY <2>1, <1>2, <1>3
  <2> QED BY <2>1, <2>2
<1> QED BY <1>4

\* Induction over the numbers up to n, for a set.
LEMMA UpTo ==
    ASSUME NEW n \in Nat, NEW S, 0 \in S, \A i \in 1 .. n : i - 1 \in S => i \in S
    PROVE  0 .. n \subseteq S
<1> SUFFICES ASSUME (0 .. n) \ S # {} PROVE FALSE OBVIOUS
<1>1. PICK m \in (0 .. n) \ S : \A k \in (0 .. n) \ S : m <= k
  <2>1. (0 .. n) \ S \subseteq Nat OBVIOUS
  <2> QED BY <2>1, LeastNumber
<1>2. m \in 1 .. n OBVIOUS
<1>3. m - 1 \in S BY <1>1, <1>2
<1> QED BY <1>2, <1>3

-----------------------------------------------------------------------------
(* The text of a log.                                                      *)

\* The streams that have stayed in _content, whose _cur is at d, and which are
\* text up to there: all but the last byte, which may be a '\0'.
Sound(d) ==
    {t \in Stream :
        /\ ~t.out /\ t.cur = d /\ d <= BUF_SIZE
        /\ \A i \in 0 .. d - 1 : i # BUF_SIZE - 1 => t.content[i] = "text"}

\* What Store does to each part of a stream.
LEMMA StoreFacts ==
    ASSUME Sized, NEW t, NEW from, NEW n, NEW v, NEW c, NEW u, u = Store(t, from, n, v, c),
           t \in Stream, from \in Int, n \in Nat, v \in Marks, c \in Int
    PROVE  /\ u \in Stream /\ u.cur = c
           /\ \A i \in Positions :
                  u.content[i] = IF from <= i /\ i < from + n THEN v ELSE t.content[i]
           /\ n = 0 \/ (0 <= from /\ from + n <= BUF_SIZE) => u.out = t.out
<1> DEFINE f == [i \in Positions |-> IF from <= i /\ i < from + n THEN v ELSE t.content[i]]
<1>1. t.content \in [Positions -> Marks] /\ t.out \in BOOLEAN BY DEF Stream
<1>2. f \in [Positions -> Marks] BY <1>1 DEF Positions
<1>3. u = [cur |-> c, content |-> f, out |-> u.out] BY DEF Store
<1>4. u.out \in BOOLEAN BY <1>1 DEF Store
<1>5. n = 0 \/ (0 <= from /\ from + n <= BUF_SIZE) => u.out = t.out
  BY <1>1 DEF Store, Sized
<1>6. u \in Stream BY <1>2, <1>3, <1>4 DEF Stream
<1> QED BY <1>3, <1>5, <1>6

\* Text from _cur on and a '\0' behind it or as the last byte, with _cur at the
\* end of the text or, if only the last byte is not text, at the end of _content.
LEMMA WriteSound ==
    ASSUME Sized, NEW d, NEW t, NEW n, NEW e, NEW from, NEW c,
           NEW u, u = Store(Store(t, d, n, "text", e), from, 1, "nul", c),
           d \in Nat, t \in Sound(d), n \in Nat, e \in Int, from \in Nat, c \in Nat,
           d + n <= BUF_SIZE, c <= BUF_SIZE, c <= d + n \/ d + n = BUF_SIZE - 1,
           from < BUF_SIZE, from >= c \/ from = BUF_SIZE - 1
    PROVE  u \in Sound(c)
<1>1. t \in Stream /\ BUF_SIZE \in Nat /\ from + 1 <= BUF_SIZE BY DEF Sound, Sized
<1>2. "text" \in Marks /\ "nul" \in Marks BY DEF Marks
<1>3. PICK v : v = Store(t, d, n, "text", e) OBVIOUS
<1>4. /\ v \in Stream /\ v.out = t.out
      /\ \A i \in Positions : v.content[i] = IF d <= i /\ i < d + n THEN "text" ELSE t.content[i]
  BY <1>1, <1>2, <1>3, StoreFacts
<1>5. u = Store(v, from, 1, "nul", c) BY <1>3
<1>6. /\ u \in Stream /\ u.cur = c /\ u.out = v.out
      /\ \A i \in Positions : u.content[i] = IF from <= i /\ i < from + 1 THEN "nul" ELSE v.content[i]
  BY <1>1, <1>2, <1>4, <1>5, StoreFacts
<1>7. ~t.out /\ d <= BUF_SIZE /\ \A i \in 0 .. d - 1 : i # BUF_SIZE - 1 => t.content[i] = "text"
  BY DEF Sound
<1>8. ASSUME NEW i \in 0 .. c - 1, i # BUF_SIZE - 1 PROVE u.content[i] = "text"
  <2>1. i \in Positions /\ i # from BY <1>1, <1>8 DEF Positions
  <2>2. u.content[i] = v.content[i] BY <1>6, <2>1
  <2>3. CASE d <= i
    <3>1. i < d + n BY <1>1, <1>8, <2>3
    <3> QED BY <1>4, <2>1, <2>2, <2>3, <3>1
  <2>4. CASE ~(d <= i)
    <3>1. i \in 0 .. d - 1 BY <2>4
    <3> QED BY <1>4, <1>7, <1>8, <2>1, <2>2, <2>4, <3>1
  <2> QED BY <2>3, <2>4
<1>9. ~u.out BY <1>4, <1>6, <1>7
<1> QED BY <1>6, <1>8, <1>9 DEF Sound

\* Where _cur is after n bytes, as far as there is room for them.
Room(d, n) == IF d + n <= BUF_SIZE THEN d + n ELSE BUF_SIZE

LEMMA RoomFacts ==
    ASSUME Sized, NEW d, NEW n, d \in Nat, n \in Nat, d <= BUF_SIZE
    PROVE  Room(d, n) \in Nat /\ d <= Room(d, n) /\ Room(d, n) <= BUF_SIZE
  BY DEF Room, Sized

\* writeString leaves the stream sound, and writes what there is room for.
LEMMA StringSound ==
    ASSUME Sized, NEW d, NEW t, NEW len, d \in Nat, t \in Sound(d), len \in Nat
    PROVE  writeString(t, len) \in Sound(Room(d, len))
<1>1. t.cur = d /\ d <= BUF_SIZE /\ BUF_SIZE \in Nat BY DEF Sound, Sized
<1>2. CASE d >= BUF_SIZE
  BY <1>1, <1>2 DEF writeString, Room
<1>3. CASE d < BUF_SIZE
  <2>1. PICK n \in Nat : n = Least(len, BUF_SIZE - d) /\ d + n <= BUF_SIZE /\ d + n = Room(d, len)
    BY <1>1, <1>3 DEF Least, Room
  <2>2. PICK from \in Nat : /\ from = Terminator(d + n) /\ from < BUF_SIZE
                            /\ from >= d + n \/ from = BUF_SIZE - 1
    BY <1>1, <2>1 DEF Terminator, Sized
  <2>3. writeString(t, len) = Store(Store(t, d, n, "text", d + n), from, 1, "nul", d + n)
    BY <1>1, <1>3, <2>1, <2>2 DEF writeString
  <2>4. writeString(t, len) \in Sound(d + n) BY <2>1, <2>2, <2>3, WriteSound
  <2> QED BY <2>1, <2>4
<1> QED BY <1>1, <1>2, <1>3

\* So does writeData; when snprintf fails nothing is written.
LEMMA DataSound ==
    ASSUME Sized, NEW d, NEW t, NEW len, d \in Nat, t \in Sound(d), len \in Int
    PROVE  writeData(t, len) \in Sound(IF len < 0 THEN d ELSE Room(d, len))
<1>1. t.cur = d /\ d <= BUF_SIZE /\ BUF_SIZE \in Nat /\ t \in Stream BY DEF Sound, Sized
<1>2. CASE d = BUF_SIZE
  BY <1>1, <1>2, SMTT(30) DEF writeData, Room
<1>3. CASE d < BUF_SIZE /\ len < 0
  <2>1. writeData(t, len) = Store(t, d, 1, "nul", d) BY <1>1, <1>3 DEF writeData
  <2>2. PICK u : u = Store(t, d, 1, "nul", d) OBVIOUS
  <2>3. "nul" \in Marks BY DEF Marks
  <2>4. /\ u \in Stream /\ u.cur = d /\ u.out = t.out
        /\ \A i \in Positions : u.content[i] = IF d <= i /\ i < d + 1 THEN "nul" ELSE t.content[i]
    BY <1>1, <1>3, <2>2, <2>3, StoreFacts
  <2>5. u \in Sound(d) BY <1>1, <2>4 DEF Sound, Positions
  <2> QED BY <1>3, <2>1, <2>2, <2>5
<1>4. CASE d < BUF_SIZE /\ len >= BUF_SIZE - d
  <2>1. writeData(t, len) =
            Store(Store(t, d, BUF_SIZE - d - 1, "text", BUF_SIZE), BUF_SIZE - 1, 1, "nul", BUF_SIZE)
    BY <1>1, <1>4, SMTT(30) DEF writeData
  <2>2. PICK n \in Nat : n = BUF_SIZE - d - 1 BY <1>1, <1>4
  <2>3. writeData(t, len) \in Sound(BUF_SIZE)
    <3>1. BUF_SIZE - 1 \in Nat /\ BUF_SIZE - 1 < BUF_SIZE /\ BUF_SIZE \in Int /\ d + n = BUF_SIZE - 1
      BY <1>1, <1>4, <2>2
    <3> QED BY <1>1, <2>1, <2>2, <3>1, WriteSound
  <2> QED BY <1>1, <1>4, <2>3 DEF Room
<1>5. CASE len >= 0 /\ len < BUF_SIZE - d
  <2>1. writeData(t, len) = Store(Store(t, d, len, "text", d), d + len, 1, "nul", d + len)
    BY <1>1, <1>5, SMTT(30) DEF writeData, DataEnd
  <2>2. writeData(t, len) \in Sound(d + len)
    <3>1. len \in Nat /\ d + len \in Nat /\ d + len < BUF_SIZE /\ d \in Int BY <1>1, <1>5
    <3> QED BY <1>1, <2>1, <3>1, WriteSound
  <2> QED BY <1>1, <1>5, <2>2 DEF Room
<1> QED BY <1>1, <1>2, <1>3, <1>4, <1>5

\* The sound streams whose _cur is at d or behind it.
Grown(d) == {t \in Stream : t.cur \in Nat /\ d <= t.cur /\ t \in Sound(t.cur)}

LEMMA SoundGrown ==
    ASSUME NEW d, NEW e, NEW t, d \in Nat, e \in Nat, d <= e, t \in Sound(e)
    PROVE  t \in Grown(d)
<1>1. t \in Stream /\ t.cur = e BY DEF Sound
<1> QED BY <1>1 DEF Grown

LEMMA StringGrown ==
    ASSUME Sized, NEW d, NEW t, NEW len, d \in Nat, t \in Grown(d), len \in Nat
    PROVE  writeString(t, len) \in Grown(Room(d, len))
<1>1. PICK e \in Nat : d <= e /\ t \in Sound(e) BY DEF Grown
<1>2. writeString(t, len) \in Sound(Room(e, len)) BY <1>1, StringSound
<1>3. /\ Room(d, len) \in Nat /\ Room(e, len) \in Nat /\ Room(d, len) <= Room(e, len)
  BY <1>1 DEF Room, Sized
<1> QED BY <1>2, <1>3, SoundGrown

LEMMA DataGrown ==
    ASSUME Sized, NEW d, NEW t, NEW len, d \in Nat, t \in Grown(d), len \in Int
    PROVE  writeData(t, len) \in Grown(d)
<1>1. PICK e \in Nat : d <= e /\ e <= BUF_SIZE /\ t \in Sound(e) BY DEF Grown, Sound
<1>2. PICK c \in Nat : e <= c /\ writeData(t, len) \in Sound(c)
  <2>1. CASE len < 0
    <3>1. writeData(t, len) \in Sound(e) BY <1>1, <2>1, DataSound
    <3> QED BY <3>1
  <2>2. CASE len >= 0
    <3>1. writeData(t, len) \in Sound(Room(e, len)) BY <1>1, <2>2, DataSound
    <3>2. len \in Nat BY <2>2
    <3> QED BY <1>1, <3>1, <3>2, RoomFacts
  <2> QED BY <2>1, <2>2
<1>3. d <= c BY <1>1, <1>2
<1> QED BY <1>2, <1>3, SoundGrown

\* A row of a dump.
LEMMA RowGrown ==
    ASSUME Sized, NEW d, NEW t, NEW len, NEW i, d \in Nat, t \in Grown(d), len \in Nat, i \in Nat
    PROVE  BinaryRow(t, len, i) \in Grown(d)
<1>1. ASSUME NEW u \in Grown(d), NEW b \in Int PROVE BinaryLine(u, b) \in Grown(d)
  <2>1. 3 \in Int /\ 16 \in Int /\ 2 \in Int /\ 3 * b \in Int OBVIOUS
  <2>2. PICK v : v = writeData(u, 3) /\ v \in Grown(d) BY <2>1, DataGrown
  <2>3. PICK w : w = writeData(v, 16) /\ w \in Grown(d) BY <2>1, <2>2, DataGrown
  <2>4. PICK x : x = writeData(w, 2) /\ x \in Grown(d) BY <2>1, <2>3, DataGrown
  <2>5. writeData(x, 3 * b) \in Grown(d) BY <2>1, <2>4, DataGrown
  <2> QED BY <2>2, <2>3, <2>4, <2>5 DEF BinaryLine
<1>2. PICK b \in Int : b = Least(len - 16 * (i - 1), 16)
  <2>1. len - 16 * (i - 1) \in Int OBVIOUS
  <2>2. Least(len - 16 * (i - 1), 16) \in Int BY <2>1 DEF Least
  <2> QED BY <2>2
<1>3. BinaryRow(t, len, i) = BinaryLine(BinaryLine(t, b), b) BY <1>2 DEF BinaryRow
<1> QED BY <1>1, <1>3

\* The recursive function of writeBinary is what its definition says.
LEMMA RowsDef ==
    ASSUME NEW t, NEW len, len \in Nat
    PROVE  LET N == (len \div 16) + 1
               f == BinaryRows(t, len)
           IN  f = [i \in 0 .. N |-> IF i = 0 THEN writeData(t, 4)
                                             ELSE BinaryRow(f[i - 1], len, i)]
<1> DEFINE N == (len \div 16) + 1
           Is(g, k) == g = [i \in 0 .. k |-> IF i = 0 THEN writeData(t, 4)
                                                     ELSE BinaryRow(g[i - 1], len, i)]
           S == {k \in 0 .. N : \E g : Is(g, k)}
<1>1. N \in Nat OBVIOUS
<1>2. 0 \in S
  <2> DEFINE g == [i \in 0 .. 0 |-> writeData(t, 4)]
  <2>1. \A i \in 0 .. 0 : i = 0 /\ g[i] = writeData(t, 4) OBVIOUS
  <2>2. g = [i \in 0 .. 0 |-> g[i]] OBVIOUS
  <2> HIDE DEF g
  <2>3. Is(g, 0) BY <2>1, <2>2
  <2> QED BY <1>1, <2>3
<1>3. ASSUME NEW k \in 1 .. N, k - 1 \in S PROVE k \in S
  <2>1. PICK g : Is(g, k - 1) BY <1>3
  <2> DEFINE h == [i \in 0 .. k |-> IF i = k THEN BinaryRow(g[k - 1], len, k) ELSE g[i]]
  <2>2. ASSUME NEW i \in 0 .. k
        PROVE  h[i] = IF i = 0 THEN writeData(t, 4) ELSE BinaryRow(h[i - 1], len, i)
    <3>1. CASE i = k BY <3>1
    <3>2. CASE i # k /\ i = 0 BY <3>2, <2>1
    <3>3. CASE i # k /\ i # 0
      <4>1. i \in 0 .. k - 1 /\ i - 1 \in 0 .. k - 1 BY <3>3
      <4>2. g[i] = BinaryRow(g[i - 1], len, i) BY <2>1, <3>3, <4>1
      <4>3. h[i] = g[i] /\ h[i - 1] = g[i - 1] BY <3>3, <4>1
      <4> QED BY <3>3, <4>2, <4>3
    <3> QED BY <3>1, <3>2, <3>3
  <2> HIDE DEF h
  <2>3. h = [i \in 0 .. k |-> h[i]] BY DEF h
  <2>4. Is(h, k) BY <2>2, <2>3
  <2> QED BY <2>4
<1>4. \E g : Is(g, N)
  <2> HIDE DEF N, Is
  <2>1. 0 .. N \subseteq S BY <1>1, <1>2, <1>3, UpTo
  <2> QED BY <1>1, <2>1
<1>5. BinaryRows(t, len) = CHOOSE g : Is(g, N) BY DEF BinaryRows
<1>6. Is(BinaryRows(t, len), N) BY <1>4, <1>5
<1> QED BY <1>6

LEMMA BinaryGrown ==
    ASSUME Sized, NEW d, NEW t, NEW len, d \in Nat, t \in Grown(d), len \in Nat
    PROVE  writeBinary(t, len) \in Grown(d)
<1> DEFINE N == (len \div 16) + 1
           f == BinaryRows(t, len)
           S == {i \in 0 .. N : f[i] \in Grown(d)}
<1>1. N \in Nat /\ 4 \in Int /\ 7 \in Int OBVIOUS
<1>2. /\ f[0] = writeData(t, 4)
      /\ \A i \in 1 .. N : f[i] = BinaryRow(f[i - 1], len, i)
  BY <1>1, RowsDef
<1> HIDE DEF f, N
<1>3. 0 \in S BY <1>1, <1>2, DataGrown
<1>4. ASSUME NEW i \in 1 .. N, i - 1 \in S PROVE i \in S BY <1>1, <1>2, <1>4, RowGrown
<1>5. 0 .. N \subseteq S BY <1>1, <1>3, <1>4, UpTo
<1>6. f[N] \in Grown(d) BY <1>1, <1>5
<1> QED BY <1>1, <1>6, DataGrown DEF writeBinary, f, N

-----------------------------------------------------------------------------
\* Inside a container or a pair at least two bytes follow the time and the level, for
\* "_cur -= 2" to step back over.
Floor(p) == IF p = <<>> THEN Prefix ELSE Prefix + 2

TextInv ==
    /\ TextTypeOK /\ ~text.out
    /\ pc = "stream" => text \in Grown(Floor(stack))
    /\ pc = "push" => text \in Grown(Prefix)
    /\ pc = "queued" => 0 < text.cur /\ text.cur < BUF_SIZE
    /\ WholeText

LEMMA FloorFacts ==
    ASSUME Sized, NEW p
    PROVE  Floor(p) \in Nat /\ Prefix <= Floor(p) /\ Floor(p) <= BUF_SIZE
  BY DEF Floor, Sized

\* A stream that has grown further has grown as far.
LEMMA GrownLess ==
    ASSUME NEW d, NEW e, NEW t, d \in Nat, e \in Nat, d <= e, t \in Grown(e)
    PROVE  t \in Grown(d)
  BY DEF Grown

\* What is true of a stream that has grown.
LEMMA GrownFacts ==
    ASSUME Sized, NEW d, NEW t, d \in Nat, t \in Grown(d)
    PROVE  /\ t \in Stream /\ ~t.out /\ t.cur \in Nat /\ d <= t.cur /\ t.cur <= BUF_SIZE
           /\ \A i \in 0 .. t.cur - 1 : i # BUF_SIZE - 1 => t.content[i] = "text"
           /\ t \in Sound(t.cur)
  BY DEF Grown, Sound

\* A step that leaves the message being streamed or about to be pushed.
LEMMA StillWritten ==
    ASSUME Sized, stack' \in Seq(Container), ops' \in Nat,
           \/ pc' = "stream" /\ text' \in Grown(Floor(stack'))
           \/ pc' = "push" /\ text' \in Grown(Prefix)
    PROVE  TextInv'
<1>1. PICK d \in Nat : text' \in Grown(d) BY FloorFacts DEF Sized
<1>2. text' \in Stream /\ ~text'.out BY <1>1, GrownFacts
<1> QED BY <1>2 DEF TextInv, TextTypeOK, WholeText

LEMMA WrittenGrown ==
    ASSUME Sized, NEW d, d \in Nat, text \in Grown(d), NEW kind, NEW len,
           \/ kind \in {"text", "data", "binary"} /\ len \in Nat
           \/ kind = "data" /\ len = -1
    PROVE  Written(kind, len) \in Grown(d)
<1>1. d <= BUF_SIZE BY GrownFacts DEF Sized
<1>2. ASSUME NEW t, t \in Grown(d), NEW n, n \in Nat PROVE writeString(t, n) \in Grown(d)
  <2>1. writeString(t, n) \in Grown(Room(d, n)) BY <1>2, StringGrown
  <2>2. Room(d, n) \in Nat /\ d <= Room(d, n) BY <1>1, <1>2, RoomFacts
  <2> QED BY <2>1, <2>2, GrownLess
<1>3. CASE kind = "text" BY <1>2, <1>3 DEF Written
<1>4. CASE kind = "data"
  <2>1. len \in Int BY <1>4
  <2> QED BY <1>4, <2>1, DataGrown DEF Written
<1>5. CASE kind = "binary" BY <1>5, BinaryGrown DEF Written
<1> QED BY <1>3, <1>4, <1>5

\* What follows an element: one byte in a pair, two in a container.
LEMMA SeparatedGrown ==
    ASSUME Sized, NEW d, NEW t, NEW p, d \in Nat, t \in Grown(d)
    PROVE  Separated(t, p) \in Grown(IF p = <<>> THEN d ELSE Room(d, 1))
<1>1. CASE p = <<>> BY <1>1 DEF Separated
<1>2. CASE p # <<>>
  <2>1. PICK n : n = IF p[Len(p)].pair THEN 1 ELSE 2 OBVIOUS
  <2>2. n \in {1, 2} /\ n \in Nat BY <2>1
  <2>3. Separated(t, p) = writeString(t, n) BY <1>2, <2>1 DEF Separated
  <2>4. writeString(t, n) \in Grown(Room(d, n)) BY <2>2, StringGrown
  <2>5. d <= BUF_SIZE /\ BUF_SIZE \in Nat BY GrownFacts DEF Sized
  <2>6. Room(d, 1) \in Nat /\ Room(d, n) \in Nat /\ Room(d, 1) <= Room(d, n)
    BY <2>2, <2>5 DEF Room
  <2> QED BY <1>2, <2>3, <2>4, <2>6, GrownLess
<1> QED BY <1>1, <1>2

\* The innermost container has taken another element.
LEMMA TakenFacts ==
    ASSUME stack \in Seq(Container), AtElement
    PROVE  Taken \in Seq(Container) /\ (Taken = <<>> <=> stack = <<>>)
<1>1. CASE stack = <<>> BY <1>1 DEF Taken
<1>2. CASE stack # <<>>
  <2>1. PICK n : n = Len(stack) OBVIOUS
  <2>2. n \in 1 .. Len(stack) /\ stack[n] \in Container BY <1>2, <2>1
  <2>3. PICK c : c = [stack[n] EXCEPT !.left = @ - 1, !.shown = @ + 1] OBVIOUS
  <2>4. stack[n].left > 0 BY <1>2, <2>1 DEF AtElement
  <2>5. c \in Container
    <3>1. PICK x : x = stack[n] /\ x \in Container /\ x.left > 0 BY <2>2, <2>4
    <3>2. /\ x = [pair |-> x.pair, left |-> x.left, shown |-> x.shown] /\ x.pair \in BOOLEAN
          /\ x.left \in Nat /\ x.shown \in Nat
      BY <3>1 DEF Container
    <3>3. c = [pair |-> x.pair, left |-> x.left - 1, shown |-> x.shown + 1] BY <2>3, <3>1, <3>2
    <3>4. x.left - 1 \in Nat /\ x.shown + 1 \in Nat BY <3>1, <3>2
    <3> QED BY <3>2, <3>3, <3>4 DEF Container
  <2>6. Taken = [stack EXCEPT ![n] = c] BY <1>2, <2>1, <2>2, <2>3 DEF Taken, Container
  <2> QED BY <1>2, <2>2, <2>5, <2>6
<1> QED BY <1>1, <1>2

LEMMA NextOpsNat ==
    ASSUME ops \in Nat
    PROVE  NextOps \in Nat
  BY DEF NextOps

LEMMA PutInv ==
    ASSUME Sized, TextInv, NEW kind, NEW len,
           \/ kind \in {"text", "data", "binary"} /\ len \in Nat
           \/ kind = "data" /\ len = -1,
           Put(kind, len)
    PROVE  TextInv'
<1> DEFINE d == Floor(stack)
<1>1. pc = "stream" /\ AtElement /\ stack \in Seq(Container) /\ ops \in Nat
  BY DEF Put, TextInv, TextTypeOK
<1>2. d \in Nat /\ d <= BUF_SIZE BY FloorFacts
<1>3. text \in Grown(d) BY <1>1 DEF TextInv
<1> HIDE DEF d
<1>4. Written(kind, len) \in Grown(d) BY <1>2, <1>3, WrittenGrown
<1>5. text' = Separated(Written(kind, len), stack) BY DEF Put
<1>6. text' \in Grown(IF stack = <<>> THEN d ELSE Room(d, 1)) BY <1>2, <1>4, <1>5, SeparatedGrown
<1>7. d <= Room(d, 1) /\ Room(d, 1) \in Nat BY <1>2, RoomFacts
<1>8. text' \in Grown(d) BY <1>2, <1>6, <1>7, GrownLess
<1>9. stack' \in Seq(Container) /\ (stack' = <<>> <=> stack = <<>>) /\ ops' \in Nat /\ pc' = "stream"
  BY <1>1, TakenFacts, NextOpsNat DEF Put
<1>10. Floor(stack') = d BY <1>9 DEF Floor, d
<1> QED BY <1>8, <1>9, <1>10, StillWritten

LEMMA OpenContainerInv ==
    ASSUME Sized, TextInv, NEW name \in 4 .. 7, NEW digits, digits \in Nat, NEW size \in 0 .. DEPTH + 1,
           OpenContainer(name, digits, size)
    PROVE  TextInv'
<1>1. pc = "stream" /\ AtElement /\ stack \in Seq(Container) /\ ops \in Nat
  BY DEF OpenContainer, TextInv, TextTypeOK
<1>2. text \in Grown(Prefix) /\ Prefix \in Nat /\ Prefix + 2 \in Nat
  <2>1. text \in Grown(Floor(stack)) BY <1>1 DEF TextInv
  <2> QED BY <2>1, FloorFacts, GrownLess DEF Sized
<1>3. PICK u : u = writeString(text, name) /\ u \in Grown(Prefix + 2)
  <2>1. writeString(text, name) \in Grown(Room(Prefix, name)) BY <1>2, StringGrown
  <2>2. Prefix + 2 <= Room(Prefix, name) /\ Room(Prefix, name) \in Nat BY DEF Room, Sized
  <2> QED BY <1>2, <2>1, <2>2, GrownLess
<1>4. PICK v : v = writeData(u, digits) /\ v \in Grown(Prefix + 2)
  <2>1. digits \in Int OBVIOUS
  <2> QED BY <1>2, <1>3, <2>1, DataGrown
<1>5. writeString(v, 2) \in Grown(Prefix + 2)
  <2>1. writeString(v, 2) \in Grown(Room(Prefix + 2, 2)) BY <1>2, <1>4, StringGrown
  <2>2. Prefix + 2 <= Room(Prefix + 2, 2) /\ Room(Prefix + 2, 2) \in Nat BY DEF Room, Sized
  <2> QED BY <1>2, <2>1, <2>2, GrownLess
<1>6. text' \in Grown(Prefix + 2) BY <1>3, <1>4, <1>5 DEF OpenContainer
<1>7. [pair |-> FALSE, left |-> size, shown |-> 0] \in Container BY DEF Container, Sized
<1>8. stack' \in Seq(Container) /\ stack' # <<>> /\ ops' \in Nat /\ pc' = "stream"
  BY <1>1, <1>7, TakenFacts, NextOpsNat DEF OpenContainer
<1>9. Floor(stack') = Prefix + 2 BY <1>8 DEF Floor
<1> QED BY <1>6, <1>8, <1>9, StillWritten

LEMMA OpenPairInv ==
    ASSUME Sized, TextInv, OpenPair
    PROVE  TextInv'
<1>1. pc = "stream" /\ AtElement /\ stack \in Seq(Container) /\ ops \in Nat
  BY DEF OpenPair, TextInv, TextTypeOK
<1>2. text \in Grown(Prefix) /\ Prefix \in Nat /\ Prefix + 2 \in Nat
  <2>1. text \in Grown(Floor(stack)) BY <1>1 DEF TextInv
  <2> QED BY <2>1, FloorFacts, GrownLess DEF Sized
<1>3. text' \in Grown(Prefix + 2)
  <2>1. writeString(text, 5) \in Grown(Room(Prefix, 5)) BY <1>2, StringGrown
  <2>2. Prefix + 2 <= Room(Prefix, 5) /\ Room(Prefix, 5) \in Nat BY DEF Room, Sized
  <2>3. writeString(text, 5) \in Grown(Prefix + 2) BY <1>2, <2>1, <2>2, GrownLess
  <2> QED BY <2>3 DEF OpenPair
<1>4. [pair |-> TRUE, left |-> 2, shown |-> 0] \in Container BY DEF Container
<1>5. stack' \in Seq(Container) /\ stack' # <<>> /\ ops' \in Nat /\ pc' = "stream"
  BY <1>1, <1>4, TakenFacts, NextOpsNat DEF OpenPair
<1>6. Floor(stack') = Prefix + 2 BY <1>5 DEF Floor
<1> QED BY <1>3, <1>5, <1>6, StillWritten

LEMMA EllipsisInv ==
    ASSUME Sized, TextInv, Ellipsis
    PROVE  TextInv'
<1>1. pc = "stream" /\ stack \in Seq(Container) /\ stack # <<>> /\ ops \in Nat
  BY DEF Ellipsis, TextInv, TextTypeOK
<1>2. text \in Grown(Prefix + 2) /\ Prefix + 2 \in Nat BY <1>1 DEF TextInv, Floor, Sized
<1>3. text' \in Grown(Prefix + 2)
  <2>1. writeString(text, 5) \in Grown(Room(Prefix + 2, 5)) BY <1>2, StringGrown
  <2>2. Prefix + 2 <= Room(Prefix + 2, 5) /\ Room(Prefix + 2, 5) \in Nat BY DEF Room, Sized
  <2>3. writeString(text, 5) \in Grown(Prefix + 2) BY <1>2, <2>1, <2>2, GrownLess
  <2> QED BY <2>3 DEF Ellipsis
<1>4. stack' \in Seq(Container) /\ stack' # <<>> /\ ops' \in Nat /\ pc' = "stream"
  <2>1. PICK n : n = Len(stack) /\ n \in 1 .. Len(stack) BY <1>1
  <2>2. stack[n] \in Container BY <1>1, <2>1
  <2>3. PICK c : c = [stack[n] EXCEPT !.left = 0] OBVIOUS
  <2>4. c \in Container BY <2>2, <2>3 DEF Container
  <2>5. stack' = [stack EXCEPT ![n] = c] BY <2>1, <2>3 DEF Ellipsis
  <2> QED BY <1>1, <2>1, <2>4, <2>5 DEF Ellipsis
<1>5. Floor(stack') = Prefix + 2 BY <1>4 DEF Floor
<1> QED BY <1>3, <1>4, <1>5, StillWritten

LEMMA CloseContainerInv ==
    ASSUME Sized, TextInv, CloseContainer
    PROVE  TextInv'
<1> DEFINE outer == SubSeq(stack, 1, Len(stack) - 1)
           back  == Unseparated(text.cur, stack[Len(stack)].shown)
<1>1. pc = "stream" /\ stack \in Seq(Container) /\ stack # <<>> /\ ops \in Nat
  BY DEF CloseContainer, TextInv, TextTypeOK
<1>2. text \in Grown(Prefix + 2) /\ Prefix + 2 \in Nat /\ Prefix \in Nat /\ BUF_SIZE \in Nat
  BY <1>1 DEF TextInv, Floor, Sized
<1>3. /\ text \in Stream /\ text.cur \in Nat /\ Prefix + 2 <= text.cur /\ text.cur <= BUF_SIZE /\ ~text.out
      /\ \A i \in 0 .. text.cur - 1 : i # BUF_SIZE - 1 => text.content[i] = "text"
  BY <1>2, GrownFacts
<1>4. PICK b \in Nat : b = back /\ Prefix <= b /\ b <= text.cur
  BY <1>2, <1>3 DEF Unseparated
<1>5. PICK u : u = Store(text, 0, 0, "text", b) OBVIOUS
<1>6. u \in Grown(Prefix)
  <2>1. "text" \in Marks /\ 0 \in Int /\ 0 \in Nat /\ b \in Int BY DEF Marks
  <2>2. /\ u \in Stream /\ u.cur = b /\ u.out = text.out
        /\ \A i \in Positions : u.content[i] = IF 0 <= i /\ i < 0 + 0 THEN "text" ELSE text.content[i]
    BY <1>3, <1>5, <2>1, StoreFacts
  <2>3. u \in Sound(b) BY <1>2, <1>3, <1>4, <2>2 DEF Sound, Positions
  <2> QED BY <1>2, <1>4, <2>3, SoundGrown
<1>7. writeString(u, 1) \in Grown(Prefix + 1)
  <2>1. writeString(u, 1) \in Grown(Room(Prefix, 1)) BY <1>2, <1>6, StringGrown
  <2>2. Room(Prefix, 1) = Prefix + 1 BY DEF Room, Sized
  <2> QED BY <2>1, <2>2
<1>8. text' = Separated(writeString(u, 1), outer) /\ stack' = outer /\ pc' = "stream" /\ ops' = ops
  BY <1>1, <1>4, <1>5 DEF CloseContainer
<1>9. text' \in Grown(IF outer = <<>> THEN Prefix + 1 ELSE Room(Prefix + 1, 1))
  <2>1. Prefix + 1 \in Nat BY <1>2
  <2> QED BY <1>7, <1>8, <2>1, SeparatedGrown
<1>10. /\ Floor(outer) \in Nat /\ Floor(outer) <= IF outer = <<>> THEN Prefix + 1 ELSE Room(Prefix + 1, 1)
       /\ (IF outer = <<>> THEN Prefix + 1 ELSE Room(Prefix + 1, 1)) \in Nat
  BY DEF Floor, Room, Sized
<1>11. text' \in Grown(Floor(stack')) BY <1>8, <1>9, <1>10, GrownLess
<1>12. stack' \in Seq(Container) BY <1>1, <1>8
<1> QED BY <1>1, <1>8, <1>11, <1>12, StillWritten

LEMMA ClosePairInv ==
    ASSUME Sized, TextInv, ClosePair
    PROVE  TextInv'
<1>1. PICK outer : outer = SubSeq(stack, 1, Len(stack) - 1) OBVIOUS
<1>2. pc = "stream" /\ stack \in Seq(Container) /\ stack # <<>> /\ ops \in Nat
  BY DEF ClosePair, TextInv, TextTypeOK
<1>3. text \in Grown(Prefix + 2) /\ Prefix + 2 \in Nat BY <1>2 DEF TextInv, Floor, Sized
<1>4. text' = Separated(text, outer) /\ stack' = outer /\ pc' = "stream" /\ ops' = ops
  BY <1>1 DEF ClosePair
<1>5. text' \in Grown(IF outer = <<>> THEN Prefix + 2 ELSE Room(Prefix + 2, 1))
  BY <1>3, <1>4, SeparatedGrown
<1>6. /\ Floor(outer) \in Nat /\ Floor(outer) <= IF outer = <<>> THEN Prefix + 2 ELSE Room(Prefix + 2, 1)
      /\ (IF outer = <<>> THEN Prefix + 2 ELSE Room(Prefix + 2, 1)) \in Nat
  BY DEF Floor, Room, Sized
<1>7. text' \in Grown(Floor(stack')) BY <1>4, <1>5, <1>6, GrownLess
<1>8. stack' \in Seq(Container) BY <1>1, <1>2, <1>4
<1> QED BY <1>2, <1>4, <1>7, <1>8, StillWritten

LEMMA MakeLogDataInv ==
    ASSUME Sized, TextInv, makeLogData
    PROVE  TextInv'
<1>1. text \in Stream /\ ~text.out /\ BUF_SIZE \in Nat /\ Prefix \in Nat /\ Prefix <= BUF_SIZE
  BY DEF TextInv, TextTypeOK, Sized
<1>2. "old" \in Marks /\ "text" \in Marks /\ 0 \in Int BY DEF Marks
<1>3. PICK u : u = Store(text, 0, BUF_SIZE, "old", 0) OBVIOUS
<1>4. u \in Stream /\ u.out = text.out
  <2>1. 0 + BUF_SIZE <= BUF_SIZE BY <1>1
  <2> QED BY <1>1, <1>2, <1>3, <2>1, StoreFacts
<1>5. text' = Store(u, 0, Prefix, "text", Prefix) BY <1>3 DEF makeLogData
<1>6. /\ text' \in Stream /\ text'.cur = Prefix /\ text'.out = u.out
      /\ \A i \in Positions : text'.content[i] = IF 0 <= i /\ i < 0 + Prefix THEN "text" ELSE u.content[i]
  <2>1. 0 + Prefix <= BUF_SIZE /\ Prefix \in Int BY <1>1
  <2> QED BY <1>1, <1>2, <1>4, <1>5, <2>1, StoreFacts
<1>7. text' \in Sound(Prefix) BY <1>1, <1>4, <1>6 DEF Sound, Positions
<1>8. text' \in Grown(Prefix) BY <1>1, <1>7, SoundGrown
<1>9. pc' = "stream" /\ stack' = <<>> /\ ops' = 0 BY DEF makeLogData
<1> QED BY <1>8, <1>9, StillWritten DEF Floor

\* LOG_FORMAT leaves _cur where writeData would.
LEMMA FormatInv ==
    ASSUME Sized, TextInv, NEW len, len \in Int, Format(len)
    PROVE  TextInv'
<1>1. pc = "stream" /\ stack = <<>> /\ BUF_SIZE \in Nat /\ Prefix \in Nat
  BY DEF Format, Sized
<1>2. text \in Grown(Prefix) BY <1>1 DEF TextInv, Floor
<1>3. PICK d \in Nat : d = text.cur /\ Prefix <= d /\ d <= BUF_SIZE /\ text \in Sound(d)
  BY <1>1, <1>2, GrownFacts
<1>4. PICK u : u = writeData(text, len) OBVIOUS
<1>5. PICK e \in Nat : /\ u \in Sound(e) /\ d <= e
                       /\ e = text.cur + (IF len < 0 THEN 0 ELSE Least(len, BUF_SIZE - text.cur))
  <2>1. u \in Sound(IF len < 0 THEN d ELSE Room(d, len)) BY <1>3, <1>4, DataSound
  <2>2. CASE len < 0
    <3>1. u \in Sound(d) BY <2>1, <2>2
    <3> QED BY <1>3, <2>2, <3>1
  <2>3. CASE len >= 0
    <3>1. Room(d, len) = d + Least(len, BUF_SIZE - d) /\ Room(d, len) \in Nat /\ d <= Room(d, len)
      BY <1>1, <1>3, <2>3, SMTT(30) DEF Room, Least
    <3> QED BY <1>3, <2>1, <2>3, <3>1
  <2> QED BY <2>2, <2>3
<1>6. text' = [u EXCEPT !.cur = e] BY <1>4, <1>5 DEF Format, Formatted
<1>7. text' = u
  <2>1. u \in Stream /\ u.cur = e BY <1>5 DEF Sound
  <2> QED BY <1>6, <2>1 DEF Stream
<1>8. text' \in Grown(Prefix)
  <2>1. Prefix <= e /\ e \in Nat BY <1>1, <1>3, <1>5
  <2>2. text' \in Sound(e) BY <1>5, <1>7
  <2> QED BY <1>1, <2>1, <2>2, SoundGrown
<1>9. pc' = "push" /\ stack' \in Seq(Container) /\ ops' \in Nat
  BY DEF Format, TextInv, TextTypeOK
<1> QED BY <1>8, <1>9, StillWritten

LEMMA PushLogInv ==
    ASSUME Sized, TextInv, NEW fileLine \in BOOLEAN, NEW name, name \in Nat, NEW digits, digits \in Nat,
           pushLog(fileLine, name, digits)
    PROVE  TextInv'
<1> DEFINE line == writeData(writeString(writeString(writeString(text, 1), name), 1), digits)
<1>1. pc = "push" /\ BUF_SIZE \in Nat /\ Prefix \in Nat /\ text \in Grown(Prefix) /\ Prefix <= BUF_SIZE
  BY DEF pushLog, Sized, TextInv
<1>2. PICK t : t = (IF fileLine THEN line ELSE text) OBVIOUS
<1>3. t \in Grown(Prefix)
  <2>1. ASSUME NEW v, v \in Grown(Prefix), NEW n, n \in Nat PROVE writeString(v, n) \in Grown(Prefix)
    <3>1. writeString(v, n) \in Grown(Room(Prefix, n)) BY <1>1, <2>1, StringGrown
    <3>2. Room(Prefix, n) \in Nat /\ Prefix <= Room(Prefix, n) BY <1>1, <2>1, RoomFacts
    <3> QED BY <1>1, <3>1, <3>2, GrownLess
  <2>2. 1 \in Nat /\ digits \in Int OBVIOUS
  <2>3. PICK u : u = writeString(text, 1) /\ u \in Grown(Prefix) BY <1>1, <2>1, <2>2
  <2>4. PICK v : v = writeString(u, name) /\ v \in Grown(Prefix) BY <2>1, <2>3
  <2>5. PICK w : w = writeString(v, 1) /\ w \in Grown(Prefix) BY <2>1, <2>2, <2>4
  <2>6. writeData(w, digits) \in Grown(Prefix) BY <1>1, <2>2, <2>5, DataGrown
  <2> QED BY <1>1, <1>2, <2>3, <2>4, <2>5, <2>6
<1>4. /\ t \in Stream /\ ~t.out /\ t.cur \in Nat /\ Prefix <= t.cur /\ t.cur <= BUF_SIZE
      /\ \A i \in 0 .. t.cur - 1 : i # BUF_SIZE - 1 => t.content[i] = "text"
  BY <1>1, <1>3, GrownFacts
<1>5. PICK l \in Nat : /\ l = Ended(t.cur) /\ 3 <= l /\ l <= BUF_SIZE
                       /\ l = t.cur + 3 \/ (l = t.cur /\ t.cur + 3 > BUF_SIZE)
  BY <1>4 DEF Ended, Sized
<1>6. text' = Store(Store(t, l - 3, 2, "text", t.cur), l - 1, 1, "nul", l - 1)
  BY <1>2, <1>5 DEF pushLog
<1>7. "text" \in Marks /\ "nul" \in Marks BY DEF Marks
<1>8. PICK v : v = Store(t, l - 3, 2, "text", t.cur) OBVIOUS
<1>9. /\ v \in Stream /\ v.out = t.out
      /\ \A i \in Positions : v.content[i] = IF l - 3 <= i /\ i < l - 3 + 2 THEN "text" ELSE t.content[i]
  <2>1. l - 3 \in Int /\ 0 <= l - 3 /\ l - 3 + 2 <= BUF_SIZE /\ t.cur \in Int /\ 2 \in Nat BY <1>1, <1>4, <1>5
  <2> QED BY <1>4, <1>7, <1>8, <2>1, StoreFacts
<1>10. /\ text' \in Stream /\ text'.out = v.out /\ text'.cur = l - 1
       /\ \A i \in Positions : text'.content[i] = IF l - 1 <= i /\ i < l - 1 + 1 THEN "nul" ELSE v.content[i]
  <2>1. l - 1 \in Int /\ 0 <= l - 1 /\ l - 1 + 1 <= BUF_SIZE /\ 1 \in Nat BY <1>1, <1>5
  <2> QED BY <1>6, <1>7, <1>8, <1>9, <2>1, StoreFacts
<1>11. /\ pc' = "queued" /\ stack' \in Seq(Container) /\ ops' \in Nat
  BY DEF pushLog, TextInv, TextTypeOK
<1>12. 0 < l - 1 /\ l - 1 < BUF_SIZE BY <1>1, <1>5
<1>13. ASSUME NEW i \in 0 .. l - 2 PROVE text'.content[i] = "text"
  <2>1. i \in Positions /\ i # l - 1 BY <1>1, <1>5 DEF Positions
  <2>2. text'.content[i] = v.content[i] BY <1>5, <1>10, <2>1
  <2>3. CASE l - 3 <= i BY <1>5, <1>9, <2>1, <2>2, <2>3
  <2>4. CASE i < l - 3
    <3>1. i \in 0 .. t.cur - 1 /\ i # BUF_SIZE - 1 BY <1>1, <1>4, <1>5, <2>4
    <3>2. v.content[i] = t.content[i] BY <1>5, <1>9, <2>1, <2>4
    <3> QED BY <1>4, <2>2, <3>1, <3>2
  <2> QED BY <1>5, <2>3, <2>4
<1>14. text'.content[l - 1] = "nul"
  <2>1. l - 1 \in Positions BY <1>1, <1>5 DEF Positions
  <2> QED BY <1>5, <1>10, <2>1
<1>15. WholeText'
  <2>1. text'.cur - 1 = l - 2 BY <1>5, <1>10
  <2> QED BY <1>10, <1>13, <1>14, <2>1 DEF WholeText
<1>16. TextTypeOK' BY <1>10, <1>11 DEF TextTypeOK
<1>17. ~text'.out BY <1>4, <1>9, <1>10
<1> QED BY <1>10, <1>11, <1>12, <1>15, <1>16, <1>17 DEF TextInv

LEMMA TextStep ==
    ASSUME Sized, TextInv, [TextNext]_textVars
    PROVE  TextInv'
<1>1. CASE UNCHANGED textVars BY <1>1 DEF TextInv, TextTypeOK, WholeText, textVars
<1>2. CASE makeLogData BY <1>2, MakeLogDataInv
<1>3. CASE Ellipsis BY <1>3, EllipsisInv
<1>4. CASE CloseContainer BY <1>4, CloseContainerInv
<1>5. CASE Streamed
  <2>1. text \in Grown(Prefix) BY <1>5 DEF Streamed, TextInv, Floor
  <2>2. /\ pc' = "push" /\ text' = text /\ stack' \in Seq(Container) /\ ops' \in Nat
    BY <1>5 DEF Streamed, TextInv, TextTypeOK
  <2> QED BY <2>1, <2>2, StillWritten
<1>6. CASE freeLogData
  BY <1>6 DEF freeLogData, TextInv, TextTypeOK, WholeText
<1>7. CASE \E kind \in {"text", "data", "binary"}, len \in Lengths : Put(kind, len)
  <2>1. Lengths \subseteq Nat BY DEF Sized
  <2> QED BY <1>7, <2>1, PutInv
<1>8. CASE Put("data", -1) BY <1>8, PutInv
<1>9. CASE \E name \in 4 .. 7, digits \in Digits, size \in 0 .. DEPTH + 1 : OpenContainer(name, digits, size)
  <2>1. Digits \subseteq Nat BY DEF Sized
  <2> QED BY <1>9, <2>1, OpenContainerInv
<1>10. CASE \E len \in Lengths \cup {-1} : Format(len)
  <2>1. Lengths \cup {-1} \subseteq Int BY DEF Sized
  <2> QED BY <1>10, <2>1, FormatInv
<1>11. CASE \E fileLine \in BOOLEAN, name \in Lengths, digits \in Digits : pushLog(fileLine, name, digits)
  <2>1. Lengths \subseteq Nat /\ Digits \subseteq Nat BY DEF Sized
  <2> QED BY <1>11, <2>1, PushLogInv
<1>12. CASE OpenPair BY <1>12, OpenPairInv
<1>13. CASE ClosePair BY <1>13, ClosePairInv
<1> QED
  BY <1>1, <1>2, <1>3, <1>4, <1>5, <1>6, <1>7, <1>8, <1>9, <1>10, <1>11, <1>12, <1>13 DEF TextNext

LEMMA TextInvariant == TextSpec => []TextInv
<1>0. Sized BY TextAssumption
<1>1. TextInit => TextInv
  <2> SUFFICES ASSUME TextInit PROVE TextInv OBVIOUS
  <2>1. text = [cur |-> 0, content |-> [i \in Positions |-> "old"], out |-> FALSE] BY DEF TextInit
  <2>2. [i \in Positions |-> "old"] \in [Positions -> Marks] BY DEF Marks
  <2>3. text \in Stream BY <2>1, <2>2 DEF Stream
  <2>4. TextTypeOK BY <2>3 DEF TextInit, TextTypeOK
  <2> QED BY <2>1, <2>4 DEF TextInit, TextInv, WholeText
<1>2. TextInv /\ [TextNext]_textVars => TextInv' BY <1>0, TextStep
<1> QED BY <1>1, <1>2, PTL DEF TextSpec

\* However long the texts and however nested the containers, for every size
\* of _content: no write of operator<<, writeString, writeData, writeBinary,
\* LOG_FORMAT or pushLog leaves it, and stepping back over a separator never
\* eats into the time and the level.
THEOREM ContentTheorem == TextSpec => []InContent
<1>0. Sized BY TextAssumption
<1>1. TextInv => InContent
  <2> SUFFICES ASSUME TextInv PROVE InContent OBVIOUS
  <2>1. TextTypeOK /\ ~text.out /\ (pc = "queued" => 0 < text.cur /\ text.cur < BUF_SIZE)
    BY DEF TextInv
  <2>2. ASSUME pc \in {"stream", "push"} PROVE Prefix <= text.cur /\ text.cur <= BUF_SIZE
    <3>1. PICK d \in Nat : Prefix <= d /\ text \in Grown(d) BY <1>0, <2>2, FloorFacts DEF TextInv, Sized
    <3>2. d <= text.cur /\ text.cur \in Nat /\ text.cur <= BUF_SIZE BY <1>0, <3>1, GrownFacts
    <3> QED BY <1>0, <3>1, <3>2 DEF Sized
  <2> QED BY <2>1, <2>2 DEF InContent
<1> QED BY <1>1, TextInvariant, PTL

\* A log that pushLog queues is text up to its _contentLen and '\0' there,
\* whatever truncation, separators and the earlier use of its LogData left.
THEOREM WholeTextTheorem == TextSpec => []WholeText
<1>1. TextInv => WholeText BY DEF TextInv
<1> QED BY <1>1, TextInvariant, PTL

-----------------------------------------------------------------------------
(* LogFiles: the recursive functions of the model, step by step.           *)

\* parseConfigFromString, line by line.
LEMMA ParsedDef ==
    ASSUME NEW c, Len(c) \in Nat
    PROVE  /\ Parsed(c)[0] = [key |-> "", out |-> <<>>]
           /\ \A i \in 1 .. Len(c) : Parsed(c)[i] = parseConfigLine(Parsed(c)[i - 1], c[i])
<1> DEFINE N == Len(c)
           Base == [key |-> "", out |-> <<>>]
           Step(x, i) == parseConfigLine(x, c[i])
           Is(g, k) == g = [i \in 0 .. k |-> IF i = 0 THEN Base ELSE Step(g[i - 1], i)]
           S == {k \in 0 .. N : \E g : Is(g, k)}
<1>1. N \in Nat OBVIOUS
<1>2. Parsed(c) = CHOOSE g : Is(g, N) BY DEF Parsed
<1> HIDE DEF N, Base, Step
<1>3. 0 \in S
  <2> DEFINE g == [i \in 0 .. 0 |-> Base]
  <2>1. \A i \in 0 .. 0 : i = 0 /\ g[i] = Base OBVIOUS
  <2>2. g = [i \in 0 .. 0 |-> g[i]] OBVIOUS
  <2> HIDE DEF g
  <2>3. Is(g, 0) BY <2>1, <2>2
  <2> QED BY <1>1, <2>3
<1>4. ASSUME NEW k \in 1 .. N, k - 1 \in S PROVE k \in S
  <2>1. PICK g : Is(g, k - 1) BY <1>4
  <2> DEFINE h == [i \in 0 .. k |-> IF i = k THEN Step(g[k - 1], k) ELSE g[i]]
  <2>2. ASSUME NEW i \in 0 .. k PROVE h[i] = IF i = 0 THEN Base ELSE Step(h[i - 1], i)
    <3>1. CASE i = k
      <4>1. i # 0 /\ i - 1 \in 0 .. k /\ i - 1 # k BY <3>1
      <4>2. h[i - 1] = g[k - 1] BY <3>1, <4>1
      <4> QED BY <3>1, <4>1, <4>2
    <3>2. CASE i # k /\ i = 0 BY <3>2, <2>1
    <3>3. CASE i # k /\ i # 0
      <4>1. i \in 0 .. k - 1 /\ i - 1 \in 0 .. k - 1 BY <3>3
      <4>2. g[i] = Step(g[i - 1], i) BY <2>1, <3>3, <4>1
      <4>3. h[i] = g[i] /\ h[i - 1] = g[i - 1] BY <3>3, <4>1
      <4> QED BY <3>3, <4>2, <4>3
    <3> QED BY <3>1, <3>2, <3>3
  <2> HIDE DEF h
  <2>3. h = [i \in 0 .. k |-> h[i]] BY DEF h
  <2>4. Is(h, k) BY <2>2, <2>3
  <2> QED BY <2>4
<1>5. \E g : Is(g, N)
  <2> HIDE DEF Is
  <2>1. 0 .. N \subseteq S BY <1>1, <1>3, <1>4, UpTo
  <2> QED BY <1>1, <2>1
<1>6. Is(Parsed(c), N) BY <1>2, <1>5
<1>7. Parsed(c)[0] = Base /\ \A i \in 1 .. N : Parsed(c)[i] = Step(Parsed(c)[i - 1], i)
  <2> DEFINE g == Parsed(c)
  <2>1. Is(g, N) BY <1>6
  <2> HIDE DEF g
  <2>2. g[0] = Base /\ \A i \in 1 .. N : g[i] = Step(g[i - 1], i) BY <1>1, <2>1
  <2> QED BY <2>2 DEF g
<1> QED BY <1>7 DEF N, Base, Step

\* The sum of the bytes, line by line.
LEMMA SumsDef ==
    ASSUME NEW c, Len(c) \in Nat
    PROVE  /\ Sums(c)[0] = 0
           /\ \A i \in 1 .. Len(c) : Sums(c)[i] = Sums(c)[i - 1] + Bytes(c[i])
<1> DEFINE N == Len(c)
           Base == 0
           Step(x, i) == x + Bytes(c[i])
           Is(g, k) == g = [i \in 0 .. k |-> IF i = 0 THEN Base ELSE Step(g[i - 1], i)]
           S == {k \in 0 .. N : \E g : Is(g, k)}
<1>1. N \in Nat OBVIOUS
<1>2. Sums(c) = CHOOSE g : Is(g, N) BY DEF Sums
<1> HIDE DEF N, Base, Step
<1>3. 0 \in S
  <2> DEFINE g == [i \in 0 .. 0 |-> Base]
  <2>1. \A i \in 0 .. 0 : i = 0 /\ g[i] = Base OBVIOUS
  <2>2. g = [i \in 0 .. 0 |-> g[i]] OBVIOUS
  <2> HIDE DEF g
  <2>3. Is(g, 0) BY <2>1, <2>2
  <2> QED BY <1>1, <2>3
<1>4. ASSUME NEW k \in 1 .. N, k - 1 \in S PROVE k \in S
  <2>1. PICK g : Is(g, k - 1) BY <1>4
  <2> DEFINE h == [i \in 0 .. k |-> IF i = k THEN Step(g[k - 1], k) ELSE g[i]]
  <2>2. ASSUME NEW i \in 0 .. k PROVE h[i] = IF i = 0 THEN Base ELSE Step(h[i - 1], i)
    <3>1. CASE i = k
      <4>1. i # 0 /\ i - 1 \in 0 .. k /\ i - 1 # k BY <3>1
      <4>2. h[i - 1] = g[k - 1] BY <3>1, <4>1
      <4> QED BY <3>1, <4>1, <4>2
    <3>2. CASE i # k /\ i = 0 BY <3>2, <2>1
    <3>3. CASE i # k /\ i # 0
      <4>1. i \in 0 .. k - 1 /\ i - 1 \in 0 .. k - 1 BY <3>3
      <4>2. g[i] = Step(g[i - 1], i) BY <2>1, <3>3, <4>1
      <4>3. h[i] = g[i] /\ h[i - 1] = g[i - 1] BY <3>3, <4>1
      <4> QED BY <3>3, <4>2, <4>3
    <3> QED BY <3>1, <3>2, <3>3
  <2> HIDE DEF h
  <2>3. h = [i \in 0 .. k |-> h[i]] BY DEF h
  <2>4. Is(h, k) BY <2>2, <2>3
  <2> QED BY <2>4
<1>5. \E g : Is(g, N)
  <2> HIDE DEF Is
  <2>1. 0 .. N \subseteq S BY <1>1, <1>3, <1>4, UpTo
  <2> QED BY <1>1, <2>1
<1>6. Is(Sums(c), N) BY <1>2, <1>5
<1>7. Sums(c)[0] = Base /\ \A i \in 1 .. N : Sums(c)[i] = Step(Sums(c)[i - 1], i)
  <2> DEFINE g == Sums(c)
  <2>1. Is(g, N) BY <1>6
  <2> HIDE DEF g
  <2>2. g[0] = Base /\ \A i \in 1 .. N : g[i] = Step(g[i - 1], i) BY <1>1, <2>1
  <2> QED BY <2>2 DEF g
<1> QED BY <1>7 DEF N, Base, Step

\* createLogger for the keys of a set, one after the other.
LEMMA CreationsDef ==
    ASSUME NEW ids, NEW ks
    PROVE  /\ Creations(ids, ks)[0] = ids
           /\ \A i \in 1 .. Len(KeyOrder) : Creations(ids, ks)[i] = IF KeyOrder[i] \in ks \ DOMAIN Creations(ids, ks)[i - 1] /\ ~Full(Creations(ids, ks)[i - 1])
                THEN With(Creations(ids, ks)[i - 1], KeyOrder[i], Cardinality(DOMAIN Creations(ids, ks)[i - 1])) ELSE Creations(ids, ks)[i - 1]
<1> DEFINE N == Len(KeyOrder)
           Base == ids
           Step(x, i) == IF KeyOrder[i] \in ks \ DOMAIN x /\ ~Full(x)
                THEN With(x, KeyOrder[i], Cardinality(DOMAIN x)) ELSE x
           Is(g, k) == g = [i \in 0 .. k |-> IF i = 0 THEN Base ELSE Step(g[i - 1], i)]
           S == {k \in 0 .. N : \E g : Is(g, k)}
<1>1. N \in Nat BY KeyAssumption
<1>2. Creations(ids, ks) = CHOOSE g : Is(g, N) BY DEF Creations
<1> HIDE DEF N, Base, Step
<1>3. 0 \in S
  <2> DEFINE g == [i \in 0 .. 0 |-> Base]
  <2>1. \A i \in 0 .. 0 : i = 0 /\ g[i] = Base OBVIOUS
  <2>2. g = [i \in 0 .. 0 |-> g[i]] OBVIOUS
  <2> HIDE DEF g
  <2>3. Is(g, 0) BY <2>1, <2>2
  <2> QED BY <1>1, <2>3
<1>4. ASSUME NEW k \in 1 .. N, k - 1 \in S PROVE k \in S
  <2>1. PICK g : Is(g, k - 1) BY <1>4
  <2> DEFINE h == [i \in 0 .. k |-> IF i = k THEN Step(g[k - 1], k) ELSE g[i]]
  <2>2. ASSUME NEW i \in 0 .. k PROVE h[i] = IF i = 0 THEN Base ELSE Step(h[i - 1], i)
    <3>1. CASE i = k
      <4>1. i # 0 /\ i - 1 \in 0 .. k /\ i - 1 # k BY <3>1
      <4>2. h[i - 1] = g[k - 1] BY <3>1, <4>1
      <4> QED BY <3>1, <4>1, <4>2
    <3>2. CASE i # k /\ i = 0 BY <3>2, <2>1
    <3>3. CASE i # k /\ i # 0
      <4>1. i \in 0 .. k - 1 /\ i - 1 \in 0 .. k - 1 BY <3>3
      <4>2. g[i] = Step(g[i - 1], i) BY <2>1, <3>3, <4>1
      <4>3. h[i] = g[i] /\ h[i - 1] = g[i - 1] BY <3>3, <4>1
      <4> QED BY <3>3, <4>2, <4>3
    <3> QED BY <3>1, <3>2, <3>3
  <2> HIDE DEF h
  <2>3. h = [i \in 0 .. k |-> h[i]] BY DEF h
  <2>4. Is(h, k) BY <2>2, <2>3
  <2> QED BY <2>4
<1>5. \E g : Is(g, N)
  <2> HIDE DEF Is
  <2>1. 0 .. N \subseteq S BY <1>1, <1>3, <1>4, UpTo
  <2> QED BY <1>1, <2>1
<1>6. Is(Creations(ids, ks), N) BY <1>2, <1>5
<1>7. Creations(ids, ks)[0] = Base /\ \A i \in 1 .. N : Creations(ids, ks)[i] = Step(Creations(ids, ks)[i - 1], i)
  <2> DEFINE g == Creations(ids, ks)
  <2>1. Is(g, N) BY <1>6
  <2> HIDE DEF g
  <2>2. g[0] = Base /\ \A i \in 1 .. N : g[i] = Step(g[i - 1], i) BY <1>1, <2>1
  <2> QED BY <2>2 DEF g
<1> QED BY <1>7 DEF N, Base, Step

\* The setters of one logger, one after the other.
LEMMA SetterCallsDef ==
    ASSUME NEW st, NEW id, NEW info
    PROVE  /\ SetterCalls(st, id, info)[0] = st
           /\ \A i \in 1 .. Len(FieldOrder) : SetterCalls(st, id, info)[i] = setLogger(SetterCalls(st, id, info)[i - 1], id, FieldOrder[i], info[FieldOrder[i]])
<1> DEFINE N == Len(FieldOrder)
           Base == st
           Step(x, i) == setLogger(x, id, FieldOrder[i], info[FieldOrder[i]])
           Is(g, k) == g = [i \in 0 .. k |-> IF i = 0 THEN Base ELSE Step(g[i - 1], i)]
           S == {k \in 0 .. N : \E g : Is(g, k)}
<1>1. N \in Nat BY DEF FieldOrder
<1>2. SetterCalls(st, id, info) = CHOOSE g : Is(g, N) BY DEF SetterCalls
<1> HIDE DEF N, Base, Step
<1>3. 0 \in S
  <2> DEFINE g == [i \in 0 .. 0 |-> Base]
  <2>1. \A i \in 0 .. 0 : i = 0 /\ g[i] = Base OBVIOUS
  <2>2. g = [i \in 0 .. 0 |-> g[i]] OBVIOUS
  <2> HIDE DEF g
  <2>3. Is(g, 0) BY <2>1, <2>2
  <2> QED BY <1>1, <2>3
<1>4. ASSUME NEW k \in 1 .. N, k - 1 \in S PROVE k \in S
  <2>1. PICK g : Is(g, k - 1) BY <1>4
  <2> DEFINE h == [i \in 0 .. k |-> IF i = k THEN Step(g[k - 1], k) ELSE g[i]]
  <2>2. ASSUME NEW i \in 0 .. k PROVE h[i] = IF i = 0 THEN Base ELSE Step(h[i - 1], i)
    <3>1. CASE i = k
      <4>1. i # 0 /\ i - 1 \in 0 .. k /\ i - 1 # k BY <3>1
      <4>2. h[i - 1] = g[k - 1] BY <3>1, <4>1
      <4> QED BY <3>1, <4>1, <4>2
    <3>2. CASE i # k /\ i = 0 BY <3>2, <2>1
    <3>3. CASE i # k /\ i # 0
      <4>1. i \in 0 .. k - 1 /\ i - 1 \in 0 .. k - 1 BY <3>3
      <4>2. g[i] = Step(g[i - 1], i) BY <2>1, <3>3, <4>1
      <4>3. h[i] = g[i] /\ h[i - 1] = g[i - 1] BY <3>3, <4>1
      <4> QED BY <3>3, <4>2, <4>3
    <3> QED BY <3>1, <3>2, <3>3
  <2> HIDE DEF h
  <2>3. h = [i \in 0 .. k |-> h[i]] BY DEF h
  <2>4. Is(h, k) BY <2>2, <2>3
  <2> QED BY <2>4
<1>5. \E g : Is(g, N)
  <2> HIDE DEF Is
  <2>1. 0 .. N \subseteq S BY <1>1, <1>3, <1>4, UpTo
  <2> QED BY <1>1, <2>1
<1>6. Is(SetterCalls(st, id, info), N) BY <1>2, <1>5
<1>7. SetterCalls(st, id, info)[0] = Base /\ \A i \in 1 .. N : SetterCalls(st, id, info)[i] = Step(SetterCalls(st, id, info)[i - 1], i)
  <2> DEFINE g == SetterCalls(st, id, info)
  <2>1. Is(g, N) BY <1>6
  <2> HIDE DEF g
  <2>2. g[0] = Base /\ \A i \in 1 .. N : g[i] = Step(g[i - 1], i) BY <1>1, <2>1
  <2> QED BY <2>2 DEF g
<1> QED BY <1>7 DEF N, Base, Step

\* The loggers of a configuration, one after the other.
LEMMA ConfigurationsDef ==
    ASSUME NEW st, NEW ids, NEW infos
    PROVE  /\ Configurations(st, ids, infos)[0] = st
           /\ \A i \in 1 .. Len(KeyOrder) : Configurations(st, ids, infos)[i] = IF KeyOrder[i] \in DOMAIN infos \cap DOMAIN ids
                THEN SetterCalls(Configurations(st, ids, infos)[i - 1], ids[KeyOrder[i]], infos[KeyOrder[i]])[Len(FieldOrder)]
                ELSE Configurations(st, ids, infos)[i - 1]
<1> DEFINE N == Len(KeyOrder)
           Base == st
           Step(x, i) == IF KeyOrder[i] \in DOMAIN infos \cap DOMAIN ids
                THEN SetterCalls(x, ids[KeyOrder[i]], infos[KeyOrder[i]])[Len(FieldOrder)]
                ELSE x
           Is(g, k) == g = [i \in 0 .. k |-> IF i = 0 THEN Base ELSE Step(g[i - 1], i)]
           S == {k \in 0 .. N : \E g : Is(g, k)}
<1>1. N \in Nat BY KeyAssumption
<1>2. Configurations(st, ids, infos) = CHOOSE g : Is(g, N) BY DEF Configurations
<1> HIDE DEF N, Base, Step
<1>3. 0 \in S
  <2> DEFINE g == [i \in 0 .. 0 |-> Base]
  <2>1. \A i \in 0 .. 0 : i = 0 /\ g[i] = Base OBVIOUS
  <2>2. g = [i \in 0 .. 0 |-> g[i]] OBVIOUS
  <2> HIDE DEF g
  <2>3. Is(g, 0) BY <2>1, <2>2
  <2> QED BY <1>1, <2>3
<1>4. ASSUME NEW k \in 1 .. N, k - 1 \in S PROVE k \in S
  <2>1. PICK g : Is(g, k - 1) BY <1>4
  <2> DEFINE h == [i \in 0 .. k |-> IF i = k THEN Step(g[k - 1], k) ELSE g[i]]
  <2>2. ASSUME NEW i \in 0 .. k PROVE h[i] = IF i = 0 THEN Base ELSE Step(h[i - 1], i)
    <3>1. CASE i = k
      <4>1. i # 0 /\ i - 1 \in 0 .. k /\ i - 1 # k BY <3>1
      <4>2. h[i - 1] = g[k - 1] BY <3>1, <4>1
      <4> QED BY <3>1, <4>1, <4>2
    <3>2. CASE i # k /\ i = 0 BY <3>2, <2>1
    <3>3. CASE i # k /\ i # 0
      <4>1. i \in 0 .. k - 1 /\ i - 1 \in 0 .. k - 1 BY <3>3
      <4>2. g[i] = Step(g[i - 1], i) BY <2>1, <3>3, <4>1
      <4>3. h[i] = g[i] /\ h[i - 1] = g[i - 1] BY <3>3, <4>1
      <4> QED BY <3>3, <4>2, <4>3
    <3> QED BY <3>1, <3>2, <3>3
  <2> HIDE DEF h
  <2>3. h = [i \in 0 .. k |-> h[i]] BY DEF h
  <2>4. Is(h, k) BY <2>2, <2>3
  <2> QED BY <2>4
<1>5. \E g : Is(g, N)
  <2> HIDE DEF Is
  <2>1. 0 .. N \subseteq S BY <1>1, <1>3, <1>4, UpTo
  <2> QED BY <1>1, <2>1
<1>6. Is(Configurations(st, ids, infos), N) BY <1>2, <1>5
<1>7. Configurations(st, ids, infos)[0] = Base /\ \A i \in 1 .. N : Configurations(st, ids, infos)[i] = Step(Configurations(st, ids, infos)[i - 1], i)
  <2> DEFINE g == Configurations(st, ids, infos)
  <2>1. Is(g, N) BY <1>6
  <2> HIDE DEF g
  <2>2. g[0] = Base /\ \A i \in 1 .. N : g[i] = Step(g[i - 1], i) BY <1>1, <2>1
  <2> QED BY <2>2 DEF g
<1> QED BY <1>7 DEF N, Base, Step

-----------------------------------------------------------------------------
(* What the state is made of.                                              *)

\* The attributes of a logger.
IsInfo(a) ==
    /\ DOMAIN a = Fields
    /\ a.limitsize \in 0 .. 2^Width - 1 /\ a.reservedays \in 1 .. 2^Width - 1

\* A value a field may be given, and one it may have.
Fits(f, v) == f \in {"limitsize", "reservedays"} => v \in 0 .. 2^Width - 1
Holds(f, v) ==
    /\ f = "limitsize" => v \in 0 .. 2^Width - 1
    /\ f = "reservedays" => v \in 1 .. 2^Width - 1

\* A LogData for one of the loggers in D.
IsMessage(m, D) ==
    /\ m.id \in D /\ m.day \in 0 .. LastDay
    /\ m.type # "general" => m.type \in Fields /\ Holds(m.type, m.value)

IsQueue(q, D) == (\E S : q \in Seq(S)) /\ \A i \in DOMAIN q : IsMessage(q[i], D)

\* The loggers and the queue the setters work on.
IsSetting(st, D) ==
    /\ DOMAIN st = {"loggers", "logs"}
    /\ DOMAIN st.loggers = D /\ \A i \in D : IsInfo(st.loggers[i])
    /\ IsQueue(st.logs, D)

\* Attributes that ask for the same file and the same limit.
SameFile(a, b) ==
    /\ a.path = b.path /\ a.name = b.name /\ a.monthdir = b.monthdir
    /\ a.limitsize = b.limitsize

LEMMA FieldsDef ==
    Fields = {"enable", "name", "path", "level", "display", "outfile", "monthdir", "fileline",
              "limitsize", "reservedays"}
  BY DEF Fields, LoggerInfo

LEMMA PowerNat == 2^Width \in Nat /\ 1 <= 2^Width
<1> DEFINE p == 2^Width
<1>1. p \in Nat \ {0} BY SizeAssumption
<1> HIDE DEF p
<1>2. p \in Nat /\ 1 <= p BY <1>1
<1> QED BY <1>2 DEF p

LEMMA AppendQueue ==
    ASSUME NEW q, NEW D, NEW x, IsQueue(q, D), IsMessage(x, D), NEW u, u = Append(q, x)
    PROVE  /\ IsQueue(u, D)
           /\ Len(q) \in Nat /\ DOMAIN q = 1 .. Len(q) /\ DOMAIN u = 1 .. Len(q) + 1
           /\ u[Len(q) + 1] = x /\ \A i \in 1 .. Len(q) : u[i] = q[i]
<1>1. PICK S : q \in Seq(S) BY DEF IsQueue
<1>2. q \in Seq(S \cup {x}) BY <1>1
<1>3. u \in Seq(S \cup {x}) /\ Len(q) \in Nat /\ DOMAIN q = 1 .. Len(q) /\ DOMAIN u = 1 .. Len(q) + 1
      /\ u[Len(q) + 1] = x /\ \A i \in 1 .. Len(q) : u[i] = q[i]
  BY <1>2
<1>4. \A i \in DOMAIN u : IsMessage(u[i], D)
  <2>1. \A i \in DOMAIN q : IsMessage(q[i], D) BY DEF IsQueue
  <2> HIDE DEF IsMessage
  <2> QED BY <1>3, <2>1
<1>5. IsQueue(u, D) BY <1>3, <1>4 DEF IsQueue
<1> QED BY <1>3, <1>5

LEMMA TailQueue ==
    ASSUME NEW q, NEW D, IsQueue(q, D), q # <<>>, NEW u, u = Tail(q)
    PROVE  /\ IsQueue(u, D) /\ IsMessage(Head(q), D) /\ Head(q) = q[1]
           /\ Len(q) \in Nat /\ 1 <= Len(q) /\ DOMAIN q = 1 .. Len(q) /\ DOMAIN u = 1 .. Len(q) - 1
           /\ \A i \in 1 .. Len(q) - 1 : u[i] = q[i + 1]
<1>1. PICK S : q \in Seq(S) BY DEF IsQueue
<1>2. /\ u \in Seq(S) /\ Len(q) \in Nat /\ 1 <= Len(q) /\ DOMAIN q = 1 .. Len(q)
      /\ DOMAIN u = 1 .. Len(q) - 1 /\ \A i \in 1 .. Len(q) - 1 : u[i] = q[i + 1]
      /\ Head(q) = q[1]
  BY <1>1
<1>3. \A i \in DOMAIN q : IsMessage(q[i], D) BY DEF IsQueue
<1>4. IsMessage(Head(q), D) BY <1>2, <1>3
<1>5. \A i \in DOMAIN u : IsMessage(u[i], D)
  <2> HIDE DEF IsMessage
  <2>1. ASSUME NEW i \in DOMAIN u PROVE IsMessage(u[i], D)
    <3>1. i + 1 \in DOMAIN q /\ u[i] = q[i + 1] BY <1>2
    <3> QED BY <1>3, <3>1
  <2> QED BY <2>1
<1>6. IsQueue(u, D) BY <1>2, <1>5 DEF IsQueue
<1> QED BY <1>2, <1>4, <1>6

\* The loggers there are may become more.
LEMMA QueueMore ==
    ASSUME NEW q, NEW D, NEW E, IsQueue(q, D), D \subseteq E
    PROVE  IsQueue(q, E)
  BY DEF IsQueue, IsMessage

-----------------------------------------------------------------------------
(* The setters.                                                            *)

\* What a setter makes of its argument may be stored.
LEMMA AskedHolds ==
    ASSUME NEW f, NEW v, Fits(f, v)
    PROVE  Holds(f, Asked(f, v))
<1>1. CASE f = "limitsize"
  <2>1. Asked(f, v) = IF v = 0 THEN Unlimited ELSE v BY <1>1 DEF Asked
  <2>2. Unlimited \in 0 .. 2^Width - 1 BY PowerNat DEF Unlimited
  <2> QED BY <1>1, <2>1, <2>2 DEF Fits, Holds
<1>2. CASE f = "reservedays"
  <2>1. Asked(f, v) = IF v = 0 THEN LOG4Z_DEFAULT_RESERVEDAYS ELSE v BY <1>2 DEF Asked
  <2> QED BY <1>2, <2>1, ValueAssumption DEF Fits, Holds
<1> QED BY <1>1, <1>2 DEF Holds

\* A field of a logger is given a value, or the change put in the queue.
Stored(st, id, f, v) == [st EXCEPT !.loggers[id][f] = v]

Change(f, id, v) == [type |-> f, id |-> id, value |-> v, day |-> today]
Queued(st, id, f, v) == [st EXCEPT !.logs = Append(@, Change(f, id, v))]

\* What these do: u is st but for that field of logger id; for the change.
Only(st, u, D, id, f, w) ==
    /\ u.logs = st.logs /\ u.loggers[id][f] = w
    /\ \A i \in D, g \in Fields : i # id \/ g # f => u.loggers[i][g] = st.loggers[i][g]

Enqueued(st, u, id, f, w) == u.loggers = st.loggers /\ u.logs = Append(st.logs, Change(f, id, w))

LEMMA StoreField ==
    ASSUME NEW st, NEW D, NEW id, NEW f, NEW v, NEW u, u = Stored(st, id, f, v),
           IsSetting(st, D), id \in D, f \in Fields, Holds(f, v)
    PROVE  IsSetting(u, D) /\ Only(st, u, D, id, f, v)
<1>1. DOMAIN st = {"loggers", "logs"} /\ DOMAIN st.loggers = D /\ DOMAIN st.loggers[id] = Fields
  BY DEF IsSetting, IsInfo
<1>2. /\ DOMAIN u = {"loggers", "logs"} /\ u.logs = st.logs
      /\ u.loggers = [st.loggers EXCEPT ![id] = [st.loggers[id] EXCEPT ![f] = v]]
  BY <1>1 DEF Stored
<1>3. DOMAIN u.loggers = D /\ u.loggers[id] = [st.loggers[id] EXCEPT ![f] = v]
      /\ \A i \in D : i # id => u.loggers[i] = st.loggers[i]
  BY <1>1, <1>2
<1>4. DOMAIN u.loggers[id] = Fields /\ u.loggers[id][f] = v
      /\ \A g \in Fields : g # f => u.loggers[id][g] = st.loggers[id][g]
  BY <1>1, <1>3
<1>5. IsInfo(u.loggers[id])
  <2>1. IsInfo(st.loggers[id]) BY DEF IsSetting
  <2>2. "limitsize" \in Fields /\ "reservedays" \in Fields BY FieldsDef
  <2> QED BY <1>4, <2>1, <2>2 DEF IsInfo, Holds
<1>6. \A i \in D : IsInfo(u.loggers[i]) BY <1>3, <1>5 DEF IsSetting
<1>7. IsSetting(u, D) BY <1>2, <1>3, <1>6 DEF IsSetting
<1>8. Only(st, u, D, id, f, v) BY <1>2, <1>3, <1>4 DEF Only
<1> QED BY <1>7, <1>8

LEMMA QueueField ==
    ASSUME NEW st, NEW D, NEW id, NEW f, NEW v, NEW u, u = Queued(st, id, f, v),
           IsSetting(st, D), id \in D, f \in Fields, Holds(f, v), today \in 0 .. LastDay
    PROVE  IsSetting(u, D) /\ Enqueued(st, u, id, f, v)
<1>1. DOMAIN st = {"loggers", "logs"} BY DEF IsSetting
<1>2. DOMAIN u = {"loggers", "logs"} /\ u.loggers = st.loggers /\ u.logs = Append(st.logs, Change(f, id, v))
  BY <1>1 DEF Queued
<1>3. IsMessage(Change(f, id, v), D)
  <2>1. PICK m : m = Change(f, id, v) OBVIOUS
  <2>2. m.type = f /\ m.id = id /\ m.value = v /\ m.day = today BY <2>1 DEF Change
  <2>3. IsMessage(m, D) BY <2>2 DEF IsMessage
  <2> QED BY <2>1, <2>3
<1>4. IsQueue(u.logs, D)
  <2>1. PICK q, x, r : q = st.logs /\ x = Change(f, id, v) /\ r = Append(q, x) OBVIOUS
  <2>2. IsQueue(q, D) BY <2>1 DEF IsSetting
  <2>3. IsQueue(r, D) BY <1>3, <2>1, <2>2, AppendQueue
  <2> QED BY <1>2, <2>1, <2>3
<1>5. IsSetting(u, D) BY <1>2, <1>4 DEF IsSetting
<1>6. Enqueued(st, u, id, f, v) BY <1>2 DEF Enqueued
<1> QED BY <1>5, <1>6

\* A setter that does not refuse does one of the two.
LEMMA SetLoggerCases ==
    ASSUME NEW st, NEW D, NEW id, NEW f, NEW v, NEW u, u = setLogger(st, id, f, v),
           IsSetting(st, D), id \in D, f \in Fields, Fits(f, v), today \in 0 .. LastDay
    PROVE  /\ IsSetting(u, D)
           /\ \/ Refused(f, v) /\ u = st
              \/ Only(st, u, D, id, f, Asked(f, v)) /\ (f \in {"enable", "level"} \/ ~_runing)
              \/ Enqueued(st, u, id, f, Asked(f, v)) /\ _runing
<1>1. PICK w : w = Asked(f, v) OBVIOUS
<1>2. Holds(f, w) BY <1>1, AskedHolds
<1>3. \/ Refused(f, v) /\ u = st
      \/ u = Stored(st, id, f, w) /\ (f \in {"enable", "level"} \/ ~_runing)
      \/ u = Queued(st, id, f, w) /\ _runing
  BY <1>1 DEF setLogger, hotChange, Change, Stored, Queued
<1>4. CASE Refused(f, v) /\ u = st BY <1>4
<1>5. CASE u = Stored(st, id, f, w) /\ (f \in {"enable", "level"} \/ ~_runing)
  BY <1>1, <1>2, <1>5, StoreField
<1>6. CASE u = Queued(st, id, f, w) /\ _runing
  BY <1>1, <1>2, <1>6, QueueField
<1> QED BY <1>3, <1>4, <1>5, <1>6

\* While the log thread runs the loggers in D write the files they wrote, and
\* until then nothing is queued.
SameFiles(st, u, D) ==
    /\ _runing => \A i \in D : SameFile(u.loggers[i], st.loggers[i])
    /\ ~_runing => u.logs = st.logs

LEMMA SameFilesTransitive ==
    ASSUME NEW r, NEW t, NEW u, NEW D, SameFiles(r, t, D), SameFiles(t, u, D)
    PROVE  SameFiles(r, u, D)
  BY DEF SameFiles, SameFile

LEMMA SameFilesReflexive ==
    ASSUME NEW st, NEW D
    PROVE  SameFiles(st, st, D)
  BY DEF SameFiles, SameFile

\* While the log thread runs no setter changes at once what file is written.
LEMMA SetLoggerSame ==
    ASSUME NEW st, NEW D, NEW id, NEW f, NEW v, NEW u, u = setLogger(st, id, f, v),
           IsSetting(st, D), id \in D, f \in Fields, Fits(f, v), today \in 0 .. LastDay
    PROVE  SameFiles(st, u, D)
<1>1. {"path", "name", "monthdir", "limitsize"} \subseteq Fields BY FieldsDef
<1>2. \/ u = st
      \/ Only(st, u, D, id, f, Asked(f, v)) /\ (f \in {"enable", "level"} \/ ~_runing)
      \/ Enqueued(st, u, id, f, Asked(f, v)) /\ _runing
  BY SetLoggerCases
<1>3. CASE u = st BY <1>3, SameFilesReflexive
<1>4. CASE Enqueued(st, u, id, f, Asked(f, v)) /\ _runing BY <1>4 DEF Enqueued, SameFiles, SameFile
<1>5. CASE Only(st, u, D, id, f, Asked(f, v)) /\ (f \in {"enable", "level"} \/ ~_runing)
  <2>1. u.logs = st.logs BY <1>5 DEF Only
  <2>2. ASSUME _runing, NEW i \in D PROVE SameFile(u.loggers[i], st.loggers[i])
    <3>1. f \in {"enable", "level"} BY <1>5, <2>2
    <3>2. \A g \in Fields : g # f => u.loggers[i][g] = st.loggers[i][g] BY <1>5 DEF Only
    <3> QED BY <1>1, <3>1, <3>2 DEF SameFile
  <2> QED BY <2>1, <2>2 DEF SameFiles
<1> QED BY <1>2, <1>3, <1>4, <1>5

LEMMA FieldOrderFacts ==
    /\ Len(FieldOrder) = 10
    /\ \A i \in 1 .. 10 : FieldOrder[i] \in Fields
    /\ \A f \in Fields : \E i \in 1 .. 10 : FieldOrder[i] = f
    /\ \A i, j \in 1 .. 10 : FieldOrder[i] = FieldOrder[j] => i = j
<1>1. Len(FieldOrder) = 10 BY DEF FieldOrder
<1>2. /\ FieldOrder[1] = "enable" /\ FieldOrder[2] = "name" /\ FieldOrder[3] = "path"
      /\ FieldOrder[4] = "level" /\ FieldOrder[5] = "fileline" /\ FieldOrder[6] = "display"
      /\ FieldOrder[7] = "outfile" /\ FieldOrder[8] = "limitsize" /\ FieldOrder[9] = "monthdir"
      /\ FieldOrder[10] = "reservedays"
  BY DEF FieldOrder
<1>3. \A i \in 1 .. 10 : i = 1 \/ i = 2 \/ i = 3 \/ i = 4 \/ i = 5 \/ i = 6 \/ i = 7 \/ i = 8 \/ i = 9 \/ i = 10
  OBVIOUS
<1>4. \A i \in 1 .. 10 : FieldOrder[i] \in Fields BY <1>2, <1>3, FieldsDef
<1>5. \A f \in Fields : \E i \in 1 .. 10 : FieldOrder[i] = f BY <1>2, FieldsDef
<1>6. \A i, j \in 1 .. 10 : FieldOrder[i] = FieldOrder[j] => i = j BY <1>2, <1>3
<1> QED BY <1>1, <1>4, <1>5, <1>6

LEMMA InfoFits ==
    ASSUME NEW a, NEW f, IsInfo(a), f \in Fields
    PROVE  Fits(f, a[f])
  BY DEF IsInfo, Fits

\* The ten setters of a logger.
LEMMA SettersKeep ==
    ASSUME NEW st, NEW D, NEW id, NEW info, NEW u, u = SetterCalls(st, id, info)[Len(FieldOrder)],
           IsSetting(st, D), id \in D, IsInfo(info), today \in 0 .. LastDay
    PROVE  IsSetting(u, D) /\ SameFiles(st, u, D)
<1>1. PICK t : t = SetterCalls(st, id, info) OBVIOUS
<1>2. t[0] = st /\ \A i \in 1 .. 10 : t[i] = setLogger(t[i - 1], id, FieldOrder[i], info[FieldOrder[i]])
  BY <1>1, FieldOrderFacts, SetterCallsDef
<1> DEFINE S == {i \in 0 .. 10 : IsSetting(t[i], D) /\ SameFiles(st, t[i], D)}
<1>3. 0 \in S BY <1>2, SameFilesReflexive
<1>4. ASSUME NEW i \in 1 .. 10, i - 1 \in S PROVE i \in S
  <2>1. PICK r, w, f, v : /\ r = t[i - 1] /\ w = t[i] /\ f = FieldOrder[i] /\ v = info[f] OBVIOUS
  <2>2. IsSetting(r, D) /\ SameFiles(st, r, D) BY <1>4, <2>1
  <2>3. f \in Fields /\ Fits(f, v) BY <2>1, FieldOrderFacts, InfoFits
  <2>4. w = setLogger(r, id, f, v) BY <1>2, <2>1
  <2>5. IsSetting(w, D) BY <2>2, <2>3, <2>4, SetLoggerCases
  <2>6. SameFiles(r, w, D) BY <2>2, <2>3, <2>4, SetLoggerSame
  <2>7. SameFiles(st, w, D) BY <2>2, <2>6, SameFilesTransitive
  <2> QED BY <2>1, <2>5, <2>7
<1>5. 0 .. 10 \subseteq S BY <1>3, <1>4, UpTo
<1>6. IsSetting(t[10], D) /\ SameFiles(st, t[10], D) BY <1>5
<1> QED BY <1>1, <1>6, FieldOrderFacts

\* The setters of the loggers of a configuration.
LEMMA ConfigurationsKeep ==
    ASSUME NEW st, NEW D, NEW ids, NEW infos, NEW u, u = Configurations(st, ids, infos)[Len(KeyOrder)],
           IsSetting(st, D), \A k \in DOMAIN ids : ids[k] \in D,
           \A k \in DOMAIN infos : IsInfo(infos[k]), today \in 0 .. LastDay
    PROVE  IsSetting(u, D) /\ SameFiles(st, u, D)
<1>1. PICK t, N : t = Configurations(st, ids, infos) /\ N = Len(KeyOrder) OBVIOUS
<1>2. /\ t[0] = st
      /\ \A i \in 1 .. N :
            t[i] = IF KeyOrder[i] \in DOMAIN infos \cap DOMAIN ids
                   THEN SetterCalls(t[i - 1], ids[KeyOrder[i]], infos[KeyOrder[i]])[Len(FieldOrder)]
                   ELSE t[i - 1]
  BY <1>1, ConfigurationsDef
<1>3. N \in Nat BY <1>1, KeyAssumption
<1> DEFINE S == {i \in 0 .. N : IsSetting(t[i], D) /\ SameFiles(st, t[i], D)}
<1>4. 0 \in S BY <1>2, <1>3, SameFilesReflexive
<1>5. ASSUME NEW i \in 1 .. N, i - 1 \in S PROVE i \in S
  <2>1. PICK r, w, k : r = t[i - 1] /\ w = t[i] /\ k = KeyOrder[i] OBVIOUS
  <2>2. IsSetting(r, D) /\ SameFiles(st, r, D) BY <1>5, <2>1
  <2>3. CASE k \in DOMAIN infos \cap DOMAIN ids
    <3>1. PICK id, info : id = ids[k] /\ info = infos[k] OBVIOUS
    <3>2. id \in D /\ IsInfo(info) BY <2>3, <3>1
    <3>3. w = SetterCalls(r, id, info)[Len(FieldOrder)] BY <1>2, <2>1, <2>3, <3>1
    <3>4. IsSetting(w, D) /\ SameFiles(r, w, D) BY <2>2, <3>2, <3>3, SettersKeep
    <3>5. SameFiles(st, w, D) BY <2>2, <3>4, SameFilesTransitive
    <3> QED BY <2>1, <3>4, <3>5
  <2>4. CASE k \notin DOMAIN infos \cap DOMAIN ids
    <3>1. w = r BY <1>2, <2>1, <2>4
    <3>2. IsSetting(w, D) /\ SameFiles(st, w, D) BY <2>2, <3>1
    <3> QED BY <2>1, <3>2
  <2> QED BY <2>3, <2>4
<1>6. 0 .. N \subseteq S BY <1>3, <1>4, <1>5, UpTo
<1>7. N \in S BY <1>3, <1>6
<1>8. IsSetting(t[N], D) /\ SameFiles(st, t[N], D) BY <1>7
<1> QED BY <1>1, <1>8

-----------------------------------------------------------------------------
(* The configuration file.                                                 *)

LEMMA NewInfo ==
    ASSUME NEW k, NEW a, a = LoggerInfo(TRUE, k)
    PROVE  IsInfo(a)
<1>1. DOMAIN a = Fields BY DEF LoggerInfo, Fields
<1>2. a.limitsize = LOG4Z_DEFAULT_LIMITSIZE /\ a.reservedays = LOG4Z_DEFAULT_RESERVEDAYS BY DEF LoggerInfo
<1> QED BY <1>1, <1>2, ValueAssumption DEF IsInfo

\* What parseConfigLine works on.
IsParse(st) == DOMAIN st = {"key", "out"} /\ \A k \in DOMAIN st.out : IsInfo(st.out[k])

\* A pair that is understood is about a field, and has a value for it.
LEMMA PairHolds ==
    ASSUME NEW p, Understood(p)
    PROVE  p.field \in Fields /\ Holds(p.field, Meaning(p))
<1>1. PICK f, v : f = p.field /\ v = p.value OBVIOUS
<1>2. f \in {"path", "name", "limitsize", "display", "outfile", "monthdir", "fileline", "enable", "level"}
  BY <1>1 DEF Understood, Switches
<1>3. f \in Fields BY <1>2, FieldsDef
<1>4. CASE f = "limitsize"
  <2>1. Meaning(p) = atoi(v) BY <1>1, <1>4 DEF Meaning, Switches
  <2>2. atoi(v) \in 0 .. 2^Width - 1
    <3>1. v \in DOMAIN Numerals => Numerals[v] \in 0 .. 2^Width - 1 BY ValueAssumption
    <3> QED BY <3>1, PowerNat DEF atoi
  <2> QED BY <1>1, <1>3, <1>4, <2>1, <2>2 DEF Holds
<1>5. CASE f # "limitsize" BY <1>1, <1>2, <1>3, <1>5 DEF Holds
<1> QED BY <1>4, <1>5

\* A field of one of the loggers seen so far is set.
SetIn(st, f, v) == [st EXCEPT !.out[st.key][f] = v]

LEMMA SetInFacts ==
    ASSUME NEW st, NEW f, NEW v, NEW u, u = SetIn(st, f, v),
           IsParse(st), st.key \in DOMAIN st.out, f \in Fields, Holds(f, v)
    PROVE  /\ IsParse(u) /\ u.key = st.key /\ DOMAIN u.out = DOMAIN st.out
           /\ u.out[st.key][f] = v
           /\ \A k \in DOMAIN st.out, g \in Fields : k # st.key \/ g # f => u.out[k][g] = st.out[k][g]
<1>1. PICK key, out, a : key = st.key /\ out = st.out /\ a = out[key] OBVIOUS
<1>2. DOMAIN st = {"key", "out"} /\ key \in DOMAIN out /\ IsInfo(a) /\ DOMAIN a = Fields
  BY <1>1 DEF IsParse, IsInfo
<1>3. PICK b : b = [a EXCEPT ![f] = v] OBVIOUS
<1>4. u = [st EXCEPT !["out"] = [out EXCEPT ![key] = b]] BY <1>1, <1>3 DEF SetIn
<1>5. DOMAIN u = {"key", "out"} /\ u.key = key /\ u.out = [out EXCEPT ![key] = b]
  BY <1>1, <1>2, <1>4
<1>6. DOMAIN u.out = DOMAIN out /\ u.out[key] = b /\ \A k \in DOMAIN out : k # key => u.out[k] = out[k]
  BY <1>2, <1>5
<1>7. DOMAIN b = Fields /\ b[f] = v /\ \A g \in Fields : g # f => b[g] = a[g] BY <1>2, <1>3
<1>8. IsInfo(b)
  <2>1. "limitsize" \in Fields /\ "reservedays" \in Fields BY FieldsDef
  <2> QED BY <1>2, <1>7, <2>1 DEF IsInfo, Holds
<1>9. IsParse(u)
  <2>1. \A k \in DOMAIN out : IsInfo(out[k]) BY <1>1 DEF IsParse
  <2>2. \A k \in DOMAIN u.out : IsInfo(u.out[k]) BY <1>6, <1>8, <2>1
  <2> QED BY <1>5, <2>2 DEF IsParse
<1> QED BY <1>1, <1>5, <1>6, <1>7, <1>9

\* A line of the configuration: what parseConfigLine may do.
ReadsSection(st, line, u) ==
    /\ line.kind = "section" /\ u.key = Canonical(line.key)
    /\ u.out = IF u.key \in DOMAIN st.out THEN st.out
               ELSE With(st.out, u.key, LoggerInfo(TRUE, u.key))

ReadsPair(st, line, u) ==
    /\ line.kind = "pair" /\ st.key \in DOMAIN st.out /\ Understood(line)
    /\ u = SetIn(st, line.field, Meaning(line))

ReadsOther(st, line, u) ==
    /\ line.kind # "section"
    /\ ~(line.kind = "pair" /\ st.key \in DOMAIN st.out /\ Understood(line))
    /\ u = st

LEMMA ParseLineCases ==
    ASSUME NEW st, NEW line, NEW u, u = parseConfigLine(st, line), IsParse(st)
    PROVE  IsParse(u) /\ (ReadsSection(st, line, u) \/ ReadsPair(st, line, u) \/ ReadsOther(st, line, u))
<1>1. PICK kind, f, v, k : /\ kind = line.kind /\ f = line.field /\ v = Meaning(line)
                          /\ k = Canonical(line.key)
  OBVIOUS
<1>2. CASE kind = "section"
  <2>1. PICK out : out = IF k \in DOMAIN st.out THEN st.out ELSE With(st.out, k, LoggerInfo(TRUE, k))
    OBVIOUS
  <2>2. u = [key |-> k, out |-> out] BY <1>1, <1>2, <2>1 DEF parseConfigLine
  <2>3. DOMAIN u = {"key", "out"} /\ u.key = k /\ u.out = out BY <2>2
  <2>4. \A j \in DOMAIN out : IsInfo(out[j])
    <3>1. PICK old, new : old = st.out /\ new = LoggerInfo(TRUE, k) OBVIOUS
    <3>2. IsInfo(new) /\ \A j \in DOMAIN old : IsInfo(old[j]) BY <3>1, NewInfo DEF IsParse
    <3>3. CASE k \in DOMAIN old
      <4>1. out = old BY <2>1, <3>1, <3>3
      <4> QED BY <3>2, <4>1
    <3>4. CASE k \notin DOMAIN old
      <4>1. out = With(old, k, new) BY <2>1, <3>1, <3>4
      <4>2. DOMAIN out = DOMAIN old \cup {k} /\ out[k] = new /\ \A y \in DOMAIN old : y # k => out[y] = old[y]
        BY <4>1 DEF With
      <4> QED BY <3>2, <3>4, <4>2
    <3> QED BY <3>3, <3>4
  <2>5. IsParse(u) BY <2>3, <2>4 DEF IsParse
  <2> QED BY <1>1, <1>2, <2>1, <2>3, <2>5 DEF ReadsSection
<1>3. CASE kind = "pair" /\ st.key \in DOMAIN st.out /\ Understood(line)
  <2>1. u = SetIn(st, f, v) BY <1>1, <1>3 DEF parseConfigLine, SetIn
  <2>2. f \in Fields /\ Holds(f, v) BY <1>1, <1>3, PairHolds
  <2>3. IsParse(u) BY <1>3, <2>1, <2>2, SetInFacts
  <2> QED BY <1>1, <1>3, <2>1, <2>3 DEF ReadsPair
<1>4. CASE kind # "section" /\ ~(kind = "pair" /\ st.key \in DOMAIN st.out /\ Understood(line))
  <2>1. u = st BY <1>1, <1>4 DEF parseConfigLine
  <2> QED BY <1>1, <1>4, <2>1 DEF ReadsOther
<1> QED BY <1>2, <1>3, <1>4

\* Every logger of a configuration has all its attributes.
LEMMA ParsedInfos ==
    ASSUME NEW c, Len(c) \in Nat
    PROVE  /\ \A i \in 0 .. Len(c) : IsParse(Parsed(c)[i])
           /\ \A k \in DOMAIN parseConfigFromString(c) : IsInfo(parseConfigFromString(c)[k])
<1>1. PICK t, N : t = Parsed(c) /\ N = Len(c) OBVIOUS
<1>2. t[0] = [key |-> "", out |-> <<>>] /\ \A i \in 1 .. N : t[i] = parseConfigLine(t[i - 1], c[i])
  BY <1>1, ParsedDef
<1> DEFINE S == {i \in 0 .. N : IsParse(t[i])}
<1>3. 0 \in S
  <2>1. PICK s, none : s = t[0] /\ none = <<>> OBVIOUS
  <2>2. s = [key |-> "", out |-> none] BY <1>2, <2>1
  <2>3. DOMAIN none = {} BY <2>1
  <2>4. DOMAIN s = {"key", "out"} /\ s.out = none BY <2>2
  <2>5. IsParse(s) BY <2>3, <2>4 DEF IsParse
  <2> QED BY <1>1, <2>1, <2>5
<1>4. ASSUME NEW i \in 1 .. N, i - 1 \in S PROVE i \in S
  <2>1. PICK r, w, l : r = t[i - 1] /\ w = t[i] /\ l = c[i] OBVIOUS
  <2>2. IsParse(r) /\ w = parseConfigLine(r, l) BY <1>2, <1>4, <2>1
  <2>3. IsParse(w) BY <2>2, ParseLineCases
  <2> QED BY <2>1, <2>3
<1>5. 0 .. N \subseteq S BY <1>1, <1>3, <1>4, UpTo
<1>6. N \in S BY <1>1, <1>5
<1>7. IsParse(t[N]) BY <1>6
<1>8. parseConfigFromString(c) = t[N].out BY <1>1 DEF parseConfigFromString
<1>9. \A k \in DOMAIN t[N].out : IsInfo(t[N].out[k]) BY <1>7 DEF IsParse
<1> QED BY <1>1, <1>5, <1>8, <1>9

LEMMA ChecksumNat ==
    ASSUME NEW c, c \in Contents
    PROVE  checksum(c) \in Nat /\ Len(c) \in Nat
<1>1. c \in Seq(Range(c)) /\ \A i \in DOMAIN c : Bytes(c[i]) \in Nat BY ValueAssumption
<1>2. Len(c) \in Nat /\ DOMAIN c = 1 .. Len(c) BY <1>1
<1>3. PICK t, N : t = Sums(c) /\ N = Len(c) OBVIOUS
<1>4. t[0] = 0 /\ \A i \in 1 .. N : t[i] = t[i - 1] + Bytes(c[i]) BY <1>2, <1>3, SumsDef
<1> DEFINE S == {i \in 0 .. N : t[i] \in Nat}
<1>5. 0 \in S BY <1>2, <1>3, <1>4
<1>6. ASSUME NEW i \in 1 .. N, i - 1 \in S PROVE i \in S
  <2>1. PICK r, w, b : r = t[i - 1] /\ w = t[i] /\ b = Bytes(c[i]) OBVIOUS
  <2>2. r \in Nat /\ b \in Nat /\ w = r + b BY <1>1, <1>2, <1>3, <1>4, <1>6, <2>1
  <2>3. w \in Nat BY <2>2
  <2> QED BY <2>1, <2>3
<1>7. 0 .. N \subseteq S BY <1>2, <1>3, <1>5, <1>6, UpTo
<1>8. N \in S BY <1>2, <1>3, <1>7
<1> QED BY <1>2, <1>3, <1>8 DEF checksum

-----------------------------------------------------------------------------
(* The ids.                                                                *)

\* They are the first ones of the array _loggers, one for each key.
IsIds(ids) ==
    /\ DOMAIN ids \subseteq Range(KeyOrder) /\ IsFiniteSet(DOMAIN ids)
    /\ Cardinality(DOMAIN ids) \in 1 .. LOGGER_MAX
    /\ {ids[k] : k \in DOMAIN ids} = 0 .. Cardinality(DOMAIN ids) - 1
    /\ \A j, k \in DOMAIN ids : ids[j] = ids[k] => j = k

\* Those there are stay.
Extends(ids, more) == DOMAIN ids \subseteq DOMAIN more /\ \A k \in DOMAIN ids : more[k] = ids[k]

LEMMA NewId ==
    ASSUME NEW ids, NEW k, NEW u, IsIds(ids), k \in Range(KeyOrder), k \notin DOMAIN ids, ~Full(ids),
           u = With(ids, k, Cardinality(DOMAIN ids))
    PROVE  IsIds(u) /\ Extends(ids, u)
<1>1. PICK n, D : D = DOMAIN ids /\ n = Cardinality(D) OBVIOUS
<1>2. DOMAIN u = D \cup {k} /\ u[k] = n /\ \A y \in D : u[y] = ids[y]
  BY <1>1 DEF With
<1>3. n \in Nat /\ 1 <= n /\ n < LOGGER_MAX /\ LOGGER_MAX \in Nat BY <1>1, MaxAssumption DEF IsIds, Full
<1>4. IsFiniteSet(D \cup {k}) /\ Cardinality(D \cup {k}) = n + 1 BY <1>1, FS_AddElement DEF IsIds
<1>5. \A j \in D : ids[j] \in 0 .. n - 1 BY <1>1 DEF IsIds
<1>6. {u[j] : j \in DOMAIN u} = 0 .. n
  <2>1. ASSUME NEW j \in DOMAIN u PROVE u[j] \in 0 .. n BY <1>2, <1>3, <1>5
  <2>2. ASSUME NEW i \in 0 .. n PROVE \E j \in DOMAIN u : u[j] = i
    <3>1. CASE i = n BY <1>2, <3>1
    <3>2. CASE i # n
      <4>1. i \in 0 .. n - 1 BY <1>3, <3>2
      <4>2. i \in {ids[j] : j \in D} BY <1>1, <4>1 DEF IsIds
      <4> QED BY <1>2, <4>2
    <3> QED BY <3>1, <3>2
  <2> QED BY <2>1, <2>2
<1>7. \A i, j \in DOMAIN u : u[i] = u[j] => i = j
  <2>1. \A i, j \in D : ids[i] = ids[j] => i = j BY <1>1 DEF IsIds
  <2>2. \A i \in D : u[i] # n BY <1>2, <1>3, <1>5
  <2> QED BY <1>2, <2>1, <2>2
<1>8. DOMAIN u \subseteq Range(KeyOrder) BY <1>1, <1>2 DEF IsIds
<1>9. Cardinality(DOMAIN u) = n + 1 /\ n + 1 \in 1 .. LOGGER_MAX /\ (n + 1) - 1 = n /\ IsFiniteSet(DOMAIN u)
  BY <1>2, <1>3, <1>4
<1>10. IsIds(u) BY <1>6, <1>7, <1>8, <1>9 DEF IsIds
<1>11. Extends(ids, u) BY <1>1, <1>2 DEF Extends
<1> QED BY <1>10, <1>11

\* createLogger, once or for all the loggers of a configuration.
LEMMA CreatedIds ==
    ASSUME NEW ids, NEW ks, NEW u, IsIds(ids), u = created(ids, ks)
    PROVE  IsIds(u) /\ Extends(ids, u)
<1>1. PICK t, N : t = Creations(ids, ks) /\ N = Len(KeyOrder) OBVIOUS
<1>2. /\ t[0] = ids
      /\ \A i \in 1 .. N :
            t[i] = IF KeyOrder[i] \in ks \ DOMAIN t[i - 1] /\ ~Full(t[i - 1])
                   THEN With(t[i - 1], KeyOrder[i], Cardinality(DOMAIN t[i - 1])) ELSE t[i - 1]
  BY <1>1, CreationsDef
<1>3. N \in Nat /\ DOMAIN KeyOrder = 1 .. N BY <1>1, KeyAssumption
<1> DEFINE S == {i \in 0 .. N : IsIds(t[i]) /\ Extends(ids, t[i])}
<1>4. 0 \in S
  <2>1. Extends(ids, ids) BY DEF Extends
  <2> QED BY <1>2, <1>3, <2>1
<1>5. ASSUME NEW i \in 1 .. N, i - 1 \in S PROVE i \in S
  <2>1. PICK r, w, k : r = t[i - 1] /\ w = t[i] /\ k = KeyOrder[i] OBVIOUS
  <2>2. IsIds(r) /\ Extends(ids, r) BY <1>5, <2>1
  <2>3. k \in Range(KeyOrder) BY <1>3, <2>1 DEF Range
  <2>4. CASE k \in ks \ DOMAIN r /\ ~Full(r)
    <3>1. w = With(r, k, Cardinality(DOMAIN r)) BY <1>2, <2>1, <2>4
    <3>2. IsIds(w) /\ Extends(r, w) BY <2>2, <2>3, <2>4, <3>1, NewId
    <3>3. Extends(ids, w) BY <2>2, <3>2 DEF Extends
    <3> QED BY <2>1, <3>2, <3>3
  <2>5. CASE ~(k \in ks \ DOMAIN r /\ ~Full(r))
    <3>1. w = r BY <1>2, <2>1, <2>5
    <3>2. IsIds(w) /\ Extends(ids, w) BY <2>2, <3>1
    <3> QED BY <2>1, <3>2
  <2> QED BY <2>4, <2>5
<1>6. 0 .. N \subseteq S BY <1>3, <1>4, <1>5, UpTo
<1>7. N \in S BY <1>3, <1>6
<1>8. IsIds(t[N]) /\ Extends(ids, t[N]) BY <1>7
<1> QED BY <1>1, <1>8 DEF created

-----------------------------------------------------------------------------
(* The loggers and their files.                                            *)

IdsOf(ids) == {ids[k] : k \in DOMAIN ids}
LoggerIds == IdsOf(_ids)

IsRun(rt) ==
    /\ DOMAIN rt = {"created", "index", "len", "handle"}
    /\ rt.created \in -1 .. LastDay /\ rt.len \in 0 .. 2^Width - 1

\* An open file is the one of the attributes and of the day it was opened for,
\* unless it has been removed, and has been written no further than its limit
\* and one log.
IsOpen(a, rt, fs) ==
    /\ rt.handle = Unlinked \/ (rt.handle = FileOf(a, rt.created) /\ rt.handle \in DOMAIN fs)
    /\ rt.len <= Limit(a) + LogSize

\* Files are open only once the log thread runs.
IsLogger(a, rt, fs, running) ==
    IsInfo(a) /\ IsRun(rt) /\ (rt.handle # NoHandle => running /\ IsOpen(a, rt, fs))

CoreInv ==
    /\ _configFile \in BOOLEAN /\ _runing \in BOOLEAN /\ _checksum \in Nat
    /\ disk \in Contents \cup {NoFile} /\ today \in 0 .. LastDay /\ calls \in 0 .. MaxCalls

\* The inductive invariant: CoreInv, and of the ids, the loggers, the queue
\* and the files what the definitions above say.
FilesInv ==
    /\ CoreInv
    /\ IsIds(_ids) /\ DOMAIN _loggers = LoggerIds /\ DOMAIN runtime = LoggerIds
    /\ IsQueue(_logs, LoggerIds) /\ (_logs # <<>> => _runing)
    /\ \A i \in LoggerIds : IsLogger(_loggers[i], runtime[i], files, _runing)
    /\ \A g \in DOMAIN files : g.day \in 0 .. LastDay

LEMMA ClosedLogger ==
    ASSUME NEW a, NEW rt, NEW fs, NEW running, IsInfo(a), IsRun(rt), rt.handle = NoHandle
    PROVE  IsLogger(a, rt, fs, running)
  BY DEF IsLogger

LEMMA SameFileLogger ==
    ASSUME NEW a, NEW b, NEW rt, NEW fs, NEW running, IsLogger(a, rt, fs, running), IsInfo(b),
           running => SameFile(b, a)
    PROVE  IsLogger(b, rt, fs, running)
<1>1. CASE rt.handle = NoHandle BY <1>1 DEF IsLogger
<1>2. CASE rt.handle # NoHandle
  <2>1. running /\ IsOpen(a, rt, fs) /\ SameFile(b, a) BY <1>2 DEF IsLogger
  <2>2. FileOf(b, rt.created) = FileOf(a, rt.created) BY <2>1 DEF SameFile, FileOf
  <2>3. Limit(b) = Limit(a) BY <2>1 DEF SameFile, Limit
  <2>4. IsOpen(b, rt, fs) BY <2>1, <2>2, <2>3 DEF IsOpen
  <2> QED BY <2>1, <2>4 DEF IsLogger
<1> QED BY <1>1, <1>2

\* The arrays once the loggers of ids exist.
LEMMA WithNewFacts ==
    ASSUME NEW f, NEW ids, NEW new, NEW u, u = WithNew(f, ids, new)
    PROVE  /\ DOMAIN u = IdsOf(ids)
           /\ \A i \in DOMAIN u : i \in DOMAIN f => u[i] = f[i]
           /\ \A i \in DOMAIN u : i \notin DOMAIN f => \E k \in DOMAIN ids : u[i] = new[k]
<1>1. DOMAIN u = {ids[k] : k \in DOMAIN ids} BY DEF WithNew
<1>2. \A i \in DOMAIN u : i \in DOMAIN f => u[i] = f[i] BY DEF WithNew
<1>3. ASSUME NEW i \in DOMAIN u, i \notin DOMAIN f PROVE \E k \in DOMAIN ids : u[i] = new[k]
  <2>1. PICK j : j = CHOOSE k \in DOMAIN ids : ids[k] = i OBVIOUS
  <2>2. \E k \in DOMAIN ids : ids[k] = i BY <1>1, <1>3
  <2>3. j \in DOMAIN ids BY <2>1, <2>2
  <2>4. u[i] = new[j] BY <1>1, <1>3, <2>1 DEF WithNew
  <2> QED BY <2>3, <2>4
<1> QED BY <1>1, <1>2, <1>3 DEF IdsOf

LEMMA FreshRun == IsRun(Fresh) /\ Fresh.handle = NoHandle
<1>1. PICK rt : rt = Fresh OBVIOUS
<1>2. /\ DOMAIN rt = {"created", "index", "len", "handle"} /\ rt.created = -1 /\ rt.len = 0
      /\ rt.handle = NoHandle
  BY <1>1 DEF Fresh
<1>3. -1 \in -1 .. LastDay /\ 0 \in 0 .. 2^Width - 1 BY MaxAssumption, PowerNat
<1>4. IsRun(rt) BY <1>2, <1>3 DEF IsRun
<1> QED BY <1>1, <1>2, <1>4

\* New loggers have their defaults and no file.
LEMMA MoreLoggers ==
    ASSUME FilesInv, NEW ids, NEW D, NEW loggers, NEW rts, IsIds(ids), Extends(_ids, ids),
           D = IdsOf(ids),
           loggers = WithNew(_loggers, ids, NewLogger), rts = WithNew(runtime, ids, NewFile)
    PROVE  /\ DOMAIN loggers = D /\ DOMAIN rts = D /\ LoggerIds \subseteq D
           /\ IsQueue(_logs, D)
           /\ \A i \in LoggerIds : loggers[i] = _loggers[i]
           /\ \A i \in D : IsLogger(loggers[i], rts[i], files, _runing)
<1>1. LoggerIds \subseteq D BY DEF Extends, LoggerIds, IdsOf
<1>2. DOMAIN _loggers = LoggerIds /\ DOMAIN runtime = LoggerIds BY DEF FilesInv
<1>3. /\ DOMAIN loggers = D
      /\ \A i \in D : i \in LoggerIds => loggers[i] = _loggers[i]
      /\ \A i \in D : i \notin LoggerIds => \E k \in DOMAIN ids : loggers[i] = NewLogger[k]
  <2>1. PICK f, new : f = _loggers /\ new = NewLogger OBVIOUS
  <2>2. loggers = WithNew(f, ids, new) BY <2>1
  <2>3. /\ DOMAIN loggers = D /\ \A i \in D : i \in DOMAIN f => loggers[i] = f[i]
        /\ \A i \in D : i \notin DOMAIN f => \E k \in DOMAIN ids : loggers[i] = new[k]
    BY <2>2, WithNewFacts
  <2> QED BY <1>2, <2>1, <2>3
<1>4. /\ DOMAIN rts = D
      /\ \A i \in D : i \in LoggerIds => rts[i] = runtime[i]
      /\ \A i \in D : i \notin LoggerIds => \E k \in DOMAIN ids : rts[i] = NewFile[k]
  <2>1. PICK f, new : f = runtime /\ new = NewFile OBVIOUS
  <2>2. rts = WithNew(f, ids, new) BY <2>1
  <2>3. /\ DOMAIN rts = D /\ \A i \in D : i \in DOMAIN f => rts[i] = f[i]
        /\ \A i \in D : i \notin DOMAIN f => \E k \in DOMAIN ids : rts[i] = new[k]
    BY <2>2, WithNewFacts
  <2> QED BY <1>2, <2>1, <2>3
<1>5. ASSUME NEW i \in D PROVE IsLogger(loggers[i], rts[i], files, _runing)
  <2>1. CASE i \in LoggerIds BY <1>3, <1>4, <2>1 DEF FilesInv
  <2>2. CASE i \notin LoggerIds
    <3>1. PICK k \in DOMAIN ids : loggers[i] = NewLogger[k] BY <1>3, <2>2
    <3>2. PICK j \in DOMAIN ids : rts[i] = NewFile[j] BY <1>4, <2>2
    <3>3. k \in Range(KeyOrder) /\ j \in Range(KeyOrder) BY DEF IsIds
    <3>4. NewLogger[k] = LoggerInfo(TRUE, k) BY <3>3 DEF NewLogger
    <3>5. NewFile[j] = Fresh BY <3>3 DEF NewFile
    <3>6. IsInfo(loggers[i]) BY <3>1, <3>4, NewInfo
    <3>7. IsRun(rts[i]) /\ rts[i].handle = NoHandle BY <3>2, <3>5, FreshRun
    <3> QED BY <3>6, <3>7, ClosedLogger
  <2> QED BY <2>1, <2>2
<1>6. IsQueue(_logs, D) BY <1>1, QueueMore DEF FilesInv
<1> QED BY <1>1, <1>3, <1>4, <1>5, <1>6

\* FilesInv once more, for a step that leaves the files and start alone.
LEMMA FilesInvNext ==
    ASSUME FilesInv, CoreInv', UNCHANGED <<_runing, files>>, IsIds(_ids'), NEW D,
           D = LoggerIds', DOMAIN _loggers' = D, DOMAIN runtime' = D, IsQueue(_logs', D),
           _logs' # <<>> => _runing,
           \A i \in D : IsLogger(_loggers'[i], runtime'[i], files, _runing)
    PROVE  FilesInv'
<1>1. files' = files /\ _runing' = _runing OBVIOUS
<1>2. \A g \in DOMAIN files' : g.day \in 0 .. LastDay BY <1>1 DEF FilesInv
<1>3. \A i \in LoggerIds' : IsLogger(_loggers'[i], runtime'[i], files', _runing') BY <1>1
<1> QED BY <1>2, <1>3 DEF FilesInv
-----------------------------------------------------------------------------
(* The steps.                                                              *)

LEMMA InitInv == Init => FilesInv
<1> SUFFICES ASSUME Init PROVE FilesInv OBVIOUS
<1>1. CoreInv
  <2>1. /\ _configFile = FALSE /\ _runing = FALSE /\ _checksum = 0 /\ disk \in Contents \cup {NoFile}
        /\ today = 0 /\ calls = 0
    BY DEF Init
  <2>2. 0 \in 0 .. LastDay /\ 0 \in 0 .. MaxCalls BY MaxAssumption
  <2> QED BY <2>1, <2>2 DEF CoreInv
<1>2. DOMAIN _ids = {MainKey} /\ _ids[MainKey] = 0 BY DEF Init
<1>3. LoggerIds = {0} BY <1>2 DEF LoggerIds, IdsOf
<1>4. IsIds(_ids)
  <2>1. IsFiniteSet({MainKey}) /\ Cardinality({MainKey}) = 1 BY FS_Singleton
  <2>2. LOGGER_MAX \in Nat /\ 1 <= LOGGER_MAX BY MaxAssumption
  <2>3. PICK K, n : K = DOMAIN _ids /\ n = Cardinality(K) OBVIOUS
  <2>4. K = {MainKey} /\ n = 1 /\ IsFiniteSet(K) BY <1>2, <2>1, <2>3
  <2>5. {_ids[k] : k \in K} = 0 .. n - 1 BY <1>2, <2>4
  <2>6. K \subseteq Range(KeyOrder) BY <2>4, KeyAssumption
  <2>7. n \in 1 .. LOGGER_MAX BY <2>2, <2>4
  <2>8. \A j, k \in K : _ids[j] = _ids[k] => j = k BY <2>4
  <2> QED BY <2>3, <2>4, <2>5, <2>6, <2>7, <2>8 DEF IsIds
<1>5. IsLogger(_loggers[0], runtime[0], files, _runing)
  <2>1. _loggers[0] = LoggerInfo(TRUE, MainKey) /\ runtime[0] = Fresh BY DEF Init
  <2>2. IsInfo(_loggers[0]) BY <2>1, NewInfo
  <2> QED BY <2>1, <2>2, FreshRun, ClosedLogger
<1>6. DOMAIN _loggers = {0} /\ DOMAIN runtime = {0} BY DEF Init
<1>7. IsQueue(_logs, LoggerIds) /\ _logs = <<>>
  <2>1. _logs \in Seq({}) /\ DOMAIN _logs = {} BY DEF Init
  <2> QED BY <2>1 DEF IsQueue, Init
<1>8. \A g \in DOMAIN files : g.day \in 0 .. LastDay
  <2>1. DOMAIN files = {} BY DEF Init
  <2> QED BY <2>1
<1> QED BY <1>1, <1>3, <1>4, <1>5, <1>6, <1>7, <1>8 DEF FilesInv

LEMMA CreateInv ==
    ASSUME FilesInv, NEW key, createLogger(key)
    PROVE  FilesInv'
<1>1. PICK ids, D, loggers, rts : /\ ids = _ids' /\ D = IdsOf(ids) /\ loggers = _loggers' /\ rts = runtime'
  OBVIOUS
<1>2. IsIds(ids) /\ Extends(_ids, ids)
  <2>1. PICK ks : ks = {key} OBVIOUS
  <2>2. ids = created(_ids, ks) BY <1>1, <2>1 DEF createLogger
  <2>3. IsIds(_ids) BY DEF FilesInv
  <2> QED BY <2>2, <2>3, CreatedIds
<1>3. loggers = WithNew(_loggers, ids, NewLogger) /\ rts = WithNew(runtime, ids, NewFile)
  BY <1>1 DEF createLogger
<1>4. /\ DOMAIN loggers = D /\ DOMAIN rts = D /\ IsQueue(_logs, D)
      /\ \A i \in D : IsLogger(loggers[i], rts[i], files, _runing)
  BY <1>1, <1>2, <1>3, MoreLoggers
<1>5. D = LoggerIds' BY <1>1 DEF LoggerIds
<1>6. CoreInv' BY MaxAssumption DEF createLogger, core, Ask, FilesInv, CoreInv
<1>7. UNCHANGED <<_runing, files>> /\ _logs' = _logs BY DEF createLogger, core
<1>8. _logs' # <<>> => _runing BY <1>7 DEF FilesInv
<1> QED BY <1>1, <1>2, <1>4, <1>5, <1>6, <1>7, <1>8, FilesInvNext

\* What configFromStringImpl makes of the loggers and the queue.
ConfigBegin(ids) == [Here EXCEPT !.loggers = WithNew(@, ids, NewLogger)]
ConfigIds(content, isUpdate) ==
    IF isUpdate THEN _ids ELSE created(_ids, DOMAIN parseConfigFromString(content))

LEMMA ConfigIdsFacts ==
    ASSUME FilesInv, NEW content, NEW isUpdate, NEW ids, ids = ConfigIds(content, isUpdate)
    PROVE  IsIds(ids) /\ Extends(_ids, ids)
<1>1. IsIds(_ids) BY DEF FilesInv
<1>2. CASE isUpdate
  <2>1. ids = _ids BY <1>2 DEF ConfigIds
  <2> QED BY <1>1, <2>1 DEF Extends
<1>3. CASE ~isUpdate
  <2>1. PICK ks : ks = DOMAIN parseConfigFromString(content) OBVIOUS
  <2>2. ids = created(_ids, ks) BY <1>3, <2>1 DEF ConfigIds
  <2> QED BY <1>1, <2>2, CreatedIds
<1> QED BY <1>2, <1>3

LEMMA BeginSetting ==
    ASSUME FilesInv, NEW ids, NEW D, NEW st, IsIds(ids), Extends(_ids, ids), D = IdsOf(ids),
           st = ConfigBegin(ids)
    PROVE  /\ IsSetting(st, D) /\ st.logs = _logs /\ st.loggers = WithNew(_loggers, ids, NewLogger)
           /\ \A k \in DOMAIN ids : ids[k] \in D
<1>1. PICK loggers, rts : /\ loggers = WithNew(_loggers, ids, NewLogger) /\ rts = WithNew(runtime, ids, NewFile)
  OBVIOUS
<1>2. /\ DOMAIN loggers = D /\ IsQueue(_logs, D)
      /\ \A i \in D : IsLogger(loggers[i], rts[i], files, _runing)
  BY <1>1, MoreLoggers
<1>3. DOMAIN st = {"loggers", "logs"} /\ st.loggers = loggers /\ st.logs = _logs
  BY <1>1 DEF ConfigBegin, Here
<1>4. \A i \in D : IsInfo(loggers[i]) BY <1>2 DEF IsLogger
<1>5. IsSetting(st, D) BY <1>2, <1>3, <1>4 DEF IsSetting
<1>6. \A k \in DOMAIN ids : ids[k] \in D BY DEF IdsOf
<1> QED BY <1>1, <1>3, <1>5, <1>6

\* The loggers a configuration leaves, and what it does to the others.
LEMMA ConfigInv ==
    ASSUME FilesInv, NEW content, content \in Contents, NEW isUpdate,
           configFromStringImpl(content, isUpdate), UNCHANGED <<_runing, files>>, 
           _checksum' \in Nat => CoreInv'
    PROVE  FilesInv'
<1>1. today \in 0 .. LastDay /\ _checksum \in Nat BY DEF FilesInv, CoreInv
<1>2. CASE Loads(content)
  <2>1. PICK ids, D, infos, begin, u, rts :
           /\ ids = ConfigIds(content, isUpdate) /\ D = IdsOf(ids)
           /\ infos = parseConfigFromString(content) /\ begin = ConfigBegin(ids)
           /\ u = Configurations(begin, ids, infos)[Len(KeyOrder)]
           /\ rts = WithNew(runtime, ids, NewFile)
    OBVIOUS
  <2>2. /\ _checksum' = checksum(content) /\ _ids' = ids /\ _loggers' = u.loggers /\ _logs' = u.logs
        /\ runtime' = rts
    BY <1>2, <2>1 DEF configFromStringImpl, ConfigIds, ConfigBegin
  <2>3. IsIds(ids) /\ Extends(_ids, ids) BY <2>1, ConfigIdsFacts
  <2>4. /\ IsSetting(begin, D) /\ begin.logs = _logs /\ \A k \in DOMAIN ids : ids[k] \in D
        /\ begin.loggers = WithNew(_loggers, ids, NewLogger)
    BY <2>1, <2>3, BeginSetting
  <2>5. \A k \in DOMAIN infos : IsInfo(infos[k]) BY <2>1, ParsedInfos, ChecksumNat
  <2>6. IsSetting(u, D) /\ SameFiles(begin, u, D) BY <1>1, <2>1, <2>4, <2>5, ConfigurationsKeep
  <2>7. PICK loggers : loggers = begin.loggers OBVIOUS
  <2>8. DOMAIN rts = D /\ \A i \in D : IsLogger(loggers[i], rts[i], files, _runing)
    BY <2>1, <2>3, <2>4, <2>7, MoreLoggers
  <2>9. ASSUME NEW i \in D PROVE IsLogger(u.loggers[i], rts[i], files, _runing)
    <3>1. PICK a, b, rt : a = loggers[i] /\ b = u.loggers[i] /\ rt = rts[i] OBVIOUS
    <3>2. IsLogger(a, rt, files, _runing) BY <2>8, <3>1
    <3>3. IsInfo(b) BY <2>6, <3>1 DEF IsSetting
    <3>4. _runing => SameFile(b, a) BY <2>6, <2>7, <3>1 DEF SameFiles
    <3>5. IsLogger(b, rt, files, _runing) BY <3>2, <3>3, <3>4, SameFileLogger
    <3> QED BY <3>1, <3>5
  <2>10. D = LoggerIds' BY <2>1, <2>2 DEF LoggerIds
  <2>11. DOMAIN _loggers' = D /\ IsQueue(_logs', D) BY <2>2, <2>6 DEF IsSetting
  <2>12. _logs' # <<>> => _runing
    <3>1. _logs # <<>> => _runing BY DEF FilesInv
    <3>2. ~_runing => u.logs = _logs BY <2>4, <2>6 DEF SameFiles
    <3> QED BY <2>2, <3>1, <3>2
  <2>13. CoreInv' BY <2>2, ChecksumNat
  <2> QED BY <2>2, <2>3, <2>8, <2>9, <2>10, <2>11, <2>12, <2>13, FilesInvNext
<1>3. CASE ~Loads(content)
  <2>1. UNCHANGED <<_checksum, _ids, _loggers, _logs, runtime, asked>> BY <1>3 DEF configFromStringImpl
  <2>2. CoreInv' BY <1>1, <2>1
  <2>3. LoggerIds' = LoggerIds BY <2>1 DEF LoggerIds
  <2> QED BY <2>1, <2>2, <2>3 DEF FilesInv
<1> QED BY <1>2, <1>3

LEMMA ConfigFileInv ==
    ASSUME FilesInv, config
    PROVE  FilesInv'
<1>1. CASE disk = NoFile
  <2>1. UNCHANGED <<_ids, _loggers, _logs, runtime, _runing, files>> BY <1>1 DEF config
  <2>2. CoreInv' BY <1>1 DEF config, FilesInv, CoreInv
  <2>3. LoggerIds' = LoggerIds BY <2>1 DEF LoggerIds
  <2> QED BY <2>1, <2>2, <2>3 DEF FilesInv
<1>2. CASE disk # NoFile
  <2>1. PICK content, isUpdate : content = disk /\ isUpdate = FALSE OBVIOUS
  <2>2. content \in Contents BY <1>2, <2>1 DEF FilesInv, CoreInv
  <2>3. configFromStringImpl(content, isUpdate) BY <1>2, <2>1 DEF config
  <2>4. UNCHANGED <<_runing, files>> BY DEF config
  <2>5. _checksum' \in Nat => CoreInv' BY DEF config, FilesInv, CoreInv
  <2> QED BY <2>2, <2>3, <2>4, <2>5, ConfigInv
<1> QED BY <1>1, <1>2

LEMMA ConfigStringInv ==
    ASSUME FilesInv, NEW content, content \in Contents, configFromString(content)
    PROVE  FilesInv'
<1>1. PICK isUpdate : isUpdate = FALSE OBVIOUS
<1>2. configFromStringImpl(content, isUpdate) BY <1>1 DEF configFromString
<1>3. UNCHANGED <<_runing, files>> BY DEF configFromString
<1>4. _checksum' \in Nat => CoreInv' BY MaxAssumption DEF configFromString, Ask, FilesInv, CoreInv
<1> QED BY <1>2, <1>3, <1>4, ConfigInv

LEMMA UpdateInv ==
    ASSUME FilesInv, updateConfig
    PROVE  FilesInv'
<1>1. PICK content, isUpdate : content = disk /\ isUpdate = TRUE OBVIOUS
<1>2. configFromStringImpl(content, isUpdate) BY <1>1 DEF updateConfig
<1>3. UNCHANGED <<_runing, files>> BY DEF updateConfig
<1>4. content \in Contents BY <1>1 DEF updateConfig, FilesInv, CoreInv
<1>5. _checksum' \in Nat => CoreInv' BY MaxAssumption DEF updateConfig, Ask, FilesInv, CoreInv
<1> QED BY <1>2, <1>3, <1>4, <1>5, ConfigInv

\* The setters, called by the application.
LEMMA SetInv ==
    ASSUME FilesInv, NEW id, NEW f, NEW v, id \in DOMAIN _loggers, f \in Fields, Fits(f, v), Set(id, f, v)
    PROVE  FilesInv'
<1>1. PICK st, u, D : st = Here /\ u = setLogger(st, id, f, v) /\ D = LoggerIds OBVIOUS
<1>2. /\ _loggers' = u.loggers /\ _logs' = u.logs /\ UNCHANGED <<_ids, runtime, _runing, files>>
  BY <1>1 DEF Set, core
<1>3. IsSetting(st, D)
  <2>1. DOMAIN st = {"loggers", "logs"} /\ st.loggers = _loggers /\ st.logs = _logs BY <1>1 DEF Here
  <2>2. \A i \in D : IsInfo(_loggers[i]) BY <1>1 DEF FilesInv, IsLogger
  <2> QED BY <1>1, <2>1, <2>2 DEF IsSetting, FilesInv
<1>4. id \in D /\ today \in 0 .. LastDay BY <1>1 DEF FilesInv, CoreInv
<1>5. IsSetting(u, D) BY <1>1, <1>3, <1>4, SetLoggerCases
<1>6. SameFiles(st, u, D) BY <1>1, <1>3, <1>4, SetLoggerSame
<1>7. ASSUME NEW i \in D PROVE IsLogger(u.loggers[i], runtime[i], files, _runing)
  <2>1. PICK a, b, rt : a = _loggers[i] /\ b = u.loggers[i] /\ rt = runtime[i] OBVIOUS
  <2>2. IsLogger(a, rt, files, _runing) BY <1>1, <2>1 DEF FilesInv
  <2>3. IsInfo(b) BY <1>5, <2>1 DEF IsSetting
  <2>4. _runing => SameFile(b, a) BY <1>1, <1>6, <2>1 DEF SameFiles, Here
  <2>5. IsLogger(b, rt, files, _runing) BY <2>2, <2>3, <2>4, SameFileLogger
  <2> QED BY <2>1, <2>5
<1>8. D = LoggerIds' BY <1>1, <1>2 DEF LoggerIds
<1>9. DOMAIN _loggers' = D /\ IsQueue(_logs', D) BY <1>2, <1>5 DEF IsSetting
<1>10. _logs' # <<>> => _runing
  <2>1. _logs # <<>> => _runing BY DEF FilesInv
  <2>2. ~_runing => u.logs = _logs BY <1>1, <1>6 DEF SameFiles, Here
  <2> QED BY <1>2, <2>1, <2>2
<1>11. CoreInv' BY MaxAssumption DEF Set, core, Ask, FilesInv, CoreInv
<1>12. IsIds(_ids') /\ DOMAIN runtime' = D BY <1>1, <1>2 DEF FilesInv
<1> QED BY <1>2, <1>7, <1>8, <1>9, <1>10, <1>11, <1>12, FilesInvNext

LEMMA EditInv ==
    ASSUME FilesInv, NEW content, content \in Contents, Edit(content)
    PROVE  FilesInv'
<1>1. UNCHANGED <<_ids, _loggers, _logs, runtime, _runing, files>> BY DEF Edit
<1>2. CoreInv' BY MaxAssumption DEF Edit, Ask, FilesInv, CoreInv
<1>3. LoggerIds' = LoggerIds BY <1>1 DEF LoggerIds
<1> QED BY <1>1, <1>2, <1>3 DEF FilesInv

LEMMA StartInv ==
    ASSUME FilesInv, start
    PROVE  FilesInv'
<1>1. UNCHANGED <<_ids, _loggers, _logs, runtime, files>> /\ _runing' = TRUE BY DEF start
<1>2. CoreInv' BY DEF start, FilesInv, CoreInv
<1>3. LoggerIds' = LoggerIds BY <1>1 DEF LoggerIds
<1>4. \A i \in LoggerIds : IsLogger(_loggers[i], runtime[i], files, TRUE) BY DEF FilesInv, IsLogger
<1> QED BY <1>1, <1>2, <1>3, <1>4 DEF FilesInv

LEMMA LogInv ==
    ASSUME FilesInv, NEW id, id \in DOMAIN _loggers, Log(id)
    PROVE  FilesInv'
<1>1. UNCHANGED <<_ids, _loggers, runtime, _runing, files>> /\ _runing BY DEF Log, core
<1>2. CoreInv' BY MaxAssumption DEF Log, core, Ask, FilesInv, CoreInv
<1>3. LoggerIds' = LoggerIds BY <1>1 DEF LoggerIds
<1>4. IsQueue(_logs', LoggerIds)
  <2>1. PICK q, D, x, u : /\ q = _logs /\ D = LoggerIds /\ u = _logs'
                          /\ x = [type |-> "general", id |-> id, value |-> 0, day |-> today]
    OBVIOUS
  <2>2. x.type = "general" /\ x.id = id /\ x.day = today BY <2>1
  <2>3. id \in D /\ today \in 0 .. LastDay /\ IsQueue(q, D) BY <2>1 DEF FilesInv, CoreInv
  <2>4. IsMessage(x, D) BY <2>2, <2>3 DEF IsMessage
  <2>5. u = Append(q, x) BY <2>1 DEF Log
  <2>6. IsQueue(u, D) BY <2>3, <2>4, <2>5, AppendQueue
  <2> QED BY <2>1, <2>6
<1> QED BY <1>1, <1>2, <1>3, <1>4 DEF FilesInv

LEMMA NextDayInv ==
    ASSUME FilesInv, NextDay
    PROVE  FilesInv'
<1>1. UNCHANGED <<_ids, _loggers, _logs, runtime, _runing, files>> BY DEF NextDay, core
<1>2. CoreInv' BY MaxAssumption DEF NextDay, core, FilesInv, CoreInv
<1>3. LoggerIds' = LoggerIds BY <1>1 DEF LoggerIds
<1> QED BY <1>1, <1>2, <1>3 DEF FilesInv
LEMMA ModFacts ==
    ASSUME NEW x, NEW p, x \in Nat, p \in Nat, 1 <= p
    PROVE  x % p \in 0 .. p - 1 /\ x % p <= x
<1>1. x = p * (x \div p) + (x % p) /\ x % p \in 0 .. p - 1 /\ x \div p \in Nat BY SMT
<1>2. PICK q, r : q = x \div p /\ r = x % p OBVIOUS
<1>3. p * q \in Nat BY <1>1, <1>2
<1>4. x = p * q + r BY <1>1, <1>2
<1>5. r <= x BY <1>1, <1>2, <1>3, <1>4
<1> QED BY <1>1, <1>2, <1>5

LEMMA LimitNat ==
    ASSUME NEW a, IsInfo(a)
    PROVE  Limit(a) \in Nat
<1>1. PICK x, p : x = a.limitsize * MB /\ p = 2^Width OBVIOUS
<1>2. a.limitsize \in Nat /\ MB \in Nat BY PowerNat, SizeAssumption DEF IsInfo
<1>3. x \in Nat /\ p \in Nat /\ 1 <= p BY <1>1, <1>2, PowerNat
<1>4. x % p \in 0 .. p - 1 BY <1>3, ModFacts
<1> QED BY <1>1, <1>3, <1>4 DEF Limit

\* What a LogData says, and the queue behind it.
LEMMA HeadFacts ==
    ASSUME FilesInv, _logs # <<>>, NEW m, m = Head(_logs)
    PROVE  /\ IsMessage(m, LoggerIds) /\ IsQueue(Tail(_logs), LoggerIds) /\ _runing
           /\ m.id \in LoggerIds /\ m.day \in 0 .. LastDay
<1>1. PICK q, D, u : q = _logs /\ D = LoggerIds /\ u = Tail(q) OBVIOUS
<1>2. IsQueue(q, D) BY <1>1 DEF FilesInv
<1>3. IsMessage(Head(q), D) /\ IsQueue(u, D) BY <1>1, <1>2, TailQueue
<1>4. IsMessage(m, D) BY <1>1, <1>3
<1> QED BY <1>1, <1>3, <1>4 DEF FilesInv, IsMessage

LEMMA HandleChangeInv ==
    ASSUME FilesInv, handleChange
    PROVE  FilesInv'
<1>1. PICK m, id, f, D : m = Head(_logs) /\ id = m.id /\ f = m.type /\ D = LoggerIds OBVIOUS
<1>2. IsMessage(m, D) /\ IsQueue(Tail(_logs), D) /\ _runing /\ id \in D
  BY <1>1, HeadFacts DEF handleChange
<1>3. f \in Fields /\ Holds(f, m.value) BY <1>1, <1>2 DEF handleChange, IsMessage
<1>4. DOMAIN _loggers = D /\ DOMAIN runtime = D BY <1>1 DEF FilesInv
<1>5. PICK a, rt : a = _loggers[id] /\ rt = runtime[id] OBVIOUS
<1>6. IsInfo(a) /\ IsRun(rt) /\ DOMAIN a = Fields BY <1>1, <1>2, <1>5 DEF FilesInv, IsLogger, IsInfo
<1>7. PICK b, r : b = [a EXCEPT ![f] = m.value] /\ r = [rt EXCEPT !.handle = NoHandle] OBVIOUS
<1>8. IsInfo(b)
  <2>1. "limitsize" \in Fields /\ "reservedays" \in Fields BY FieldsDef
  <2>2. DOMAIN b = Fields /\ b[f] = m.value /\ \A g \in Fields : g # f => b[g] = a[g] BY <1>3, <1>6, <1>7
  <2> QED BY <1>3, <1>6, <2>1, <2>2 DEF IsInfo, Holds
<1>9. IsRun(r) /\ r.handle = NoHandle
  <2>1. DOMAIN rt = {"created", "index", "len", "handle"} BY <1>6 DEF IsRun
  <2>2. DOMAIN r = DOMAIN rt /\ r.handle = NoHandle /\ r.created = rt.created /\ r.len = rt.len
    BY <1>7, <2>1
  <2> QED BY <1>6, <2>1, <2>2 DEF IsRun
<1>10. /\ _loggers' = [_loggers EXCEPT ![id] = b] /\ runtime' = [runtime EXCEPT ![id] = r]
  BY <1>1, <1>5, <1>7 DEF handleChange
<1>11. /\ DOMAIN _loggers' = D /\ _loggers'[id] = b /\ DOMAIN runtime' = D /\ runtime'[id] = r
       /\ \A i \in D : i # id => _loggers'[i] = _loggers[i] /\ runtime'[i] = runtime[i]
  BY <1>2, <1>4, <1>10
<1>12. ASSUME NEW i \in D PROVE IsLogger(_loggers'[i], runtime'[i], files, _runing)
  <2>1. CASE i = id BY <1>8, <1>9, <1>11, <2>1, ClosedLogger
  <2>2. CASE i # id BY <1>1, <1>11, <2>2 DEF FilesInv
  <2> QED BY <2>1, <2>2
<1>13. UNCHANGED <<_ids, _runing, files>> /\ IsQueue(_logs', D) BY <1>2 DEF handleChange, core
<1>14. CoreInv' BY DEF handleChange, core, FilesInv, CoreInv
<1>15. D = LoggerIds' /\ IsIds(_ids') BY <1>1, <1>13 DEF LoggerIds, FilesInv
<1> QED BY <1>2, <1>11, <1>12, <1>13, <1>14, <1>15, FilesInvNext

\* A log goes to the open file of its logger, or is dropped.
LEMMA HandleLogInv ==
    ASSUME FilesInv, handleLog
    PROVE  FilesInv'
<1>1. PICK m, id, a, rt, D : /\ m = Head(_logs) /\ id = m.id /\ a = _loggers[id] /\ rt = runtime[id]
                             /\ D = LoggerIds
  OBVIOUS
<1>2. IsQueue(Tail(_logs), D) /\ _runing /\ id \in D BY <1>1, HeadFacts DEF handleLog
<1>3. UNCHANGED <<_ids, _loggers, _runing>> /\ _logs' = Tail(_logs) BY DEF handleLog, core
<1>4. CoreInv' BY DEF handleLog, core, FilesInv, CoreInv
<1>5. LoggerIds' = D BY <1>1, <1>3 DEF LoggerIds
<1>6. DOMAIN _loggers = D /\ DOMAIN runtime = D BY <1>1 DEF FilesInv
<1>7. CASE ~(a.enable /\ a.outfile)
  <2>1. UNCHANGED <<files, runtime>> BY <1>1, <1>7 DEF handleLog
  <2> QED BY <1>1, <1>2, <1>3, <1>4, <1>5, <2>1 DEF FilesInv
<1>8. CASE a.enable /\ a.outfile
  <2>1. /\ rt.handle # NoHandle /\ ~Closes(a, rt, m.day)
        /\ files' = IF rt.handle = Unlinked THEN files ELSE [files EXCEPT ![rt.handle] = @ + LogSize]
        /\ runtime' = [runtime EXCEPT ![id].len = (@ + LogSize) % 2^Width]
    BY <1>1, <1>8 DEF handleLog
  <2>2. DOMAIN files' = DOMAIN files BY <2>1
  <2>3. IsLogger(a, rt, files, _runing) BY <1>1, <1>2 DEF FilesInv
  <2>4. IsInfo(a) /\ IsRun(rt) /\ IsOpen(a, rt, files) BY <2>1, <2>3 DEF IsLogger
  <2>5. PICK n, p, r : n = rt.len /\ p = 2^Width /\ r = [rt EXCEPT !.len = (n + LogSize) % p] OBVIOUS
  <2>6. runtime' = [runtime EXCEPT ![id] = r] BY <1>1, <2>1, <2>5
  <2>7. /\ DOMAIN runtime' = D /\ runtime'[id] = r /\ \A i \in D : i # id => runtime'[i] = runtime[i]
    BY <1>2, <1>6, <2>6
  <2>8. /\ DOMAIN r = {"created", "index", "len", "handle"} /\ r.len = (n + LogSize) % p
        /\ r.created = rt.created /\ r.handle = rt.handle
    BY <2>4, <2>5 DEF IsRun
  <2>9. r.len \in 0 .. p - 1 /\ r.len <= Limit(a) + LogSize
    <3>1. p \in Nat /\ 1 <= p /\ LogSize \in Nat /\ n \in Nat BY <2>4, <2>5, PowerNat, SizeAssumption DEF IsRun
    <3>2. PICK x : x = n + LogSize OBVIOUS
    <3>3. x \in Nat BY <3>1, <3>2
    <3>4. x % p \in 0 .. p - 1 /\ x % p <= x BY <3>1, <3>3, ModFacts
    <3>5. n <= Limit(a) /\ Limit(a) \in Nat BY <2>1, <2>4, <2>5, <3>1, LimitNat DEF Closes
    <3>6. x <= Limit(a) + LogSize BY <3>1, <3>2, <3>5
    <3>7. r.len = x % p BY <2>8, <3>2
    <3> QED BY <3>1, <3>3, <3>4, <3>5, <3>6, <3>7
  <2>10. IsLogger(a, r, files, _runing)
    <3>1. IsRun(r) BY <2>4, <2>5, <2>8, <2>9 DEF IsRun
    <3>2. IsOpen(a, r, files) BY <2>4, <2>8, <2>9 DEF IsOpen
    <3> QED BY <1>2, <2>4, <3>1, <3>2 DEF IsLogger
  <2>11. ASSUME NEW i \in D PROVE IsLogger(_loggers'[i], runtime'[i], files', _runing')
    <3>1. IsLogger(_loggers[i], runtime'[i], files, _runing)
      <4>1. CASE i = id BY <1>1, <2>7, <2>10, <4>1
      <4>2. CASE i # id BY <1>1, <2>7, <4>2 DEF FilesInv
      <4> QED BY <4>1, <4>2
    <3> QED BY <1>3, <2>2, <3>1 DEF IsLogger, IsOpen
  <2>12. IsIds(_ids') /\ \A g \in DOMAIN files' : g.day \in 0 .. LastDay BY <1>3, <2>2 DEF FilesInv
  <2> QED BY <1>2, <1>3, <1>4, <1>5, <1>6, <2>7, <2>11, <2>12 DEF FilesInv
<1> QED BY <1>7, <1>8

\* The file of the log that is handled, and the files openLogger removes.
Target == FileOf(_loggers[Head(_logs).id], Head(_logs).day)
Gone(second) == Removed(_loggers[Head(_logs).id], Target, second)

LEMMA OpenFiles ==
    ASSUME NEW ok, ok \in BOOLEAN, NEW second, second \in 0 .. DaySeconds - 1,
           openLogger(ok, second)
    PROVE  /\ DOMAIN files \ Gone(second) \subseteq DOMAIN files' /\ (ok => Target \in DOMAIN files')
           /\ \A g \in DOMAIN files' :
                 g = Target \/ (g \in DOMAIN files \ Gone(second) /\ files'[g] = files[g])
<1>1. PICK kept : kept = [g \in DOMAIN files \ Gone(second) |-> files[g]] OBVIOUS
<1>2. PICK n : n = LogSize + (IF Target \in DOMAIN kept THEN kept[Target] ELSE 0) OBVIOUS
<1>3. files' = IF ok THEN With(kept, Target, n) ELSE kept BY <1>1, <1>2 DEF openLogger, Target, Gone
<1>4. /\ DOMAIN kept = DOMAIN files \ Gone(second)
      /\ \A g \in DOMAIN files \ Gone(second) : kept[g] = files[g]
  BY <1>1
<1>5. CASE ok
  <2>1. /\ DOMAIN files' = DOMAIN kept \cup {Target}
        /\ \A g \in DOMAIN kept : g # Target => files'[g] = kept[g]
    BY <1>3, <1>5 DEF With
  <2> QED BY <1>4, <1>5, <2>1
<1>6. CASE ~ok
  <2>1. files' = kept BY <1>3, <1>6
  <2> QED BY <1>4, <1>6, <2>1
<1> QED BY <1>5, <1>6

\* The loggers that do not write the log keep their files, unless those are
\* removed.
LEMMA OtherLogger ==
    ASSUME NEW a, NEW rt, NEW fs, NEW gs, NEW gone, NEW u, IsLogger(a, rt, fs, TRUE),
           NoHandle \notin gone, DOMAIN fs \ gone \subseteq DOMAIN gs,
           u = IF rt.handle \in gone THEN [rt EXCEPT !.handle = Unlinked] ELSE rt
    PROVE  IsLogger(a, u, gs, TRUE)
<1>1. IsInfo(a) /\ IsRun(rt) BY DEF IsLogger
<1>2. CASE rt.handle \notin gone
  <2>1. u = rt BY <1>2
  <2> QED BY <1>1, <1>2, <2>1 DEF IsLogger, IsOpen
<1>3. CASE rt.handle \in gone
  <2>1. u = [rt EXCEPT !.handle = Unlinked] BY <1>3
  <2>2. /\ DOMAIN u = DOMAIN rt /\ u.handle = Unlinked /\ u.len = rt.len /\ u.created = rt.created
    BY <1>1, <2>1 DEF IsRun
  <2>3. CASE rt.handle # NoHandle
    <3>1. rt.len <= Limit(a) + LogSize BY <2>3 DEF IsLogger, IsOpen
    <3>2. IsRun(u) BY <1>1, <2>2 DEF IsRun
    <3>3. IsOpen(a, u, gs) BY <2>2, <3>1 DEF IsOpen
    <3> QED BY <1>1, <3>2, <3>3 DEF IsLogger
  <2>4. CASE rt.handle = NoHandle
    <3> QED BY <1>3, <2>4
  <2> QED BY <2>3, <2>4
<1> QED BY <1>2, <1>3

LEMMA OpenLoggerInv ==
    ASSUME FilesInv, NEW ok, ok \in BOOLEAN, NEW second, second \in 0 .. DaySeconds - 1,
           openLogger(ok, second)
    PROVE  FilesInv'
<1>1. PICK m, id, a, f, gone, D :
         /\ m = Head(_logs) /\ id = m.id /\ a = _loggers[id] /\ f = Target /\ gone = Gone(second) /\ D = LoggerIds
  OBVIOUS
<1>2. IsQueue(Tail(_logs), D) /\ _runing /\ id \in D /\ m.day \in 0 .. LastDay
  BY <1>1, HeadFacts DEF openLogger
<1>3. UNCHANGED <<_ids, _runing>> /\ _logs' = Tail(_logs) BY DEF openLogger, core
<1>4. CoreInv' BY DEF openLogger, core, FilesInv, CoreInv
<1>5. LoggerIds' = D BY <1>1, <1>3 DEF LoggerIds
<1>6. DOMAIN _loggers = D /\ DOMAIN runtime = D BY <1>1 DEF FilesInv
<1>7. /\ f = FileOf(a, m.day) /\ f.day = m.day /\ gone = Removed(a, f, second)
  BY <1>1 DEF Target, Gone, FileOf
<1>8. /\ DOMAIN files \ gone \subseteq DOMAIN files' /\ (ok => f \in DOMAIN files')
      /\ \A g \in DOMAIN files' : g = f \/ g \in DOMAIN files
  BY <1>1, OpenFiles
<1>9. \A g \in DOMAIN files : g.day \in 0 .. LastDay BY DEF FilesInv
<1>10. \A g \in DOMAIN files' : g.day \in 0 .. LastDay BY <1>2, <1>7, <1>8, <1>9
<1>11. NoHandle \notin gone
  <2>1. NoHandle.day = -1 BY DEF NoHandle
  <2>2. ~(-1 \in 0 .. LastDay) BY MaxAssumption
  <2>3. gone \subseteq DOMAIN files BY <1>7 DEF Removed
  <2> QED BY <1>9, <2>1, <2>2, <2>3
<1>12. \A i \in D : IsInfo(_loggers[i]) /\ IsLogger(_loggers[i], runtime[i], files, _runing)
  BY <1>1 DEF FilesInv, IsLogger
<1>13. PICK new : runtime' = [i \in DOMAIN runtime |->
                      IF i = id THEN new
                      ELSE IF runtime[i].handle \in gone THEN [runtime[i] EXCEPT !.handle = Unlinked]
                      ELSE runtime[i]]
               /\ \E x : new = [created |-> m.day, index |-> x,
                                len |-> IF ok THEN LogSize % 2^Width ELSE 0,
                                handle |-> IF ok THEN f ELSE NoHandle]
  <2>1. PICK x : x = IF ~Closes(a, runtime[id], m.day) THEN runtime[id].index
                     ELSE IF m.day # runtime[id].created THEN 0 ELSE runtime[id].index + 1
    OBVIOUS
  <2>2. PICK new : new = [created |-> m.day, index |-> x,
                          len |-> IF ok THEN LogSize % 2^Width ELSE 0,
                          handle |-> IF ok THEN f ELSE NoHandle]
    OBVIOUS
  <2>3. runtime' = [i \in DOMAIN runtime |->
            IF i = id THEN new
            ELSE IF runtime[i].handle \in gone THEN [runtime[i] EXCEPT !.handle = Unlinked]
            ELSE runtime[i]]
    BY <1>1, <1>7, <2>1, <2>2 DEF openLogger
  <2> QED BY <2>2, <2>3
<1>14. /\ DOMAIN new = {"created", "index", "len", "handle"} /\ new.created = m.day
       /\ new.len = (IF ok THEN LogSize % 2^Width ELSE 0) /\ new.handle = (IF ok THEN f ELSE NoHandle)
  BY <1>13
<1>15. /\ DOMAIN runtime' = D /\ runtime'[id] = new
       /\ \A i \in D : i # id =>
             runtime'[i] = IF runtime[i].handle \in gone THEN [runtime[i] EXCEPT !.handle = Unlinked]
                           ELSE runtime[i]
  BY <1>2, <1>6, <1>13
<1>16. /\ DOMAIN _loggers' = D /\ \A i \in D : i # id => _loggers'[i] = _loggers[i]
       /\ IsInfo(_loggers'[id]) /\ (ok => _loggers'[id] = a)
  <2>1. CASE ok
    <3>1. _loggers' = _loggers BY <2>1 DEF openLogger
    <3> QED BY <1>1, <1>2, <1>6, <1>12, <2>1, <3>1
  <2>2. CASE ~ok
    <3>1. PICK b : b = [a EXCEPT !.outfile = FALSE] OBVIOUS
    <3>2. _loggers' = [_loggers EXCEPT ![id] = b] BY <1>1, <2>2, <3>1 DEF openLogger
    <3>3. IsInfo(a) BY <1>1, <1>2, <1>12
    <3>4. DOMAIN b = Fields /\ b.limitsize = a.limitsize /\ b.reservedays = a.reservedays
      BY <3>1, <3>3 DEF IsInfo
    <3>5. IsInfo(b) BY <3>3, <3>4 DEF IsInfo
    <3>6. /\ DOMAIN _loggers' = D /\ _loggers'[id] = b /\ \A i \in D : i # id => _loggers'[i] = _loggers[i]
      BY <1>2, <1>6, <3>2
    <3> QED BY <2>2, <3>5, <3>6
  <2> QED BY <2>1, <2>2
<1>17. IsRun(new) /\ new.len <= LogSize
  <2>1. PICK p : p = 2^Width OBVIOUS
  <2>2. p \in Nat /\ 1 <= p /\ LogSize \in Nat BY <2>1, PowerNat, SizeAssumption
  <2>3. LogSize % p \in 0 .. p - 1 /\ LogSize % p <= LogSize BY <2>2, ModFacts
  <2>4. new.len \in 0 .. p - 1 /\ new.len <= LogSize BY <1>14, <2>1, <2>2, <2>3
  <2>5. m.day \in -1 .. LastDay BY <1>2, MaxAssumption
  <2> QED BY <1>14, <2>1, <2>4, <2>5 DEF IsRun
<1>18. IsLogger(_loggers'[id], new, files', TRUE)
  <2>1. CASE ok
    <3>1. new.handle = FileOf(a, new.created) /\ new.handle \in DOMAIN files' BY <1>7, <1>8, <1>14, <2>1
    <3>2. IsInfo(a) /\ Limit(a) \in Nat BY <1>16, <2>1, LimitNat
    <3>3. new.len <= Limit(a) + LogSize BY <1>17, <3>2, SizeAssumption, PowerNat DEF IsRun
    <3>4. IsOpen(a, new, files') BY <3>1, <3>3 DEF IsOpen
    <3> QED BY <1>16, <1>17, <2>1, <3>2, <3>4 DEF IsLogger
  <2>2. CASE ~ok
    <3>1. new.handle = NoHandle BY <1>14, <2>2
    <3> QED BY <1>16, <1>17, <3>1, ClosedLogger
  <2> QED BY <2>1, <2>2
<1>19. ASSUME NEW i \in D PROVE IsLogger(_loggers'[i], runtime'[i], files', _runing')
  <2>1. CASE i = id BY <1>2, <1>3, <1>15, <1>18, <2>1
  <2>2. CASE i # id
    <3>1. PICK b, rt, u : b = _loggers[i] /\ rt = runtime[i] /\ u = runtime'[i] OBVIOUS
    <3>2. PICK fs, gs : fs = files /\ gs = files' OBVIOUS
    <3>3. IsLogger(b, rt, fs, TRUE) BY <1>2, <1>12, <3>1, <3>2
    <3>4. u = IF rt.handle \in gone THEN [rt EXCEPT !.handle = Unlinked] ELSE rt BY <1>15, <2>2, <3>1
    <3>5. DOMAIN fs \ gone \subseteq DOMAIN gs BY <1>8, <3>2
    <3>6. IsLogger(b, u, gs, TRUE) BY <1>11, <3>3, <3>4, <3>5, OtherLogger
    <3> QED BY <1>2, <1>3, <1>16, <2>2, <3>1, <3>2, <3>6
  <2> QED BY <2>1, <2>2
<1>20. IsIds(_ids') BY <1>3 DEF FilesInv
<1> QED BY <1>2, <1>3, <1>4, <1>5, <1>10, <1>15, <1>16, <1>19, <1>20 DEF FilesInv

\* The calls of the application are of the setters.
LEMMA ChangeFits ==
    ASSUME NEW c, c \in Changes
    PROVE  c[1] \in Fields /\ Fits(c[1], c[2])
  BY ValueAssumption DEF Fits

LEMMA StepInv == FilesInv /\ [Next]_vars => FilesInv'
<1> SUFFICES ASSUME FilesInv, [Next]_vars PROVE FilesInv' OBVIOUS
<1>1. CASE UNCHANGED vars
  <2>1. LoggerIds' = LoggerIds /\ CoreInv' BY <1>1 DEF vars, LoggerIds, FilesInv, CoreInv
  <2> QED BY <1>1, <2>1 DEF vars, FilesInv
<1>2. ASSUME NEW key, createLogger(key) PROVE FilesInv' BY <1>2, CreateInv
<1>3. ASSUME NEW c \in Contents, configFromString(c) PROVE FilesInv' BY <1>3, ConfigStringInv
<1>4. ASSUME NEW c \in Contents, Edit(c) PROVE FilesInv' BY <1>4, EditInv
<1>5. CASE config BY <1>5, ConfigFileInv
<1>6. CASE updateConfig BY <1>6, UpdateInv
<1>7. CASE start BY <1>7, StartInv
<1>8. CASE NextDay BY <1>8, NextDayInv
<1>9. ASSUME NEW id \in DOMAIN _loggers, Log(id) PROVE FilesInv' BY <1>9, LogInv
<1>10. ASSUME NEW id \in DOMAIN _loggers, NEW c \in Changes, Set(id, c[1], c[2]) PROVE FilesInv'
  <2>1. PICK f, v : f = c[1] /\ v = c[2] OBVIOUS
  <2>2. f \in Fields /\ Fits(f, v) BY <2>1, ChangeFits
  <2>3. Set(id, f, v) BY <1>10, <2>1
  <2> QED BY <2>2, <2>3, SetInv
<1>11. CASE handleChange BY <1>11, HandleChangeInv
<1>12. CASE handleLog BY <1>12, HandleLogInv
<1>13. ASSUME NEW ok \in BOOLEAN, NEW second \in 0 .. DaySeconds - 1, openLogger(ok, second)
       PROVE  FilesInv'
  BY <1>13, OpenLoggerInv
<1> QED BY <1>1, <1>2, <1>3, <1>4, <1>5, <1>6, <1>7, <1>8, <1>9, <1>10, <1>11, <1>12, <1>13 DEF Next

\* What every call and every LogData the log thread handles leaves true: the
\* ids are the first ones of _loggers, a queued change fits its field, files
\* are open only while the log thread runs, and an open file is the one of its
\* logger's attributes and day, or removed.
THEOREM FilesInvariant == Spec => []FilesInv
  BY InitInv, StepInv, PTL DEF Spec

\* However the limits are changed, by setLoggerLimitsize or a configuration,
\* and whatever waits in the queue: openLogger and run write no file through one
\* handle further than its limit and one log, and createLogger keeps the ids
\* within _loggers.
THEOREM RollsTheorem == Spec => []RollsAtLimit
<1>1. FilesInv => RollsAtLimit
  <2> SUFFICES ASSUME FilesInv PROVE RollsAtLimit OBVIOUS
  <2>1. PICK K, n : K = DOMAIN _ids /\ n = Cardinality(K) OBVIOUS
  <2>2. n \in 1 .. LOGGER_MAX /\ LoggerIds = 0 .. n - 1 /\ K \subseteq Range(KeyOrder)
    BY <2>1 DEF FilesInv, IsIds, LoggerIds, IdsOf
  <2>3. DOMAIN _loggers = LoggerIds /\ DOMAIN runtime = LoggerIds BY DEF FilesInv
  <2>4. _lastId = n - 1 /\ n - 1 < LOGGER_MAX BY <2>1, <2>2, MaxAssumption DEF _lastId
  <2>5. {_ids[k] : k \in DOMAIN _ids} = 0 .. _lastId BY <2>2, <2>4 DEF LoggerIds, IdsOf
  <2>6. \A i \in LoggerIds : IsLogger(_loggers[i], runtime[i], files, _runing) BY DEF FilesInv
  <2>7. \A i \in LoggerIds : runtime[i].handle # NoHandle => runtime[i].len <= Limit(_loggers[i]) + LogSize
    BY <2>6 DEF IsLogger, IsOpen
  <2>8. TypeOK
    <3>1. ASSUME NEW i \in LoggerIds
          PROVE /\ DOMAIN _loggers[i] = Fields
                /\ _loggers[i].limitsize \in 0 .. 2^Width - 1 /\ _loggers[i].reservedays \in 1 .. 2^Width - 1
                /\ runtime[i].created \in -1 .. LastDay /\ runtime[i].len \in 0 .. 2^Width - 1
                /\ runtime[i].handle \in DOMAIN files \cup {NoHandle, Unlinked}
      BY <2>6 DEF IsLogger, IsInfo, IsRun, IsOpen
    <3>2. \A i \in DOMAIN _logs : _logs[i].id \in LoggerIds BY DEF FilesInv, IsQueue, IsMessage
    <3>3. {_configFile, _runing} \subseteq BOOLEAN BY DEF FilesInv, CoreInv
    <3> QED BY <2>1, <2>2, <2>3, <3>1, <3>2, <3>3 DEF TypeOK, FilesInv, CoreInv
  <2> QED BY <2>3, <2>4, <2>5, <2>7, <2>8 DEF RollsAtLimit
<1> QED BY <1>1, FilesInvariant, PTL

-----------------------------------------------------------------------------
(* What may happen to the files.                                           *)

\* Only the log thread writes them, when it handles a log.
LEMMA FilesChange ==
    ASSUME [Next]_vars, files' # files
    PROVE  handleLog \/ \E ok \in BOOLEAN, second \in 0 .. DaySeconds - 1 : openLogger(ok, second)
<1>1. CASE UNCHANGED vars BY <1>1 DEF vars
<1>2. ASSUME NEW key, createLogger(key) PROVE FALSE BY <1>2 DEF createLogger
<1>3. ASSUME NEW c, configFromString(c) PROVE FALSE BY <1>3 DEF configFromString
<1>4. ASSUME NEW c, Edit(c) PROVE FALSE BY <1>4 DEF Edit
<1>5. CASE config BY <1>5 DEF config
<1>6. CASE updateConfig BY <1>6 DEF updateConfig
<1>7. CASE start BY <1>7 DEF start
<1>8. CASE NextDay BY <1>8 DEF NextDay
<1>9. ASSUME NEW id, Log(id) PROVE FALSE BY <1>9 DEF Log
<1>10. ASSUME NEW id, NEW f, NEW v, Set(id, f, v) PROVE FALSE BY <1>10 DEF Set
<1>11. CASE handleChange BY <1>11 DEF handleChange
<1> QED BY <1>1, <1>2, <1>3, <1>4, <1>5, <1>6, <1>7, <1>8, <1>9, <1>10, <1>11 DEF Next

\* A log that finds a file open is of the day the file was opened for.
LEMMA HandleLogFiles ==
    ASSUME FilesInv, handleLog, files' # files
    PROVE  /\ DOMAIN files' = DOMAIN files
           /\ \A g \in DOMAIN files : g # Target => files'[g] = files[g]
           /\ runtime'[Head(_logs).id].handle = runtime[Head(_logs).id].handle
<1>1. PICK m, a, id, rt : m = Head(_logs) /\ id = m.id /\ a = _loggers[id] /\ rt = runtime[id] OBVIOUS
<1>2. id \in LoggerIds BY <1>1, HeadFacts DEF handleLog
<1>3. /\ rt.handle # NoHandle /\ ~Closes(a, rt, m.day)
      /\ files' = IF rt.handle = Unlinked THEN files ELSE [files EXCEPT ![rt.handle] = @ + LogSize]
      /\ runtime' = [runtime EXCEPT ![id].len = (@ + LogSize) % 2^Width]
  BY <1>1 DEF handleLog
<1>4. IsLogger(a, rt, files, _runing) BY <1>1, <1>2 DEF FilesInv
<1>5. rt.handle # Unlinked /\ files' = [files EXCEPT ![rt.handle] = @ + LogSize] BY <1>3
<1>6. rt.handle = FileOf(a, rt.created) /\ m.day = rt.created /\ IsRun(rt)
  BY <1>3, <1>4, <1>5 DEF IsLogger, IsOpen, Closes
<1>7. DOMAIN runtime = LoggerIds BY DEF FilesInv
<1>8. runtime'[id].handle = rt.handle BY <1>1, <1>2, <1>3, <1>6, <1>7 DEF IsRun
<1>9. rt.handle = Target BY <1>1, <1>6 DEF Target
<1> QED BY <1>1, <1>5, <1>8, <1>9

\* openLogger and run write every log to the file of its own day, name and path,
\* for any number of loggers and days and any order of logs and changes.
THEOREM FiledTheorem == Spec => FiledByDay
<1> DEFINE A == \A f \in DOMAIN files' :
                   (f \notin DOMAIN files \/ files'[f] # files[f])
                       => f = FileOf(_loggers[Head(_logs).id], Head(_logs).day)
<1>1. FilesInv /\ [Next]_vars => [A]_vars
  <2> SUFFICES ASSUME FilesInv, [Next]_vars, NEW f \in DOMAIN files',
                      f \notin DOMAIN files \/ files'[f] # files[f]
               PROVE  f = Target
    BY DEF Target
  <2>1. CASE handleLog BY <2>1, HandleLogFiles
  <2>2. ASSUME NEW ok \in BOOLEAN, NEW second \in 0 .. DaySeconds - 1, openLogger(ok, second)
        PROVE  f = Target
    BY <2>2, OpenFiles
  <2>3. files' # files OBVIOUS
  <2> QED BY <2>1, <2>2, <2>3, FilesChange
<1>2. FilesInv /\ FilesInv' /\ [Next]_vars => [A]_vars BY <1>1
<1> HIDE DEF A
<1>3. Spec => [][A]_vars BY <1>2, FilesInvariant, PTL DEF Spec
<1> QED BY <1>3 DEF A, FiledByDay

\* The whole days in a time of day after some days, also before the first one.
LEMMA WholeDays ==
    ASSUME NEW n \in Int, NEW d \in Nat, 1 <= d, NEW s \in 0 .. d - 1
    PROVE  (n * d + s) \div d = n
<1>1. PICK x, q : x = n * d + s /\ q = x \div d OBVIOUS
<1>2. n * d \in Int OBVIOUS
<1>3. x \in Int BY <1>1, <1>2
<1>4. q \in Int /\ x % d \in 0 .. d - 1 /\ x = d * q + (x % d) BY <1>1, <1>3, SMT
<1>5. PICK k : k = n - q OBVIOUS
<1>6. k \in Int BY <1>4, <1>5
<1>7. d * k = (x % d) - s
  <2>1. d * k = n * d - d * q BY <1>4, <1>5, SMT
  <2> QED BY <1>1, <1>2, <1>4, <2>1
<1>8. d * k < d /\ -d < d * k BY <1>4, <1>7
<1>9. k = 0
  <2>1. CASE k >= 1
    <3>1. d * k >= d BY <1>6, <2>1, SMT
    <3> QED BY <1>6, <1>8, <3>1
  <2>2. CASE k <= -1
    <3>1. d * k <= -d BY <1>6, <2>2, SMT
    <3> QED BY <1>6, <1>8, <3>1
  <2> QED BY <1>6, <2>1, <2>2
<1> QED BY <1>1, <1>4, <1>5, <1>9

\* As long as the days to be kept fit an unsigned int as seconds, openLogger goes
\* back that many days, at whatever second of today.
LEMMA ExpiredDay ==
    ASSUME FilesInv, NEW a, IsInfo(a), a.reservedays * DaySeconds < 2^Width,
           NEW second, second \in 0 .. DaySeconds - 1
    PROVE  Expired(a, second) = today - a.reservedays - 1
<1>1. PICK n, d, w, t : n = a.reservedays /\ d = DaySeconds /\ w = 2^Width /\ t = today OBVIOUS
<1>2. n \in Nat /\ d \in Nat /\ 1 <= d /\ w \in Nat /\ 1 <= w /\ t \in Nat
  BY <1>1, PowerNat, SizeAssumption, SMTT(30) DEF IsInfo, FilesInv, CoreInv
<1>3. PICK x : x = n * d OBVIOUS
<1>4. x \in Nat /\ x < w BY <1>1, <1>2, <1>3
<1>5. x % w = x BY <1>2, <1>4
<1>6. Kept(a) = n * d BY <1>1, <1>3, <1>5 DEF Kept
<1>7. t * d + second - n * d = (t - n) * d + second BY <1>1, <1>2
<1>8. (t - n) \in Int /\ second \in 0 .. d - 1 BY <1>1, <1>2
<1>9. ((t - n) * d + second) \div d = t - n BY <1>2, <1>8, WholeDays
<1> QED BY <1>1, <1>2, <1>6, <1>7, <1>9 DEF Expired

\* The newest of the files that are too old is one that openLogger removes.
LEMMA ExpiredGone ==
    ASSUME FilesInv, NEW a, NEW f, NEW g, NEW gone, NEW second, IsInfo(a), gone = Removed(a, f, second),
           Expired(a, second) = today - a.reservedays - 1, f.day = today,
           DOMAIN f = {"dir", "month", "name", "day"},
           g = [f EXCEPT !.day = today - a.reservedays - 1]
    PROVE  g # f /\ (g \in DOMAIN files => g \in gone)
<1>1. PICK e : e = today - a.reservedays - 1 OBVIOUS
<1>2. today \in Int /\ a.reservedays \in Nat \ {0} BY PowerNat DEF FilesInv, CoreInv, IsInfo
<1>3. e \in Int /\ e < today BY <1>1, <1>2
<1>4. g = [f EXCEPT !.day = e] /\ g.day = e BY <1>1
<1>5. g # f BY <1>3, <1>4
<1>6. ASSUME g \in DOMAIN files PROVE g \in gone
  <2>1. Expired(a, second) = e BY <1>1
  <2>2. \A d \in g.day .. e : d = e BY <1>3, <1>4
  <2>3. \A d \in g.day .. e : [f EXCEPT !.day = d] \in DOMAIN files BY <1>4, <1>6, <2>2
  <2>4. g.day <= e /\ a.reservedays # 0 /\ g = [f EXCEPT !.day = g.day] BY <1>2, <1>3, <1>4
  <2> QED BY <1>6, <2>1, <2>3, <2>4 DEF Removed
<1> QED BY <1>5, <1>6

\* While the days to be kept fit an unsigned int as seconds (fewer than 49711 of
\* them), openLogger removes only files older than _reservedays days, and the
\* newest of those always, at whatever second of the day and whatever files there
\* are and other loggers have open.
THEOREM ReserveTheorem == Spec => KeepsReserveDays
<1> DEFINE A == files' # files =>
                   LET m == Head(_logs)
                       a == _loggers[m.id]
                   IN  a.reservedays * DaySeconds < 2^Width
                           => /\ \A g \in DOMAIN files \ DOMAIN files' : g.day < today - a.reservedays
                              /\ m.day = today /\ runtime'[m.id].handle # runtime[m.id].handle
                                     => [FileOf(a, m.day) EXCEPT !.day = today - a.reservedays - 1] \notin DOMAIN files'
<1>1. FilesInv /\ [Next]_vars => [A]_vars
  <2> SUFFICES ASSUME FilesInv, [Next]_vars, files' # files PROVE A OBVIOUS
  <2>1. PICK m, a, g : /\ m = Head(_logs) /\ a = _loggers[m.id]
                       /\ g = [Target EXCEPT !.day = today - a.reservedays - 1]
    OBVIOUS
  <2> SUFFICES ASSUME a.reservedays * DaySeconds < 2^Width
               PROVE  /\ \A h \in DOMAIN files \ DOMAIN files' : h.day < today - a.reservedays
                      /\ m.day = today /\ runtime'[m.id].handle # runtime[m.id].handle => g \notin DOMAIN files'
    BY <2>1 DEF Target
  <2>2. CASE handleLog BY <2>1, <2>2, HandleLogFiles
  <2>3. ASSUME NEW ok \in BOOLEAN, NEW second \in 0 .. DaySeconds - 1, openLogger(ok, second)
        PROVE  /\ \A h \in DOMAIN files \ DOMAIN files' : h.day < today - a.reservedays
               /\ m.day = today => g \notin DOMAIN files'
    <3>1. /\ DOMAIN files \ Gone(second) \subseteq DOMAIN files'
          /\ \A h \in DOMAIN files' : h = Target \/ h \in DOMAIN files \ Gone(second)
      BY <2>3, OpenFiles
    <3>2. m.id \in LoggerIds BY <2>1, <2>3, HeadFacts DEF openLogger
    <3>3. IsInfo(a) BY <2>1, <3>2 DEF FilesInv, IsLogger
    <3>4. Expired(a, second) = today - a.reservedays - 1 BY <3>3, ExpiredDay
    <3>5. ASSUME NEW h \in DOMAIN files \ DOMAIN files' PROVE h.day < today - a.reservedays
      <4>1. h \in Gone(second) BY <3>1
      <4>2. h.day <= Expired(a, second) BY <2>1, <4>1 DEF Gone, Removed
      <4>3. h.day \in Int /\ today \in Int /\ a.reservedays \in Int
        BY <3>3, PowerNat DEF FilesInv, CoreInv, IsInfo
      <4> QED BY <3>4, <4>2, <4>3
    <3>6. ASSUME m.day = today PROVE g \notin DOMAIN files'
      <4>1. PICK f, gone : f = Target /\ gone = Gone(second) OBVIOUS
      <4>2. DOMAIN f = {"dir", "month", "name", "day"} /\ f.day = today /\ gone = Removed(a, f, second)
        BY <2>1, <3>6, <4>1 DEF Target, Gone, FileOf
      <4>3. g # f /\ (g \in DOMAIN files => g \in gone) BY <2>1, <3>3, <3>4, <4>1, <4>2, ExpiredGone
      <4> QED BY <3>1, <4>1, <4>3
    <3> QED BY <3>5, <3>6
  <2> QED BY <2>2, <2>3, FilesChange
<1>2. FilesInv /\ FilesInv' /\ [Next]_vars => [A]_vars BY <1>1
<1> HIDE DEF A
<1>3. Spec => [][A]_vars BY <1>2, FilesInvariant, PTL DEF Spec
<1> QED BY <1>3 DEF A, KeepsReserveDays

-----------------------------------------------------------------------------
(* Following a configuration: the changes that are queued.                 *)

\* A change of field f of logger id; none is queued, one is, all that are say w.
Of(m, id, f) == m.type = f /\ m.id = id
Free(q, id, f) == \A n \in DOMAIN q : ~Of(q[n], id, f)
Waits(q, id, f) == \E n \in DOMAIN q : Of(q[n], id, f)
Agrees(q, id, f, w) == \A n \in DOMAIN q : Of(q[n], id, f) => q[n].value = w

LEMMA AppendOf ==
    ASSUME NEW q, NEW D, NEW x, NEW u, NEW id, NEW f, IsQueue(q, D), IsMessage(x, D), u = Append(q, x)
    PROVE  /\ Of(x, id, f) => Waits(u, id, f)
           /\ Waits(q, id, f) => Waits(u, id, f)
           /\ ~Of(x, id, f) /\ Free(q, id, f) => Free(u, id, f)
           /\ \A w : Agrees(q, id, f, w) /\ (Of(x, id, f) => x.value = w) => Agrees(u, id, f, w)
<1>1. PICK N : N = Len(q) OBVIOUS
<1>2. /\ N \in Nat /\ DOMAIN q = 1 .. N /\ DOMAIN u = 1 .. N + 1 /\ u[N + 1] = x
      /\ \A n \in 1 .. N : u[n] = q[n]
  BY <1>1, AppendQueue
<1>3. N + 1 \in DOMAIN u /\ \A n \in DOMAIN q : n \in DOMAIN u /\ u[n] = q[n] BY <1>2
<1>4. \A n \in DOMAIN u : u[n] = x \/ (n \in DOMAIN q /\ u[n] = q[n])
  <2>1. \A n \in 1 .. N + 1 : n = N + 1 \/ n \in 1 .. N BY <1>2
  <2> QED BY <1>2, <2>1
<1>5. Of(x, id, f) => Waits(u, id, f) BY <1>2, <1>3 DEF Waits
<1>6. Waits(q, id, f) => Waits(u, id, f) BY <1>3 DEF Waits
<1>7. ~Of(x, id, f) /\ Free(q, id, f) => Free(u, id, f) BY <1>4 DEF Free
<1>8. ASSUME NEW w, Agrees(q, id, f, w), Of(x, id, f) => x.value = w PROVE Agrees(u, id, f, w)
  BY <1>4, <1>8 DEF Agrees
<1> QED BY <1>5, <1>6, <1>7, <1>8

LEMMA TailOf ==
    ASSUME NEW q, NEW D, NEW u, NEW id, NEW f, IsQueue(q, D), q # <<>>, u = Tail(q)
    PROVE  /\ Waits(q, id, f) => Waits(u, id, f) \/ Of(Head(q), id, f)
           /\ \A w : Agrees(q, id, f, w) => Agrees(u, id, f, w)
           /\ \A w : Agrees(q, id, f, w) /\ Of(Head(q), id, f) => Head(q).value = w
<1>1. PICK N : N = Len(q) OBVIOUS
<1>2. /\ N \in Nat /\ 1 <= N /\ DOMAIN q = 1 .. N /\ DOMAIN u = 1 .. N - 1 /\ Head(q) = q[1]
      /\ \A n \in 1 .. N - 1 : u[n] = q[n + 1]
  BY <1>1, TailQueue
<1>3. \A n \in DOMAIN u : n + 1 \in DOMAIN q /\ u[n] = q[n + 1] BY <1>2
<1>4. \A n \in DOMAIN q : n = 1 \/ (n - 1 \in DOMAIN u /\ u[n - 1] = q[n])
  <2>1. \A n \in 1 .. N : n = 1 \/ (n - 1 \in 1 .. N - 1 /\ (n - 1) + 1 = n) BY <1>2
  <2> QED BY <1>2, <2>1
<1>5. ASSUME NEW n \in DOMAIN q, Of(q[n], id, f) PROVE Waits(u, id, f) \/ Of(Head(q), id, f)
  <2>1. CASE n = 1 BY <1>2, <1>5, <2>1
  <2>2. CASE n # 1 BY <1>4, <1>5, <2>2 DEF Waits
  <2> QED BY <2>1, <2>2
<1>6. ASSUME NEW w, Agrees(q, id, f, w) PROVE Agrees(u, id, f, w) BY <1>3, <1>6 DEF Agrees
<1>7. ASSUME NEW w, Agrees(q, id, f, w), Of(Head(q), id, f) PROVE Head(q).value = w
  <2>1. 1 \in DOMAIN q BY <1>2
  <2> QED BY <1>2, <1>7, <2>1 DEF Agrees
<1>8. Waits(q, id, f) => Waits(u, id, f) \/ Of(Head(q), id, f) BY <1>5 DEF Waits
<1> QED BY <1>6, <1>7, <1>8

\* Field f of logger id is what a setter was asked for, or is going to be.
Done(st, id, f, v) ==
    /\ Agrees(st.logs, id, f, Asked(f, v))
    /\ Refused(f, v) \/ st.loggers[id][f] = Asked(f, v) \/ Waits(st.logs, id, f)

\* What st does about field f of logger id, u does too.
Keeps(st, u, id, f) ==
    /\ Free(st.logs, id, f) => Free(u.logs, id, f)
    /\ \A v : Done(st, id, f, v) => Done(u, id, f, v)

LEMMA KeepsReflexive ==
    ASSUME NEW st, NEW id, NEW f
    PROVE  Keeps(st, st, id, f)
  BY DEF Keeps

LEMMA KeepsTransitive ==
    ASSUME NEW r, NEW st, NEW u, NEW id, NEW f, Keeps(r, st, id, f), Keeps(st, u, id, f)
    PROVE  Keeps(r, u, id, f)
  BY DEF Keeps

LEMMA FreeAgrees ==
    ASSUME NEW q, NEW id, NEW f, NEW w, Free(q, id, f)
    PROVE  Agrees(q, id, f, w)
  BY DEF Free, Agrees

\* A setter does what it is asked for, and nothing else.
LEMMA SetLoggerDoes ==
    ASSUME NEW st, NEW D, NEW id, NEW f, NEW v, NEW u, u = setLogger(st, id, f, v),
           IsSetting(st, D), id \in D, f \in Fields, Fits(f, v), today \in 0 .. LastDay
    PROVE  /\ Free(st.logs, id, f) => Done(u, id, f, v)
           /\ \A i \in D, g \in Fields : i # id \/ g # f => Keeps(st, u, i, g)
<1>1. PICK w : w = Asked(f, v) OBVIOUS
<1>2. \/ Refused(f, v) /\ u = st
      \/ Only(st, u, D, id, f, w)
      \/ Enqueued(st, u, id, f, w)
  BY <1>1, SetLoggerCases
<1>3. CASE Refused(f, v) /\ u = st
  <2>1. Free(st.logs, id, f) => Done(u, id, f, v) BY <1>3, FreeAgrees DEF Done
  <2> QED BY <1>3, <2>1, KeepsReflexive
<1>4. CASE Only(st, u, D, id, f, w)
  <2>1. u.logs = st.logs /\ u.loggers[id][f] = w BY <1>4 DEF Only
  <2>2. Free(st.logs, id, f) => Done(u, id, f, v) BY <1>1, <2>1, FreeAgrees DEF Done
  <2>3. ASSUME NEW i \in D, NEW g \in Fields, i # id \/ g # f PROVE Keeps(st, u, i, g)
    <3>1. u.loggers[i][g] = st.loggers[i][g] BY <1>4, <2>3 DEF Only
    <3> QED BY <2>1, <3>1 DEF Keeps, Done
  <2> QED BY <2>2, <2>3
<1>5. CASE Enqueued(st, u, id, f, w)
  <2>1. PICK q, r, x : q = st.logs /\ r = u.logs /\ x = Change(f, id, w) OBVIOUS
  <2>2. u.loggers = st.loggers /\ r = Append(q, x) BY <1>5, <2>1 DEF Enqueued
  <2>3. x.type = f /\ x.id = id /\ x.value = w /\ x.day = today BY <2>1 DEF Change
  <2>4. IsQueue(q, D) /\ IsMessage(x, D)
    <3>1. Holds(f, w) BY <1>1, AskedHolds
    <3>2. IsMessage(x, D) BY <2>3, <3>1 DEF IsMessage
    <3> QED BY <2>1, <3>2 DEF IsSetting
  <2>5. ASSUME Free(q, id, f) PROVE Done(u, id, f, v)
    <3>1. Of(x, id, f) /\ Agrees(q, id, f, w) BY <2>3, <2>5, FreeAgrees DEF Of
    <3>2. Waits(r, id, f) BY <2>2, <2>4, <3>1, AppendOf
    <3>3. Agrees(r, id, f, w) BY <2>2, <2>3, <2>4, <3>1, AppendOf
    <3> QED BY <1>1, <2>1, <3>2, <3>3 DEF Done
  <2>6. ASSUME NEW i \in D, NEW g \in Fields, i # id \/ g # f PROVE Keeps(st, u, i, g)
    <3>1. ~Of(x, i, g) BY <2>3, <2>6 DEF Of
    <3>2. Free(q, i, g) => Free(r, i, g) BY <2>2, <2>4, <3>1, AppendOf
    <3>3. Waits(q, i, g) => Waits(r, i, g) BY <2>2, <2>4, AppendOf
    <3>4. \A y : Agrees(q, i, g, y) => Agrees(r, i, g, y) BY <2>2, <2>4, <3>1, AppendOf
    <3>5. \A y : Done(st, i, g, y) => Done(u, i, g, y) BY <2>1, <2>2, <3>3, <3>4 DEF Done
    <3> QED BY <2>1, <3>2, <3>5 DEF Keeps
  <2> QED BY <2>1, <2>5, <2>6
<1> QED BY <1>2, <1>3, <1>4, <1>5

\* The ten setters of a logger.
LEMMA SettersDo ==
    ASSUME NEW st, NEW D, NEW id, NEW info, NEW u, u = SetterCalls(st, id, info)[Len(FieldOrder)],
           IsSetting(st, D), id \in D, IsInfo(info), today \in 0 .. LastDay,
           \A f \in Fields : Free(st.logs, id, f)
    PROVE  /\ \A f \in Fields : Done(u, id, f, info[f])
           /\ \A i \in D, g \in Fields : i # id => Keeps(st, u, i, g)
<1>1. PICK t : t = SetterCalls(st, id, info) OBVIOUS
<1>2. t[0] = st /\ \A i \in 1 .. 10 : t[i] = setLogger(t[i - 1], id, FieldOrder[i], info[FieldOrder[i]])
  BY <1>1, FieldOrderFacts, SetterCallsDef
<1> DEFINE Past(x, j) == \A n \in 1 .. 10 : n <= j => Done(x, id, FieldOrder[n], info[FieldOrder[n]])
           Ahead(x, j) == \A n \in 1 .. 10 : j < n => Free(x.logs, id, FieldOrder[n])
           Others(x) == \A i \in D, g \in Fields : i # id => Keeps(st, x, i, g)
           S == {j \in 0 .. 10 : IsSetting(t[j], D) /\ Past(t[j], j) /\ Ahead(t[j], j) /\ Others(t[j])}
<1>3. 0 \in S
  <2>1. Past(st, 0) OBVIOUS
  <2>2. Ahead(st, 0) BY FieldOrderFacts
  <2>3. Others(st) BY KeepsReflexive
  <2> HIDE DEF Past, Ahead, Others
  <2> QED BY <1>2, <2>1, <2>2, <2>3
<1>4. ASSUME NEW j \in 1 .. 10, j - 1 \in S PROVE j \in S
  <2>1. PICK r, w, f, v : r = t[j - 1] /\ w = t[j] /\ f = FieldOrder[j] /\ v = info[f] OBVIOUS
  <2>2. IsSetting(r, D) /\ Past(r, j - 1) /\ Ahead(r, j - 1) /\ Others(r) BY <1>4, <2>1
  <2>3. f \in Fields /\ Fits(f, v) BY <2>1, FieldOrderFacts, InfoFits
  <2>4. w = setLogger(r, id, f, v) BY <1>2, <2>1
  <2>5. IsSetting(w, D) BY <2>2, <2>3, <2>4, SetLoggerCases
  <2>6. /\ Free(r.logs, id, f) => Done(w, id, f, v)
        /\ \A i \in D, g \in Fields : i # id \/ g # f => Keeps(r, w, i, g)
    BY <2>2, <2>3, <2>4, SetLoggerDoes
  <2>7. Free(r.logs, id, f) BY <2>1, <2>2, SMTT(30)
  <2>8. ASSUME NEW n \in 1 .. 10
        PROVE  /\ n <= j => Done(w, id, FieldOrder[n], info[FieldOrder[n]])
               /\ j < n => Free(w.logs, id, FieldOrder[n])
    <3>1. CASE n = j BY <2>1, <2>6, <2>7, <3>1
    <3>2. CASE n # j
      <4>1. PICK g : g = FieldOrder[n] OBVIOUS
      <4>2. g \in Fields /\ g # f BY <2>1, <3>2, <4>1, FieldOrderFacts
      <4>3. Keeps(r, w, id, g) BY <2>6, <4>2
      <4>4. CASE n < j
        <5>1. n <= j - 1 BY <4>4
        <5>2. Done(r, id, g, info[g]) BY <2>2, <4>1, <5>1
        <5>3. Done(w, id, g, info[g]) BY <4>3, <5>2 DEF Keeps
        <5> QED BY <4>1, <4>4, <5>3
      <4>5. CASE j < n
        <5>1. j - 1 < n BY <4>5
        <5>2. Free(r.logs, id, g) BY <2>2, <4>1, <5>1
        <5>3. Free(w.logs, id, g) BY <4>3, <5>2 DEF Keeps
        <5> QED BY <4>1, <4>5, <5>3
      <4> QED BY <3>2, <4>4, <4>5
    <3> QED BY <3>1, <3>2
  <2>9. Past(w, j) /\ Ahead(w, j) BY <2>8
  <2>10. Others(w)
    <3>1. ASSUME NEW i \in D, NEW g \in Fields, i # id PROVE Keeps(st, w, i, g)
      <4>1. Keeps(st, r, i, g) BY <2>2, <3>1
      <4>2. Keeps(r, w, i, g) BY <2>6, <3>1
      <4> QED BY <4>1, <4>2, KeepsTransitive
    <3> QED BY <3>1
  <2> HIDE DEF Past, Ahead, Others
  <2> QED BY <2>1, <2>5, <2>9, <2>10
<1>5. 0 .. 10 \subseteq S BY <1>3, <1>4, UpTo
<1>6. Past(t[10], 10) /\ Others(t[10])
  <2> HIDE DEF Past, Ahead, Others
  <2>1. 10 \in S BY <1>5
  <2> QED BY <2>1
<1>7. u = t[10] BY <1>1, FieldOrderFacts
<1>8. ASSUME NEW f \in Fields PROVE Done(u, id, f, info[f])
  <2>1. PICK n \in 1 .. 10 : FieldOrder[n] = f BY FieldOrderFacts
  <2>2. n <= 10 OBVIOUS
  <2> QED BY <1>6, <1>7, <2>1, <2>2
<1>9. Others(u) BY <1>6, <1>7
<1> QED BY <1>8, <1>9

\* The setters of the loggers of a configuration, each called once.
LEMMA ConfigurationsDo ==
    ASSUME NEW st, NEW D, NEW ids, NEW infos, NEW u, u = Configurations(st, ids, infos)[Len(KeyOrder)],
           IsSetting(st, D), \A k \in DOMAIN ids : ids[k] \in D,
           \A j, k \in DOMAIN ids : ids[j] = ids[k] => j = k,
           \A k \in DOMAIN infos : IsInfo(infos[k]), today \in 0 .. LastDay,
           \A i \in D, f \in Fields : Free(st.logs, i, f),
           NEW K, K = DOMAIN infos \cap DOMAIN ids, K \subseteq Range(KeyOrder)
    PROVE  \A k \in K, f \in Fields : Done(u, ids[k], f, infos[k][f])
<1>1. PICK t, N : t = Configurations(st, ids, infos) /\ N = Len(KeyOrder) OBVIOUS
<1>2. /\ t[0] = st
      /\ \A i \in 1 .. N :
            t[i] = IF KeyOrder[i] \in K
                   THEN SetterCalls(t[i - 1], ids[KeyOrder[i]], infos[KeyOrder[i]])[Len(FieldOrder)]
                   ELSE t[i - 1]
  BY <1>1, ConfigurationsDef
<1>3. N \in Nat /\ DOMAIN KeyOrder = 1 .. N BY <1>1, KeyAssumption
<1>4. \A i, j \in 1 .. N : KeyOrder[i] = KeyOrder[j] => i = j BY <1>3, KeyAssumption DEF IsInjective
<1>5. K \subseteq DOMAIN ids /\ K \subseteq DOMAIN infos OBVIOUS
<1> DEFINE Past(x, j) == \A n \in 1 .. N, f \in Fields :
                            KeyOrder[n] \in K /\ n <= j
                                => Done(x, ids[KeyOrder[n]], f, infos[KeyOrder[n]][f])
           Ahead(x, j) == \A n \in 1 .. N, f \in Fields :
                            KeyOrder[n] \in K /\ j < n => Free(x.logs, ids[KeyOrder[n]], f)
           S == {j \in 0 .. N : IsSetting(t[j], D) /\ Past(t[j], j) /\ Ahead(t[j], j)}
<1>6. 0 \in S
  <2>1. Past(st, 0) BY <1>3
  <2>2. Ahead(st, 0) BY <1>5
  <2> HIDE DEF Past, Ahead
  <2> QED BY <1>2, <1>3, <2>1, <2>2
<1>7. ASSUME NEW j \in 1 .. N, j - 1 \in S PROVE j \in S
  <2>1. PICK r, w, k : r = t[j - 1] /\ w = t[j] /\ k = KeyOrder[j] OBVIOUS
  <2>2. IsSetting(r, D) /\ Past(r, j - 1) /\ Ahead(r, j - 1) BY <1>7, <2>1
  <2>3. CASE k \in K
    <3>1. PICK id, info : id = ids[k] /\ info = infos[k] OBVIOUS
    <3>2. id \in D /\ IsInfo(info) BY <1>5, <2>3, <3>1
    <3>3. w = SetterCalls(r, id, info)[Len(FieldOrder)] BY <1>2, <2>1, <2>3, <3>1
    <3>4. IsSetting(w, D) BY <2>2, <3>2, <3>3, SettersKeep
    <3>5. \A f \in Fields : Free(r.logs, id, f) BY <1>3, <2>1, <2>2, <2>3, <3>1
    <3>6. /\ \A f \in Fields : Done(w, id, f, info[f])
          /\ \A i \in D, g \in Fields : i # id => Keeps(r, w, i, g)
      BY <2>2, <3>2, <3>3, <3>5, SettersDo
    <3>7. ASSUME NEW n \in 1 .. N, NEW f \in Fields, KeyOrder[n] \in K
          PROVE  /\ n <= j => Done(w, ids[KeyOrder[n]], f, infos[KeyOrder[n]][f])
                 /\ j < n => Free(w.logs, ids[KeyOrder[n]], f)
      <4>1. PICK l, i, v : l = KeyOrder[n] /\ i = ids[l] /\ v = infos[l][f] OBVIOUS
      <4>2. CASE n = j BY <2>1, <3>1, <3>6, <4>2
      <4>3. CASE n # j
        <5>1. l # k BY <1>4, <2>1, <4>1, <4>3
        <5>2. i # id /\ i \in D BY <1>5, <2>3, <3>1, <3>7, <4>1, <5>1
        <5>3. Keeps(r, w, i, f) BY <3>6, <5>2
        <5>4. CASE n < j
          <6>1. n <= j - 1 BY <5>4
          <6>2. Done(r, i, f, v) BY <2>2, <3>7, <4>1, <6>1
          <6>3. Done(w, i, f, v) BY <5>3, <6>2 DEF Keeps
          <6> QED BY <4>1, <5>4, <6>3
        <5>5. CASE j < n
          <6>1. j - 1 < n BY <5>5
          <6>2. Free(r.logs, i, f) BY <2>2, <3>7, <4>1, <6>1
          <6>3. Free(w.logs, i, f) BY <5>3, <6>2 DEF Keeps
          <6> QED BY <4>1, <5>5, <6>3
        <5> QED BY <4>3, <5>4, <5>5
      <4> QED BY <4>2, <4>3
    <3>8. Past(w, j) /\ Ahead(w, j) BY <3>7
    <3> HIDE DEF Past, Ahead
    <3> QED BY <2>1, <3>4, <3>8
  <2>4. CASE k \notin K
    <3>1. w = r BY <1>2, <2>1, <2>4
    <3>2. ASSUME NEW n \in 1 .. N, KeyOrder[n] \in K PROVE (n <= j => n <= j - 1) /\ (j < n => j - 1 < n)
      <4>1. n # j BY <2>1, <2>4, <3>2
      <4> QED BY <4>1
    <3>3. Past(r, j) BY <2>2, <3>2
    <3>4. Ahead(r, j) BY <2>2, <3>2
    <3> HIDE DEF Past, Ahead
    <3>5. IsSetting(w, D) /\ Past(w, j) /\ Ahead(w, j) BY <2>2, <3>1, <3>3, <3>4
    <3> QED BY <2>1, <3>5
  <2> QED BY <2>3, <2>4
<1>8. 0 .. N \subseteq S BY <1>3, <1>6, <1>7, UpTo
<1>9. N \in S BY <1>3, <1>8
<1>10. Past(t[N], N) BY <1>9
<1>11. ASSUME NEW k \in K, NEW f \in Fields PROVE Done(u, ids[k], f, infos[k][f])
  <2>1. PICK n \in 1 .. N : KeyOrder[n] = k BY <1>3 DEF Range
  <2>2. n <= N BY <1>3
  <2> QED BY <1>1, <1>10, <2>1, <2>2
<1> QED BY <1>11

-----------------------------------------------------------------------------
(* What a configuration says: line by line, and as a whole.                *)

\* Line i of a configuration.
LineOf(c, i) == c[i]

\* Line i sets field f of the logger of key k.
Sets(c, i, k, f) ==
    c[i].kind = "pair" /\ c[i].field = f /\ Understood(c[i]) /\ InSection(c, i, k)

\* The first n lines make v of that field: the last that sets it, or none.
SaysUpTo(c, n, k, f, v) ==
    \/ v = LoggerInfo(TRUE, k)[f] /\ \A i \in 1 .. n : ~Sets(c, i, k, f)
    \/ \E i \in 1 .. n : /\ Sets(c, i, k, f) /\ v = Meaning(c[i])
                         /\ \A j \in 1 .. n : Sets(c, j, k, f) => j <= i

LEMMA SectionFirst ==
    ASSUME NEW c, NEW k
    PROVE  ~InSection(c, 0, k)
<1>1. 1 .. 0 = {} OBVIOUS
<1> QED BY <1>1 DEF InSection

LEMMA SectionOpens ==
    ASSUME NEW c, NEW n, n \in Nat \ {0}, NEW k, c[n].kind = "section"
    PROVE  InSection(c, n, k) <=> Canonical(c[n].key) = k
<1>1. n \in 1 .. n /\ n + 1 .. n = {} OBVIOUS
<1>2. ASSUME InSection(c, n, k) PROVE Canonical(c[n].key) = k
  <2>1. PICK j \in 1 .. n : /\ Canonical(c[j].key) = k
                            /\ \A i \in j + 1 .. n : c[i].kind # "section"
    BY <1>2 DEF InSection
  <2>2. j = n \/ n \in j + 1 .. n OBVIOUS
  <2> QED BY <2>1, <2>2
<1>3. ASSUME Canonical(c[n].key) = k PROVE InSection(c, n, k) BY <1>1, <1>3 DEF InSection
<1> QED BY <1>2, <1>3

LEMMA SectionGoesOn ==
    ASSUME NEW c, NEW n, n \in Nat \ {0}, NEW k, c[n].kind # "section"
    PROVE  InSection(c, n, k) <=> InSection(c, n - 1, k)
<1>1. ASSUME InSection(c, n, k) PROVE InSection(c, n - 1, k)
  <2>1. PICK j \in 1 .. n : /\ c[j].kind = "section" /\ Canonical(c[j].key) = k
                            /\ \A i \in j + 1 .. n : c[i].kind # "section"
    BY <1>1 DEF InSection
  <2>2. j # n BY <2>1
  <2>3. j \in 1 .. n - 1 /\ \A i \in j + 1 .. n - 1 : i \in j + 1 .. n BY <2>2
  <2> QED BY <2>1, <2>3 DEF InSection
<1>2. ASSUME InSection(c, n - 1, k) PROVE InSection(c, n, k)
  <2>1. PICK j \in 1 .. n - 1 : /\ c[j].kind = "section" /\ Canonical(c[j].key) = k
                                /\ \A i \in j + 1 .. n - 1 : c[i].kind # "section"
    BY <1>2 DEF InSection
  <2>2. j \in 1 .. n /\ \A i \in j + 1 .. n : i = n \/ i \in j + 1 .. n - 1 OBVIOUS
  <2> QED BY <2>1, <2>2 DEF InSection
<1> QED BY <1>1, <1>2

\* A line that does not set a field leaves it, one that does gives it its value.
LEMMA SaysMore ==
    ASSUME NEW c, NEW n, n \in Nat \ {0}, NEW k, NEW f, NEW v, SaysUpTo(c, n - 1, k, f, v), ~Sets(c, n, k, f)
    PROVE  SaysUpTo(c, n, k, f, v)
<1>1. \A i \in 1 .. n : i = n \/ i \in 1 .. n - 1 OBVIOUS
<1>2. \A i \in 1 .. n - 1 : i \in 1 .. n OBVIOUS
<1> QED BY <1>1, <1>2 DEF SaysUpTo

LEMMA SaysNow ==
    ASSUME NEW c, NEW n, n \in Nat \ {0}, NEW k, NEW f, NEW v, Sets(c, n, k, f), v = Meaning(c[n])
    PROVE  SaysUpTo(c, n, k, f, v)
<1>1. n \in 1 .. n /\ \A i \in 1 .. n : i <= n OBVIOUS
<1> QED BY <1>1 DEF SaysUpTo

\* parseConfigFromString after n lines: it is in the section of its key, has
\* the loggers whose sections it has met, and their fields as the lines say.
ParsedSo(c, n, st) ==
    /\ IsParse(st)
    /\ \A k : InSection(c, n, k) <=> (k = st.key /\ k \in DOMAIN st.out)
    /\ \A k : \A i \in 1 .. n : InSection(c, i, k) => k \in DOMAIN st.out
    /\ \A k \in DOMAIN st.out, f \in Fields : SaysUpTo(c, n, k, f, st.out[k][f])

LEMMA ParsedSection ==
    ASSUME NEW c, NEW n, n \in Nat \ {0}, NEW st, NEW u, ParsedSo(c, n - 1, st), IsParse(u),
           NEW line, line = LineOf(c, n), ReadsSection(st, line, u)
    PROVE  ParsedSo(c, n, u)
<1>0. /\ c[n].kind = "section" /\ u.key = Canonical(c[n].key)
      /\ u.out = IF u.key \in DOMAIN st.out THEN st.out
                 ELSE With(st.out, u.key, LoggerInfo(TRUE, u.key))
  BY DEF LineOf, ReadsSection
<1>1. PICK key, old, out, new : key = u.key /\ old = st.out /\ out = u.out /\ new = LoggerInfo(TRUE, key)
  OBVIOUS
<1>2. DOMAIN out = DOMAIN old \cup {key} /\ (\A k \in DOMAIN old : out[k] = old[k])
      /\ (key \notin DOMAIN old => out[key] = new)
  <2>1. CASE key \in DOMAIN old
    <3>1. out = old BY <1>0, <1>1, <2>1
    <3> QED BY <2>1, <3>1
  <2>2. CASE key \notin DOMAIN old
    <3>1. out = With(old, key, new) BY <1>0, <1>1, <2>2
    <3> QED BY <2>2, <3>1 DEF With
  <2> QED BY <2>1, <2>2
<1>3. \A k : InSection(c, n, k) <=> k = key
  <2>1. ASSUME NEW k PROVE InSection(c, n, k) <=> k = key BY <1>0, <1>1, SectionOpens
  <2> QED BY <2>1
<1>4. \A i \in 1 .. n : i = n \/ i \in 1 .. n - 1 OBVIOUS
<1>5. ASSUME NEW k, NEW i \in 1 .. n, InSection(c, i, k) PROVE k \in DOMAIN out
  <2>1. CASE i = n BY <1>2, <1>3, <1>5, <2>1
  <2>2. CASE i # n
    <3>1. k \in DOMAIN old BY <1>1, <1>4, <1>5, <2>2 DEF ParsedSo
    <3> QED BY <1>2, <3>1
  <2> QED BY <2>1, <2>2
<1>6. ASSUME NEW k, NEW f PROVE ~Sets(c, n, k, f) BY <1>0 DEF Sets
<1>7. ASSUME NEW k \in DOMAIN out, NEW f \in Fields PROVE SaysUpTo(c, n, k, f, out[k][f])
  <2>1. PICK v : v = out[k][f] OBVIOUS
  <2>2. SaysUpTo(c, n - 1, k, f, v)
    <3>1. CASE k \in DOMAIN old
      <4>1. v = old[k][f] BY <1>2, <2>1, <3>1
      <4>2. \A l \in DOMAIN old, g \in Fields : SaysUpTo(c, n - 1, l, g, old[l][g]) BY <1>1 DEF ParsedSo
      <4> QED BY <3>1, <4>1, <4>2
    <3>2. CASE k \notin DOMAIN old
      <4>1. k = key /\ v = new[f] BY <1>2, <1>7, <2>1, <3>2
      <4>2. v = LoggerInfo(TRUE, k)[f] BY <1>1, <4>1
      <4>3. \A i \in 1 .. n - 1 : ~InSection(c, i, k) BY <1>1, <3>2 DEF ParsedSo
      <4>4. \A i \in 1 .. n - 1 : ~Sets(c, i, k, f) BY <4>3 DEF Sets
      <4> QED BY <4>2, <4>4 DEF SaysUpTo
    <3> QED BY <3>1, <3>2
  <2>3. SaysUpTo(c, n, k, f, v) BY <1>6, <2>2, SaysMore
  <2> QED BY <2>1, <2>3
<1>8. key \in DOMAIN out BY <1>2
<1> QED BY <1>1, <1>3, <1>5, <1>7, <1>8 DEF ParsedSo

LEMMA ParsedPair ==
    ASSUME NEW c, NEW n, n \in Nat \ {0}, NEW st, NEW u, ParsedSo(c, n - 1, st), IsParse(u),
           NEW line, line = LineOf(c, n), ReadsPair(st, line, u)
    PROVE  ParsedSo(c, n, u)
<1>0. /\ c[n].kind = "pair" /\ st.key \in DOMAIN st.out /\ Understood(c[n])
      /\ u = SetIn(st, c[n].field, Meaning(c[n]))
  BY DEF LineOf, ReadsPair
<1>1. PICK key, old, out, f, v : /\ key = st.key /\ old = st.out /\ out = u.out /\ f = c[n].field
                                 /\ v = Meaning(c[n])
  OBVIOUS
<1>2. f \in Fields /\ Holds(f, v)
  <2>1. PICK p : p = c[n] OBVIOUS
  <2>2. p.field \in Fields /\ Holds(p.field, Meaning(p)) BY <1>0, <2>1, PairHolds
  <2> QED BY <1>1, <2>1, <2>2
<1>3. /\ u.key = key /\ DOMAIN out = DOMAIN old /\ out[key][f] = v
      /\ \A k \in DOMAIN old, g \in Fields : k # key \/ g # f => out[k][g] = old[k][g]
  <2>1. u = SetIn(st, f, v) /\ IsParse(st) BY <1>0, <1>1 DEF ParsedSo
  <2> QED BY <1>0, <1>1, <1>2, <2>1, SetInFacts
<1>4. \A k : InSection(c, n, k) <=> InSection(c, n - 1, k)
  <2>1. ASSUME NEW k PROVE InSection(c, n, k) <=> InSection(c, n - 1, k) BY <1>0, SectionGoesOn
  <2> QED BY <2>1
<1>5. \A k : InSection(c, n, k) <=> (k = key /\ k \in DOMAIN out) BY <1>0, <1>1, <1>3, <1>4 DEF ParsedSo
<1>6. \A i \in 1 .. n : i = n \/ i \in 1 .. n - 1 OBVIOUS
<1>7. ASSUME NEW k, NEW i \in 1 .. n, InSection(c, i, k) PROVE k \in DOMAIN out
  <2>1. CASE i = n BY <1>5, <1>7, <2>1
  <2>2. CASE i # n BY <1>1, <1>3, <1>6, <1>7, <2>2 DEF ParsedSo
  <2> QED BY <2>1, <2>2
<1>8. ASSUME NEW k \in DOMAIN out, NEW g \in Fields PROVE SaysUpTo(c, n, k, g, out[k][g])
  <2>1. PICK w : w = out[k][g] OBVIOUS
  <2>2. CASE k = key /\ g = f
    <3>1. Sets(c, n, k, g) /\ w = Meaning(c[n]) BY <1>0, <1>1, <1>3, <1>5, <2>1, <2>2 DEF Sets
    <3>2. SaysUpTo(c, n, k, g, w) BY <3>1, SaysNow
    <3> QED BY <2>1, <3>2
  <2>3. CASE k # key \/ g # f
    <3>1. w = old[k][g] /\ k \in DOMAIN old BY <1>3, <2>1, <2>3
    <3>2. SaysUpTo(c, n - 1, k, g, w) BY <1>1, <3>1 DEF ParsedSo
    <3>3. ~Sets(c, n, k, g) BY <1>1, <1>5, <2>3 DEF Sets
    <3>4. SaysUpTo(c, n, k, g, w) BY <3>2, <3>3, SaysMore
    <3> QED BY <2>1, <3>4
  <2> QED BY <2>2, <2>3
<1> QED BY <1>1, <1>3, <1>5, <1>7, <1>8 DEF ParsedSo

LEMMA ParsedOther ==
    ASSUME NEW c, NEW n, n \in Nat \ {0}, NEW st, NEW u, ParsedSo(c, n - 1, st),
           NEW line, line = LineOf(c, n), ReadsOther(st, line, u)
    PROVE  ParsedSo(c, n, u)
<1>0. /\ c[n].kind # "section" /\ u = st
      /\ ~(c[n].kind = "pair" /\ st.key \in DOMAIN st.out /\ Understood(c[n]))
  BY DEF LineOf, ReadsOther
<1>1. PICK key, out : key = st.key /\ out = st.out OBVIOUS
<1>2. \A k : InSection(c, n, k) <=> InSection(c, n - 1, k)
  <2>1. ASSUME NEW k PROVE InSection(c, n, k) <=> InSection(c, n - 1, k) BY <1>0, SectionGoesOn
  <2> QED BY <2>1
<1>3. \A k : InSection(c, n, k) <=> (k = key /\ k \in DOMAIN out) BY <1>1, <1>2 DEF ParsedSo
<1>4. \A i \in 1 .. n : i = n \/ i \in 1 .. n - 1 OBVIOUS
<1>5. ASSUME NEW k, NEW i \in 1 .. n, InSection(c, i, k) PROVE k \in DOMAIN out
  <2>1. CASE i = n BY <1>3, <1>5, <2>1
  <2>2. CASE i # n BY <1>1, <1>4, <1>5, <2>2 DEF ParsedSo
  <2> QED BY <2>1, <2>2
<1>6. ASSUME NEW k \in DOMAIN out, NEW f \in Fields PROVE SaysUpTo(c, n, k, f, out[k][f])
  <2>1. PICK v : v = out[k][f] OBVIOUS
  <2>2. SaysUpTo(c, n - 1, k, f, v) BY <1>1, <2>1 DEF ParsedSo
  <2>3. ~Sets(c, n, k, f) BY <1>0, <1>1, <1>3 DEF Sets
  <2>4. SaysUpTo(c, n, k, f, v) BY <2>2, <2>3, SaysMore
  <2> QED BY <2>1, <2>4
<1>7. ParsedSo(c, n, st) BY <1>1, <1>3, <1>5, <1>6 DEF ParsedSo
<1> QED BY <1>0, <1>7

\* parseConfigFromString reads line by line what a file says as a whole, for
\* files of any length: the last line on a field counts, in whichever section
\* of that name it is, and a section that comes again does not start afresh.
THEOREM ParseSays ==
    ASSUME NEW c, c \in Contents, NEW k, k \in DOMAIN parseConfigFromString(c), NEW f, f \in Fields
    PROVE  parseConfigFromString(c)[k][f] = Says(c, k, f)
<1>1. PICK t, N : t = Parsed(c) /\ N = Len(c) OBVIOUS
<1>2. N \in Nat BY <1>1, ChecksumNat
<1>3. t[0] = [key |-> "", out |-> <<>>] /\ \A i \in 1 .. N : t[i] = parseConfigLine(t[i - 1], c[i])
  BY <1>1, <1>2, ParsedDef
<1> DEFINE S == {i \in 0 .. N : ParsedSo(c, i, t[i])}
<1>4. 0 \in S
  <2>1. PICK s, none : s = t[0] /\ none = <<>> OBVIOUS
  <2>2. s = [key |-> "", out |-> none] BY <1>3, <2>1
  <2>3. DOMAIN none = {} BY <2>1
  <2>4. DOMAIN s = {"key", "out"} /\ s.out = none BY <2>2
  <2>5. IsParse(s) BY <2>3, <2>4 DEF IsParse
  <2>6. \A l : ~InSection(c, 0, l) BY SectionFirst
  <2>7. \A i \in 1 .. 0 : FALSE OBVIOUS
  <2>8. ParsedSo(c, 0, s) BY <2>3, <2>4, <2>5, <2>6, <2>7 DEF ParsedSo
  <2> QED BY <1>2, <2>1, <2>8
<1>5. ASSUME NEW i \in 1 .. N, i - 1 \in S PROVE i \in S
  <2>1. PICK r, w, l : r = t[i - 1] /\ w = t[i] /\ l = LineOf(c, i) OBVIOUS
  <2>2. ParsedSo(c, i - 1, r) BY <1>5, <2>1
  <2>3. w = parseConfigLine(r, l) /\ i \in Nat \ {0}
    <3>1. t[i] = parseConfigLine(t[i - 1], c[i]) BY <1>3
    <3>2. i \in Nat \ {0} BY <1>2
    <3> QED BY <2>1, <3>1, <3>2 DEF LineOf
  <2>4. IsParse(r) BY <2>2 DEF ParsedSo
  <2>5. IsParse(w) /\ (ReadsSection(r, l, w) \/ ReadsPair(r, l, w) \/ ReadsOther(r, l, w))
    BY <2>3, <2>4, ParseLineCases
  <2>6. CASE ReadsSection(r, l, w)
    <3>1. ParsedSo(c, i, w) BY <2>1, <2>2, <2>3, <2>5, <2>6, ParsedSection
    <3> QED BY <2>1, <3>1
  <2>7. CASE ReadsPair(r, l, w)
    <3>1. ParsedSo(c, i, w) BY <2>1, <2>2, <2>3, <2>5, <2>7, ParsedPair
    <3> QED BY <2>1, <3>1
  <2>8. CASE ReadsOther(r, l, w)
    <3>1. ParsedSo(c, i, w) BY <2>1, <2>2, <2>3, <2>8, ParsedOther
    <3> QED BY <2>1, <3>1
  <2> QED BY <2>5, <2>6, <2>7, <2>8
<1>6. 0 .. N \subseteq S BY <1>2, <1>4, <1>5, UpTo
<1>7. N \in S BY <1>2, <1>6
<1>8. PICK out, v : out = t[N].out /\ v = out[k][f] OBVIOUS
<1>9. out = parseConfigFromString(c) BY <1>1, <1>8 DEF parseConfigFromString
<1>10. SaysUpTo(c, N, k, f, v) BY <1>7, <1>8, <1>9 DEF ParsedSo
<1>11. DOMAIN c = 1 .. N
  <2>1. c \in Seq(Range(c)) BY ValueAssumption
  <2> QED BY <1>1, <2>1
<1>12. PICK L : L = Settings(c, k, f) OBVIOUS
<1>13. L = {i \in 1 .. N : Sets(c, i, k, f)} BY <1>11, <1>12 DEF Settings, Sets
<1>14. v = Says(c, k, f)
  <2>1. Says(c, k, f) = IF L = {} THEN LoggerInfo(TRUE, k)[f]
                        ELSE Meaning(c[CHOOSE i \in L : \A j \in L : j <= i])
    BY <1>12 DEF Says
  <2>2. CASE v = LoggerInfo(TRUE, k)[f] /\ \A i \in 1 .. N : ~Sets(c, i, k, f)
    <3>1. L = {} BY <1>13, <2>2
    <3> QED BY <2>1, <2>2, <3>1
  <2>3. ASSUME NEW i \in 1 .. N, Sets(c, i, k, f), v = Meaning(c[i]),
               \A j \in 1 .. N : Sets(c, j, k, f) => j <= i
        PROVE  v = Says(c, k, f)
    <3>1. i \in L /\ \A j \in L : j <= i BY <1>13, <2>3
    <3>2. PICK n : n = CHOOSE m \in L : \A j \in L : j <= m OBVIOUS
    <3>3. n \in L /\ \A j \in L : j <= n BY <3>1, <3>2
    <3>4. L \subseteq Nat BY <1>13
    <3>5. n = i BY <3>1, <3>3, <3>4
    <3>6. L # {} BY <3>1
    <3> QED BY <2>1, <2>3, <3>2, <3>5, <3>6
  <2> QED BY <1>10, <2>2, <2>3 DEF SaysUpTo
<1> QED BY <1>8, <1>9, <1>14

-----------------------------------------------------------------------------
(* Following a configuration: the steps.                                   *)

\* FollowsContent of one field, with the changes that are queued: they say
\* what the content says, and one is queued unless the logger follows it.
FieldFollows(q, now, id, f, said) ==
    /\ Agrees(q, id, f, Asked(f, said))
    /\ \/ Refused(f, said) \/ now = Asked(f, said) \/ Waits(q, id, f)
       \/ f = "outfile" /\ OpenFails /\ ~now

Now(loggers, id, f) == loggers[id][f]
IdOf(ids, k) == ids[k]
AskedSays(k, f) == Says(asked.content, k, f)

\* The inductive invariant of FollowsContent, beside FilesInv.
FollowsInv ==
    /\ asked.keys \subseteq DOMAIN _ids
    /\ \A k \in asked.keys, f \in Fields :
          FieldFollows(_logs, Now(_loggers, IdOf(_ids, k), f), IdOf(_ids, k), f, AskedSays(k, f))

LEMMA NobodyFollows ==
    ASSUME asked' = Nobody
    PROVE  FollowsInv'
<1>1. asked'.keys = {} BY DEF Nobody
<1> QED BY <1>1 DEF FollowsInv

LEMMA SameFollows ==
    ASSUME FollowsInv, UNCHANGED <<_ids, _loggers, _logs, asked>>
    PROVE  FollowsInv'
  BY DEF FollowsInv, AskedSays

LEMMA NotAField == "general" \notin Fields
  BY FieldsDef

LEMMA CreateFollows ==
    ASSUME FilesInv, FollowsInv, NEW key, createLogger(key)
    PROVE  FollowsInv'
<1>1. PICK ids, loggers, rts, D, ks :
         /\ ids = created(_ids, ks) /\ ks = {key} /\ D = IdsOf(ids)
         /\ loggers = WithNew(_loggers, ids, NewLogger) /\ rts = WithNew(runtime, ids, NewFile)
  OBVIOUS
<1>2. _ids' = ids /\ _loggers' = loggers /\ UNCHANGED <<_logs, asked>> BY <1>1 DEF createLogger
<1>3. IsIds(_ids) BY DEF FilesInv
<1>4. IsIds(ids) /\ Extends(_ids, ids) BY <1>1, <1>3, CreatedIds
<1>5. \A i \in LoggerIds : loggers[i] = _loggers[i] BY <1>1, <1>4, MoreLoggers
<1>6. DOMAIN _ids \subseteq DOMAIN ids /\ \A k \in DOMAIN _ids : IdOf(ids, k) = IdOf(_ids, k)
  BY <1>4 DEF Extends, IdOf
<1>7. \A k \in DOMAIN _ids, f \in Fields : Now(loggers, IdOf(_ids, k), f) = Now(_loggers, IdOf(_ids, k), f)
  BY <1>5 DEF LoggerIds, IdsOf, IdOf, Now
<1>8. \A k, f : AskedSays(k, f)' = AskedSays(k, f) BY <1>2 DEF AskedSays
<1> QED BY <1>2, <1>6, <1>7, <1>8 DEF FollowsInv

\* A configuration is loaded: nothing was queued but logs.
LEMMA LoadFollows ==
    ASSUME FilesInv, FollowsInv, NEW content, content \in Contents, NEW isUpdate,
           configFromStringImpl(content, isUpdate)
    PROVE  FollowsInv'
<1>1. today \in 0 .. LastDay BY DEF FilesInv, CoreInv
<1>2. CASE ~Loads(content)
  <2>1. UNCHANGED <<_ids, _loggers, _logs, asked>> BY <1>2 DEF configFromStringImpl
  <2> QED BY <2>1, SameFollows
<1>3. CASE Loads(content) /\ \E i \in DOMAIN _logs : _logs[i].type # "general"
  <2>1. asked' = Nobody BY <1>3 DEF configFromStringImpl
  <2> QED BY <2>1, NobodyFollows
<1>4. CASE Loads(content) /\ \A i \in DOMAIN _logs : _logs[i].type = "general"
  <2>1. PICK ids, D, infos, begin, u, K :
           /\ ids = ConfigIds(content, isUpdate) /\ D = IdsOf(ids)
           /\ infos = parseConfigFromString(content) /\ begin = ConfigBegin(ids)
           /\ u = Configurations(begin, ids, infos)[Len(KeyOrder)]
           /\ K = DOMAIN infos \cap DOMAIN ids
    OBVIOUS
  <2>2. /\ _ids' = ids /\ _loggers' = u.loggers /\ _logs' = u.logs
        /\ asked' = [content |-> content, keys |-> K]
    BY <1>4, <2>1 DEF configFromStringImpl, ConfigIds, ConfigBegin
  <2>3. IsIds(ids) /\ Extends(_ids, ids) BY <2>1, ConfigIdsFacts
  <2>4. /\ IsSetting(begin, D) /\ begin.logs = _logs /\ \A k \in DOMAIN ids : ids[k] \in D
    BY <2>1, <2>3, BeginSetting
  <2>5. \A k \in DOMAIN infos : IsInfo(infos[k]) BY <2>1, ParsedInfos, ChecksumNat
  <2>6. \A i \in D, f \in Fields : Free(begin.logs, i, f)
    <3>1. \A i \in D, f \in Fields : Free(_logs, i, f) BY <1>4, NotAField DEF Free, Of
    <3> QED BY <2>4, <3>1
  <2>7. \A j, k \in DOMAIN ids : ids[j] = ids[k] => j = k BY <2>3 DEF IsIds
  <2>8. K \subseteq Range(KeyOrder) BY <2>1, <2>3 DEF IsIds
  <2>9. \A k \in K, f \in Fields : Done(u, ids[k], f, infos[k][f])
    BY <1>1, <2>1, <2>4, <2>5, <2>6, <2>7, <2>8, ConfigurationsDo
  <2>10. asked'.content = content /\ asked'.keys = K /\ K \subseteq DOMAIN ids BY <2>1, <2>2
  <2>11. ASSUME NEW k \in K, NEW f \in Fields
         PROVE  FieldFollows(u.logs, Now(u.loggers, IdOf(ids, k), f), IdOf(ids, k), f, Says(content, k, f))
    <3>1. PICK v, id : v = Says(content, k, f) /\ id = IdOf(ids, k) OBVIOUS
    <3>2. infos[k][f] = v BY <2>1, <3>1, ParseSays
    <3>3. Done(u, id, f, v) BY <2>9, <3>1, <3>2 DEF IdOf
    <3>4. FieldFollows(u.logs, Now(u.loggers, id, f), id, f, v) BY <3>3 DEF Done, FieldFollows, Now
    <3> QED BY <3>1, <3>4
  <2>12. \A k, f : AskedSays(k, f)' = Says(content, k, f) BY <2>10 DEF AskedSays
  <2> QED BY <2>2, <2>10, <2>11, <2>12 DEF FollowsInv
<1> QED BY <1>2, <1>3, <1>4

LEMMA LogFollows ==
    ASSUME FilesInv, FollowsInv, NEW id, id \in DOMAIN _loggers, Log(id)
    PROVE  FollowsInv'
<1>1. PICK q, D, x, u : /\ q = _logs /\ D = LoggerIds /\ u = _logs'
                        /\ x = [type |-> "general", id |-> id, value |-> 0, day |-> today]
  OBVIOUS
<1>2. UNCHANGED <<_ids, _loggers, asked>> /\ u = Append(q, x) BY <1>1 DEF Log
<1>3. x.type = "general" /\ x.id = id /\ x.day = today BY <1>1
<1>4. IsQueue(q, D) /\ IsMessage(x, D)
  <2>1. id \in D /\ today \in 0 .. LastDay BY <1>1 DEF FilesInv, CoreInv
  <2>2. IsMessage(x, D) BY <1>3, <2>1 DEF IsMessage
  <2> QED BY <1>1, <2>2 DEF FilesInv
<1>5. ASSUME NEW i, NEW f \in Fields, NEW now, NEW said, FieldFollows(q, now, i, f, said)
      PROVE  FieldFollows(u, now, i, f, said)
  <2>1. ~Of(x, i, f) BY <1>3, NotAField DEF Of
  <2>2. Waits(q, i, f) => Waits(u, i, f) BY <1>2, <1>4, AppendOf
  <2>3. \A w : Agrees(q, i, f, w) => Agrees(u, i, f, w) BY <1>2, <1>4, <2>1, AppendOf
  <2> QED BY <1>5, <2>2, <2>3 DEF FieldFollows
<1>6. \A k, f : AskedSays(k, f)' = AskedSays(k, f) BY <1>2 DEF AskedSays
<1> QED BY <1>1, <1>2, <1>5, <1>6 DEF FollowsInv

\* Something else than a change of the field is taken off the queue.
LEMMA TailFollows ==
    ASSUME NEW q, NEW D, IsQueue(q, D), q # <<>>, NEW u, u = Tail(q), NEW id, NEW f, NEW now, NEW said,
           FieldFollows(q, now, id, f, said), ~Of(Head(q), id, f)
    PROVE  FieldFollows(u, now, id, f, said)
<1>1. Waits(q, id, f) => Waits(u, id, f) BY TailOf
<1>2. \A w : Agrees(q, id, f, w) => Agrees(u, id, f, w) BY TailOf
<1> QED BY <1>1, <1>2 DEF FieldFollows

LEMMA HandleChangeFollows ==
    ASSUME FilesInv, FollowsInv, handleChange
    PROVE  FollowsInv'
<1>1. PICK q, D, u, m, id, g : /\ q = _logs /\ D = LoggerIds /\ u = _logs' /\ m = Head(q) /\ id = m.id
                               /\ g = m.type
  OBVIOUS
<1>2. q # <<>> /\ u = Tail(q) /\ UNCHANGED <<_ids, asked>> BY <1>1 DEF handleChange
<1>3. IsQueue(q, D) BY <1>1 DEF FilesInv
<1>4. IsMessage(m, D) BY <1>1, <1>2, HeadFacts
<1>5. id \in D /\ g \in Fields BY <1>1, <1>4 DEF IsMessage, handleChange
<1>6. DOMAIN _loggers = D /\ \A i \in D : DOMAIN _loggers[i] = Fields
  BY <1>1 DEF FilesInv, IsLogger, IsInfo
<1>7. _loggers' = [_loggers EXCEPT ![id][g] = m.value] BY <1>1 DEF handleChange
<1>8. /\ Now(_loggers', id, g) = m.value
      /\ \A i \in D, f \in Fields : i # id \/ f # g => Now(_loggers', i, f) = Now(_loggers, i, f)
  BY <1>5, <1>6, <1>7 DEF Now
<1>9. ASSUME NEW k \in asked.keys, NEW f \in Fields
      PROVE  FieldFollows(u, Now(_loggers', IdOf(_ids, k), f), IdOf(_ids, k), f, AskedSays(k, f))
  <2>1. PICK i, now, said : i = IdOf(_ids, k) /\ now = Now(_loggers, i, f) /\ said = AskedSays(k, f) OBVIOUS
  <2>2. FieldFollows(q, now, i, f, said) BY <1>1, <2>1 DEF FollowsInv
  <2>3. i \in D BY <1>1, <2>1 DEF FollowsInv, LoggerIds, IdsOf, IdOf
  <2>4. CASE i = id /\ f = g
    <3>1. Of(m, i, f) BY <1>1, <2>4 DEF Of
    <3>2. Agrees(q, i, f, Asked(f, said)) BY <2>2 DEF FieldFollows
    <3>3. m.value = Asked(f, said) /\ Agrees(u, i, f, Asked(f, said)) BY <1>1, <1>2, <1>3, <3>1, <3>2, TailOf
    <3>4. Now(_loggers', i, f) = Asked(f, said) BY <1>8, <2>4, <3>3
    <3>5. FieldFollows(u, Now(_loggers', i, f), i, f, said) BY <3>3, <3>4 DEF FieldFollows
    <3> QED BY <2>1, <3>5
  <2>5. CASE i # id \/ f # g
    <3>1. ~Of(Head(q), i, f) BY <1>1, <2>5 DEF Of
    <3>2. FieldFollows(u, now, i, f, said) BY <1>2, <1>3, <2>2, <3>1, TailFollows
    <3>3. Now(_loggers', i, f) = now BY <1>8, <2>1, <2>3, <2>5
    <3> QED BY <2>1, <3>2, <3>3
  <2> QED BY <2>4, <2>5
<1>10. \A k, f : AskedSays(k, f)' = AskedSays(k, f) BY <1>2 DEF AskedSays
<1> QED BY <1>1, <1>2, <1>9, <1>10 DEF FollowsInv

\* A log is handled: openLogger may have given up the file of its logger.
LEMMA LogHandledFollows ==
    ASSUME FilesInv, FollowsInv, _logs # <<>>, Head(_logs).type = "general", _logs' = Tail(_logs),
           UNCHANGED <<_ids, asked>>, NEW id, id \in LoggerIds,
           _loggers' = _loggers \/ (OpenFails /\ _loggers' = [_loggers EXCEPT ![id].outfile = FALSE])
    PROVE  FollowsInv'
<1>1. PICK q, D, u : q = _logs /\ D = LoggerIds /\ u = _logs' OBVIOUS
<1>2. q # <<>> /\ u = Tail(q) /\ IsQueue(q, D) BY <1>1 DEF FilesInv
<1>3. DOMAIN _loggers = D /\ \A i \in D : DOMAIN _loggers[i] = Fields
  BY <1>1 DEF FilesInv, IsLogger, IsInfo
<1>4. \A i \in D, f \in Fields :
         \/ Now(_loggers', i, f) = Now(_loggers, i, f)
         \/ OpenFails /\ f = "outfile" /\ Now(_loggers', i, f) = FALSE
  <2>1. CASE _loggers' = _loggers BY <2>1
  <2>2. CASE OpenFails /\ _loggers' = [_loggers EXCEPT ![id].outfile = FALSE]
    <3>1. /\ Now(_loggers', id, "outfile") = FALSE
          /\ \A i \in D, f \in Fields : i # id \/ f # "outfile" => Now(_loggers', i, f) = Now(_loggers, i, f)
      BY <1>1, <1>3, <2>2, FieldsDef DEF Now
    <3> QED BY <2>2, <3>1
  <2> QED BY <2>1, <2>2
<1>5. ASSUME NEW k \in asked.keys, NEW f \in Fields
      PROVE  FieldFollows(u, Now(_loggers', IdOf(_ids, k), f), IdOf(_ids, k), f, AskedSays(k, f))
  <2>1. PICK i, now, new, said : /\ i = IdOf(_ids, k) /\ now = Now(_loggers, i, f) /\ said = AskedSays(k, f)
                                 /\ new = Now(_loggers', i, f)
    OBVIOUS
  <2>2. FieldFollows(q, now, i, f, said) BY <1>1, <2>1 DEF FollowsInv
  <2>3. i \in D BY <1>1, <2>1 DEF FollowsInv, LoggerIds, IdsOf, IdOf
  <2>4. ~Of(Head(q), i, f) BY <1>1, NotAField DEF Of
  <2>5. FieldFollows(u, now, i, f, said) BY <1>2, <2>2, <2>4, TailFollows
  <2>6. new = now \/ (OpenFails /\ f = "outfile" /\ new = FALSE) BY <1>4, <2>1, <2>3
  <2>7. FieldFollows(u, new, i, f, said) BY <2>5, <2>6 DEF FieldFollows
  <2> QED BY <2>1, <2>7
<1>6. \A k, f : AskedSays(k, f)' = AskedSays(k, f) BY DEF AskedSays
<1> QED BY <1>1, <1>5, <1>6 DEF FollowsInv

LEMMA HandleLogFollows ==
    ASSUME FilesInv, FollowsInv, handleLog
    PROVE  FollowsInv'
<1>1. PICK id : id = Head(_logs).id OBVIOUS
<1>2. /\ _logs # <<>> /\ Head(_logs).type = "general" /\ _logs' = Tail(_logs)
      /\ UNCHANGED <<_ids, asked>> /\ _loggers' = _loggers
  BY DEF handleLog
<1>3. id \in LoggerIds BY <1>1, <1>2, HeadFacts
<1> QED BY <1>2, <1>3, LogHandledFollows

LEMMA OpenLoggerFollows ==
    ASSUME FilesInv, FollowsInv, NEW ok, ok \in BOOLEAN, NEW second, second \in 0 .. DaySeconds - 1,
           openLogger(ok, second)
    PROVE  FollowsInv'
<1>1. PICK id : id = Head(_logs).id OBVIOUS
<1>2. /\ _logs # <<>> /\ Head(_logs).type = "general" /\ _logs' = Tail(_logs) /\ UNCHANGED <<_ids, asked>>
  BY DEF openLogger
<1>3. id \in LoggerIds BY <1>1, <1>2, HeadFacts
<1>4. _loggers' = _loggers \/ (OpenFails /\ _loggers' = [_loggers EXCEPT ![id].outfile = FALSE])
  BY <1>1 DEF openLogger
<1> QED BY <1>2, <1>3, <1>4, LogHandledFollows

LEMMA StepFollows == FilesInv /\ FollowsInv /\ [Next]_vars => FollowsInv'
<1> SUFFICES ASSUME FilesInv, FollowsInv, [Next]_vars PROVE FollowsInv' OBVIOUS
<1>1. CASE UNCHANGED vars BY <1>1, SameFollows DEF vars
<1>2. ASSUME NEW key, createLogger(key) PROVE FollowsInv' BY <1>2, CreateFollows
<1>3. ASSUME NEW c \in Contents, configFromString(c) PROVE FollowsInv'
  BY <1>3, LoadFollows DEF configFromString
<1>4. ASSUME NEW c \in Contents, Edit(c) PROVE FollowsInv' BY <1>4, SameFollows DEF Edit
<1>5. CASE config
  <2>1. CASE disk = NoFile BY <1>5, <2>1, SameFollows DEF config
  <2>2. CASE disk # NoFile
    <3>1. disk \in Contents BY <2>2 DEF FilesInv, CoreInv
    <3>2. configFromStringImpl(disk, FALSE) BY <1>5, <2>2 DEF config
    <3> QED BY <3>1, <3>2, LoadFollows
  <2> QED BY <2>1, <2>2
<1>6. CASE updateConfig
  <2>1. disk \in Contents BY <1>6 DEF updateConfig, FilesInv, CoreInv
  <2>2. configFromStringImpl(disk, TRUE) BY <1>6 DEF updateConfig
  <2> QED BY <2>1, <2>2, LoadFollows
<1>7. CASE start BY <1>7, SameFollows DEF start
<1>8. CASE NextDay BY <1>8, SameFollows DEF NextDay
<1>9. ASSUME NEW id \in DOMAIN _loggers, Log(id) PROVE FollowsInv' BY <1>9, LogFollows
<1>10. ASSUME NEW id, NEW f, NEW v, Set(id, f, v) PROVE FollowsInv' BY <1>10, NobodyFollows DEF Set
<1>11. CASE handleChange BY <1>11, HandleChangeFollows
<1>12. CASE handleLog BY <1>12, HandleLogFollows
<1>13. ASSUME NEW ok \in BOOLEAN, NEW second \in 0 .. DaySeconds - 1, openLogger(ok, second)
       PROVE  FollowsInv'
  BY <1>13, OpenLoggerFollows
<1> QED BY <1>1, <1>2, <1>3, <1>4, <1>5, <1>6, <1>7, <1>8, <1>9, <1>10, <1>11, <1>12, <1>13 DEF Next

\* For any configurations, loggers and order of calls: once the changes that
\* configFromStringImpl has queued are handled, every logger the configuration
\* mentions is as it says.
THEOREM FollowsTheorem == Spec => []FollowsContent
<1>1. Init => FollowsInv
  <2> SUFFICES ASSUME Init PROVE FollowsInv OBVIOUS
  <2>1. asked.keys = {} BY DEF Init, Nobody
  <2> QED BY <2>1 DEF FollowsInv
<1>2. FilesInv /\ FollowsInv => FollowsContent
  <2> SUFFICES ASSUME FollowsInv, NEW k \in asked.keys, NEW f \in Fields,
                      \A i \in DOMAIN _logs : _logs[i].type = "general"
               PROVE  LET said == Says(asked.content, k, f)
                          now  == _loggers[_ids[k]][f]
                      IN  \/ Refused(f, said) \/ now = Asked(f, said)
                          \/ f = "outfile" /\ OpenFails /\ ~now
    BY DEF FollowsContent
  <2>1. PICK said, now, id : /\ said = Says(asked.content, k, f) /\ now = _loggers[_ids[k]][f]
                             /\ id = _ids[k]
    OBVIOUS
  <2>2. FieldFollows(_logs, now, id, f, said) BY <2>1 DEF FollowsInv, Now, IdOf, AskedSays
  <2>3. ~Waits(_logs, id, f) BY NotAField DEF Waits, Of
  <2> QED BY <2>1, <2>2, <2>3 DEF FieldFollows
<1>3. FilesInv /\ FollowsInv /\ [Next]_vars => FollowsInv' BY StepFollows
<1> QED BY <1>1, <1>2, <1>3, FilesInvariant, PTL DEF Spec
=============================================================================
