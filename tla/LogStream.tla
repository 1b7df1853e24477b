----------------------------- MODULE LogStream ------------------------------
(***************************************************************************)
(* The text of one log: makeLogData writes the time and the level into the *)
(* buffer of a LogData, LOG_STREAM or LOG_FORMAT the message, pushLog the  *)
(* source line and the end of line.  Every text is its length; what counts *)
(* is which bytes of _content are written, and whether a byte below        *)
(* _contentLen is left over from the log the LogData was used for before.  *)
(***************************************************************************)
EXTENDS Integers, Sequences

CONSTANTS BUF_SIZE,   \* LOG4Z_LOG_BUF_SIZE (8192)
          DEPTH,      \* LOG4Z_LOG_CONTAINER_DEPTH (5)
          Prefix,     \* length of the time and the level (34)
          Lengths,    \* lengths of the texts the application streams
          Digits,     \* digits of the sizes of containers and of source lines
          MaxOps,     \* bound: operations streamed into one log
          MaxNesting  \* bound: containers and pairs within each other

\* What is asked of the constants.
Sized ==
    /\ BUF_SIZE \in Nat /\ Prefix \in Nat /\ 3 <= Prefix /\ Prefix + 2 <= BUF_SIZE
    /\ DEPTH \in Nat \ {0} /\ MaxOps \in Nat /\ MaxNesting \in Nat
    /\ Lengths \subseteq Nat /\ Digits \subseteq Nat

ASSUME TextAssumption == Sized

VARIABLES pc,    \* "free", "stream" (the message), "push", "queued"
          text,  \* _cur, _content, and whether a write left _content
          stack, \* the containers and pairs being streamed, the innermost last
          ops

textVars == <<pc, text, stack, ops>>

Positions == 0 .. BUF_SIZE - 1
Marks     == {"old", "text", "nul"}
Stream    == [cur : Int, content : [Positions -> Marks], out : BOOLEAN]
Container == [pair : BOOLEAN, left : Nat, shown : Nat]  \* elements to come, inputCount

\* Types.
TextTypeOK ==
    /\ pc \in {"free", "stream", "push", "queued"}
    /\ text \in Stream /\ stack \in Seq(Container) /\ ops \in Nat

TextInit ==
    /\ pc = "free" /\ stack = <<>> /\ ops = 0
    /\ text = [cur |-> 0, content |-> [i \in Positions |-> "old"], out |-> FALSE]

-----------------------------------------------------------------------------
(* Log4zStream.  Its _end is the end of _content in both places that make  *)
(* one, its _begin what had been written before.                           *)

\* n bytes of v at position from, and _cur moved to c.
Store(t, from, n, v, c) ==
    [cur     |-> c,
     content |-> [i \in Positions |-> IF from <= i /\ i < from + n THEN v ELSE t.content[i]],
     out     |-> t.out \/ (n > 0 /\ (from < 0 \/ from + n > BUF_SIZE))]

Least(a, b) == IF a < b THEN a ELSE b

\* Mutant of Terminator: always one byte past _cur.
TerminatorPast(c) == c + 1

\* Where writeString puts its '\0'.
Terminator(c) == IF c >= BUF_SIZE - 1 THEN BUF_SIZE - 1 ELSE c + 1

writeString(t, len) ==
    IF t.cur >= BUF_SIZE THEN t
    ELSE LET n == Least(len, BUF_SIZE - t.cur)
             c == t.cur + n
         IN  Store(Store(t, t.cur, n, "text", c), Terminator(c), 1, "nul", c)

\* Mutant of DataEnd: counts the '\0' snprintf adds.
DataEndCountsNul(t, len) == t.cur + len + 1

DataEnd(t, len) == t.cur + len

\* snprintf would need len bytes, or fails with -1.
writeData(t, len) ==
    LET count == BUF_SIZE - t.cur
    IN  IF count <= 0 THEN t
        ELSE IF len < 0 THEN Store(t, t.cur, 1, "nul", t.cur)
        ELSE IF len >= count
             THEN Store(Store(t, t.cur, count - 1, "text", BUF_SIZE), BUF_SIZE - 1, 1, "nul", BUF_SIZE)
        ELSE Store(Store(t, t.cur, len, "text", t.cur), t.cur + len, 1, "nul", DataEnd(t, len))

-----------------------------------------------------------------------------
\* The time and the level; the LogData may have been used before.
makeLogData ==
    /\ pc = "free"
    /\ text' = Store(Store(text, 0, BUF_SIZE, "old", 0), 0, Prefix, "text", Prefix)
    /\ pc' = "stream" /\ stack' = <<>> /\ ops' = 0

\* The innermost container or pair, if any, takes another element.
AtElement ==
    stack # <<>> => LET in == stack[Len(stack)] IN in.left > 0 /\ (in.pair \/ in.shown < DEPTH)

\* The bound applies to what is streamed outside containers.
Counted == stack = <<>> => ops < MaxOps

NextOps == IF stack = <<>> THEN ops + 1 ELSE ops

Taken == IF stack = <<>> THEN stack
         ELSE [stack EXCEPT ![Len(stack)].left = @ - 1, ![Len(stack)].shown = @ + 1]

\* ", " follows an element of a container, ":" the first one of a pair and ")"
\* the second.
Separated(t, outer) ==
    IF outer = <<>> THEN t ELSE writeString(t, IF outer[Len(outer)].pair THEN 1 ELSE 2)

\* A line of writeBinary: its start, the address, ": " and three for each byte.
BinaryLine(t, bytes) == writeData(writeData(writeData(writeData(t, 3), 16), 2), 3 * bytes)

\* The bytes from 16 * (i - 1) on, at most sixteen, in hexadecimal and as
\* characters.
BinaryRow(t, len, i) ==
    LET n == Least(len - 16 * (i - 1), 16) IN BinaryLine(BinaryLine(t, n), n)

\* What there is after each row.
BinaryRows(t, len) ==
    LET rows[i \in 0 .. (len \div 16) + 1] ==
            IF i = 0 THEN writeData(t, 4) ELSE BinaryRow(rows[i - 1], len, i)
    IN  rows

\* They stand in brackets.
writeBinary(t, len) == writeData(BinaryRows(t, len)[(len \div 16) + 1], 7)

\* What operator<< writes for a value of each kind.
Written(kind, len) ==
    CASE kind = "text"   -> writeString(text, len)
      [] kind = "data"   -> writeData(text, len)
      [] kind = "binary" -> writeBinary(text, len)

Put(kind, len) ==
    /\ pc = "stream" /\ AtElement /\ Counted
    /\ text' = Separated(Written(kind, len), stack)
    /\ stack' = Taken /\ ops' = NextOps /\ UNCHANGED pc

\* operator<< of a container: "vector(" or a shorter name, its size, ")[".
OpenContainer(name, digits, size) ==
    /\ pc = "stream" /\ AtElement /\ Counted /\ Len(stack) < MaxNesting
    /\ text' = writeString(writeData(writeString(text, name), digits), 2)
    /\ stack' = Append(Taken, [pair |-> FALSE, left |-> size, shown |-> 0])
    /\ ops' = NextOps /\ UNCHANGED pc

\* operator<< of a pair: "pair(" and two values of any kind.
OpenPair ==
    /\ pc = "stream" /\ AtElement /\ Counted /\ Len(stack) < MaxNesting
    /\ text' = writeString(text, 5)
    /\ stack' = Append(Taken, [pair |-> TRUE, left |-> 2, shown |-> 0])
    /\ ops' = NextOps /\ UNCHANGED pc

\* "..., " stands for the elements beyond LOG4Z_LOG_CONTAINER_DEPTH.
Ellipsis ==
    /\ pc = "stream" /\ stack # <<>>
    /\ LET in == stack[Len(stack)] IN ~in.pair /\ in.left > 0 /\ in.shown = DEPTH
    /\ text' = writeString(text, 5)
    /\ stack' = [stack EXCEPT ![Len(stack)].left = 0]
    /\ UNCHANGED <<pc, ops>>

\* "_cur -= 2" takes back the last ", ".
Unseparated(c, shown) == IF shown > 0 THEN c - 2 ELSE c

CloseContainer ==
    /\ pc = "stream" /\ stack # <<>> /\ ~stack[Len(stack)].pair /\ stack[Len(stack)].left = 0
    /\ LET outer == SubSeq(stack, 1, Len(stack) - 1)
           back  == Unseparated(text.cur, stack[Len(stack)].shown)
       IN  /\ text' = Separated(writeString(Store(text, 0, 0, "text", back), 1), outer)
           /\ stack' = outer
    /\ UNCHANGED <<pc, ops>>

\* The pair is an element itself, of what it is in.
ClosePair ==
    /\ pc = "stream" /\ stack # <<>> /\ stack[Len(stack)].pair /\ stack[Len(stack)].left = 0
    /\ LET outer == SubSeq(stack, 1, Len(stack) - 1)
       IN  text' = Separated(text, outer) /\ stack' = outer
    /\ UNCHANGED <<pc, ops>>

\* The end of LOG_STREAM's message.
Streamed ==
    /\ pc = "stream" /\ stack = <<>>
    /\ pc' = "push" /\ UNCHANGED <<text, stack, ops>>

\* What LOG_FORMAT's snprintf leaves, and the length it takes for granted.
Formatted(len) ==
    LET n == IF len < 0 THEN 0 ELSE Least(len, BUF_SIZE - text.cur)
    IN  [writeData(text, len) EXCEPT !.cur = text.cur + n]

Format(len) ==
    /\ pc = "stream" /\ ops = 0 /\ stack = <<>>
    /\ text' = Formatted(len)
    /\ pc' = "push" /\ UNCHANGED <<stack, ops>>

\* _contentLen once there is room for "\r\n" and '\0', in place of the last
\* three bytes if need be.
Ended(len) == LET l == IF len < 3 THEN 3 ELSE len IN IF l + 3 <= BUF_SIZE THEN l + 3 ELSE l

\* " name:line" and the end of line.
pushLog(fileLine, name, digits) ==
    /\ pc = "push"
    /\ LET t == IF fileLine
                THEN writeData(writeString(writeString(writeString(text, 1), name), 1), digits)
                ELSE text
           l == Ended(t.cur)
       IN  text' = Store(Store(t, l - 3, 2, "text", t.cur), l - 1, 1, "nul", l - 1)
    /\ pc' = "queued" /\ UNCHANGED <<stack, ops>>

\* The log is written and its LogData kept for another one.
freeLogData == pc = "queued" /\ pc' = "free" /\ UNCHANGED <<text, stack, ops>>

-----------------------------------------------------------------------------
TextNext ==
    \/ makeLogData \/ OpenPair \/ ClosePair \/ Ellipsis \/ CloseContainer \/ Streamed \/ freeLogData
    \/ \E kind \in {"text", "data", "binary"}, len \in Lengths : Put(kind, len)
    \/ Put("data", -1)
    \/ \E name \in 4 .. 7, digits \in Digits, size \in 0 .. DEPTH + 1 : OpenContainer(name, digits, size)
    \/ \E len \in Lengths \cup {-1} : Format(len)
    \/ \E fileLine \in BOOLEAN, name \in Lengths, digits \in Digits : pushLog(fileLine, name, digits)

TextSpec == TextInit /\ [][TextNext]_textVars
-----------------------------------------------------------------------------
(* Types, and whatever is streamed, however long and however nested, no    *)
(* write leaves _content, and _cur stays between the text makeLogData      *)
(* wrote and _end: stepping back over a separator never eats into what was *)
(* there before.                                                           *)
InContent ==
    /\ TextTypeOK
    /\ ~text.out
    /\ pc \in {"stream", "push"} => Prefix <= text.cur /\ text.cur <= BUF_SIZE
    /\ pc = "queued" => 0 < text.cur /\ text.cur < BUF_SIZE

(* A log that reaches the queue is text from its first byte to its         *)
(* _contentLen and then '\0': no byte of an earlier log shows, and no '\0' *)
(* that truncation left cuts the display short.                            *)
WholeText ==
    pc = "queued" => /\ \A i \in 0 .. text.cur - 1 : text.content[i] = "text"
                     /\ text.content[text.cur] = "nul"
=============================================================================
