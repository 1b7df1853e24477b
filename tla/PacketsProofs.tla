--------------------------- MODULE PacketsProofs ---------------------------
(***************************************************************************)
(* The safety properties of Packets, for any size of a packet and any      *)
(* number of connections and packets.                                      *)
(***************************************************************************)
EXTENDS Packets, FiniteSetTheorems, SequenceTheorems, TLAPS

-----------------------------------------------------------------------------
(* The invariants.                                                         *)

Kinds    == {"connected", "read", "failed", "timer"}
Handlers == [kind : Kinds, c : 0 .. MaxConns, cells : Seq(Cell)]
Peer(s)  == IF s = "client" THEN "server" ELSE "client"

StateOK ==
    /\ is_login_ \in BOOLEAN /\ dialing \in BOOLEAN /\ waits \in 0 .. 1
    /\ dials \in 0 .. MaxConns /\ conn_ \in 0 .. dials /\ held \in 0 .. dials
    /\ open \in SUBSET (1 .. dials) /\ broken \in SUBSET (1 .. dials) /\ reading \in SUBSET (1 .. dials)
    /\ queue \in Seq(Handlers)
    /\ wire \in [Ids -> [Sides -> Seq(Cell)]] /\ recv \in [Ids -> [Sides -> Seq(Cell)]]
    /\ handled \in [Ids -> [Sides -> Seq(Packet)]]
    /\ sent \in [Ids -> [Sides -> 0 .. MaxPackets]]
    /\ pc \in [Sides -> {"runs", "ended"}]

\* Cell x was sent before cell y.
Less(x, y) == x.pkt.n < y.pkt.n \/ (x.pkt.n = y.pkt.n /\ x.part < y.part)

LastN(hs) == IF hs = <<>> THEN 0 ELSE hs[Len(hs)].n

\* Cell x comes after what made the packets hs.
After(hs, x) == LastN(hs) < x.pkt.n \/ (LastN(hs) = x.pkt.n /\ 1 < x.part)

\* Cells ss are on their way to a side that handled hs, from one that has sent
\* no more than n packets; a packet that opens the session is the first.
Flows(ss, hs, n) ==
    /\ \A i, j \in DOMAIN ss : i < j => Less(ss[i], ss[j])
    /\ \A i \in DOMAIN ss : /\ After(hs, ss[i]) /\ ss[i].pkt.n <= n
                            /\ ss[i].pkt.type \in {"LOGIN", "LOGIN_ACK"} => ss[i].pkt.n = 1

\* A buffer is empty between two reads, and what a side handled is in order.
StreamOK(c, s) ==
    /\ recv[c][s] = <<>>
    /\ Flows(wire[c][s], handled[c][s], sent[c][Peer(s)])
    /\ Len(handled[c][s]) <= LastN(handled[c][s]) /\ LastN(handled[c][s]) <= sent[c][Peer(s)]
    /\ \A i \in 1 .. Len(handled[c][s]) - 1 : handled[c][s][i].n < handled[c][s][i + 1].n

\* The server answers each packet at most once.
StreamInv ==
    \A c \in Ids : /\ \A s \in Sides : StreamOK(c, s)
                   /\ sent[c]["server"] <= LastN(handled[c]["server"])

\* What the queued read h brings comes before what is on the wire.
ReadOK(h) ==
    /\ h.c \notin reading /\ h.cells # <<>>
    /\ Flows(h.cells, handled[h.c]["client"], sent[h.c]["server"])
    /\ \A i \in DOMAIN h.cells, j \in DOMAIN wire[h.c]["client"] : Less(h.cells[i], wire[h.c]["client"][j])

\* The handlers are bound to connections, and a read is outstanding or queued
\* but not both.
ReadInv ==
    \A i \in DOMAIN queue :
        /\ queue[i].kind # "timer" => queue[i].c \in 1 .. dials
        /\ queue[i].kind = "read" =>
              /\ ReadOK(queue[i])
              /\ \A j \in DOMAIN queue : queue[j].kind = "read" /\ queue[j].c = queue[i].c => i = j

\* At most one of a dial, a connection that was made and one that is held; on
\* one that was not made nothing was sent and nothing fails.
DialInv ==
    /\ dialing => held = 0 /\ \A i \in DOMAIN queue : queue[i].kind # "connected"
    /\ \A i \in DOMAIN queue : queue[i].kind = "connected" =>
          /\ held = 0
          /\ \A j \in DOMAIN queue : queue[j].kind = "connected" => i = j
          /\ LET c == queue[i].c
             IN /\ sent[c]["client"] = 0 /\ c \notin reading \cup broken
                /\ \A j \in DOMAIN queue : queue[j].kind \in {"read", "failed"} => queue[j].c # c
    /\ \A c \in Ids : c > dials => sent[c]["client"] = 0

\* A Login was sent on c, and its answer may still be read.
Awaits(c) ==
    /\ sent[c]["client"] > 0 /\ handled[c]["client"] = <<>>
    /\ c \in reading \/ \E i \in DOMAIN queue : queue[i].kind = "read" /\ queue[i].c = c

\* Such a connection is the current one, and nothing has ended it.
AwaitInv ==
    \A c \in Ids : Awaits(c) =>
        /\ c = held /\ c = conn_ /\ c \notin broken
        /\ \A i \in DOMAIN queue : queue[i].kind = "failed" => queue[i].c # c

LoginInv ==
    pc["client"] = "runs" /\ is_login_ =>
        /\ conn_ = held /\ held # 0
        /\ \E i \in DOMAIN handled[held]["client"] : handled[held]["client"][i].type = "LOGIN_ACK"

IndInv == StateOK /\ StreamInv /\ ReadInv /\ DialInv /\ AwaitInv /\ LoginInv

-----------------------------------------------------------------------------
(* Streams of cells.                                                       *)

\* The parts of a cell.
LEMMA CellParts ==
    ASSUME NEW x \in Cell
    PROVE  x.pkt \in Packet /\ x.pkt.n \in Nat /\ x.pkt.n > 0 /\ x.pkt.n <= MaxPackets
           /\ x.pkt.type \in Types /\ x.part \in Nat /\ x.part > 0
  <1>1. x.pkt \in Packet /\ x.part \in 1 .. Parts
    BY DEF Cell
  <1>2. x.pkt.type \in Types /\ x.pkt.n \in 1 .. MaxPackets
    BY <1>1 DEF Packet
  <1>. QED BY <1>1, <1>2, PartsAssumption

\* The number of the last packet handled.
LEMMA LastNType ==
    ASSUME NEW hs \in Seq(Packet)
    PROVE  LastN(hs) \in Nat
  <1>1. CASE hs = <<>>
    BY <1>1 DEF LastN
  <1>2. CASE hs # <<>>
    <2>1. hs[Len(hs)] \in Packet
      BY <1>2
    <2>2. hs[Len(hs)].n \in 1 .. MaxPackets
      BY <2>1 DEF Packet
    <2>. QED BY <1>2, <2>2, PartsAssumption DEF LastN
  <1>. QED BY <1>1, <1>2

\* A stream that a read cuts in two.
LEMMA FlowsCut ==
    ASSUME NEW w \in Seq(Cell), NEW hs, NEW n, Flows(w, hs, n), NEW m \in 1 .. Len(w)
    PROVE  /\ SubSeq(w, 1, m) \in Seq(Cell) /\ SubSeq(w, 1, m) # <<>>
           /\ SubSeq(w, m + 1, Len(w)) \in Seq(Cell)
           /\ Flows(SubSeq(w, 1, m), hs, n) /\ Flows(SubSeq(w, m + 1, Len(w)), hs, n)
           /\ \A i \in DOMAIN SubSeq(w, 1, m), j \in DOMAIN SubSeq(w, m + 1, Len(w)) :
                 Less(SubSeq(w, 1, m)[i], SubSeq(w, m + 1, Len(w))[j])
  <1>. DEFINE a == SubSeq(w, 1, m)
              b == SubSeq(w, m + 1, Len(w))
  <1>1. a \in Seq(Cell) /\ Len(a) = m /\ \A i \in 1 .. m : a[i] = w[i]
    OBVIOUS
  <1>2. b \in Seq(Cell) /\ Len(b) = Len(w) - m /\ \A i \in 1 .. Len(w) - m : b[i] = w[i + m]
    OBVIOUS
  <1>. HIDE DEF a, b
  <1>3. DOMAIN a = 1 .. m /\ DOMAIN b = 1 .. Len(w) - m /\ DOMAIN w = 1 .. Len(w) /\ a # <<>>
    BY <1>1, <1>2
  <1>4. Flows(a, hs, n)
    <2>1. \A i \in DOMAIN a : i \in DOMAIN w /\ a[i] = w[i]
      BY <1>1, <1>3
    <2>. QED BY <2>1 DEF Flows
  <1>5. Flows(b, hs, n)
    <2>1. \A i \in DOMAIN b : i + m \in DOMAIN w /\ b[i] = w[i + m]
      BY <1>2, <1>3
    <2>2. \A i, j \in DOMAIN b : i < j => i + m < j + m
      BY <1>3
    <2>. QED BY <2>1, <2>2 DEF Flows
  <1>6. ASSUME NEW i \in DOMAIN a, NEW j \in DOMAIN b PROVE Less(a[i], b[j])
    <2>1. i \in DOMAIN w /\ a[i] = w[i] /\ j + m \in DOMAIN w /\ b[j] = w[j + m] /\ i < j + m
      BY <1>1, <1>2, <1>3
    <2>. QED BY <2>1 DEF Flows
  <1>. QED BY <1>1, <1>2, <1>3, <1>4, <1>5, <1>6 DEF a, b

\* The first packet of ss is handled: what comes after ss comes after it.
LEMMA FlowsHandled ==
    ASSUME NEW ss \in Seq(Cell), ss # <<>>, NEW w \in Seq(Cell), NEW hs \in Seq(Packet), NEW n \in Nat,
           Flows(ss, hs, n), Flows(w, hs, n),
           \A i \in DOMAIN ss, j \in DOMAIN w : Less(ss[i], w[j]),
           ss[1].part = 1
    PROVE  /\ Append(hs, ss[1].pkt) \in Seq(Packet) /\ Flows(w, Append(hs, ss[1].pkt), n)
           /\ LastN(Append(hs, ss[1].pkt)) = ss[1].pkt.n
           /\ LastN(hs) < ss[1].pkt.n /\ ss[1].pkt.n <= n
  <1>1. 1 \in DOMAIN ss /\ ss[1] \in Cell
    OBVIOUS
  <1>2. PICK p \in Packet : p = ss[1].pkt
    BY <1>1, CellParts
  <1>3. p.n \in Nat /\ LastN(hs) \in Nat
    BY <1>1, <1>2, CellParts, LastNType
  <1>4. Append(hs, p) \in Seq(Packet) /\ LastN(Append(hs, p)) = p.n
    BY DEF LastN
  <1>5. LastN(hs) < p.n /\ p.n <= n
    BY <1>1, <1>2, <1>3 DEF Flows, After
  <1>6. \A j \in DOMAIN w : p.n < w[j].pkt.n \/ (p.n = w[j].pkt.n /\ 1 < w[j].part)
    BY <1>1, <1>2 DEF Less
  <1>7. Flows(w, Append(hs, p), n)
    BY <1>4, <1>6 DEF Flows, After
  <1>. QED BY <1>2, <1>4, <1>5, <1>7

\* More packets may have been sent.
LEMMA FlowsMore ==
    ASSUME NEW w \in Seq(Cell), NEW hs, NEW n \in Nat, NEW m \in Nat, n <= m, Flows(w, hs, n)
    PROVE  Flows(w, hs, m)
  BY CellParts DEF Flows

\* The cells of a packet.
LEMMA Serialized ==
    ASSUME NEW p \in Packet
    PROVE  /\ cereal_serialize(p) \in Seq(Cell) /\ Len(cereal_serialize(p)) = Parts
           /\ \A i \in 1 .. Parts : cereal_serialize(p)[i].pkt = p /\ cereal_serialize(p)[i].part = i
  <1>1. \A i \in 1 .. Parts : [pkt |-> p, part |-> i] \in Cell
    BY DEF Cell
  <1>2. Parts \in Nat
    BY PartsAssumption
  <1>. QED BY <1>1, <1>2 DEF cereal_serialize

\* A packet is sent: its cells come last.
LEMMA FlowsSent ==
    ASSUME NEW w \in Seq(Cell), NEW hs \in Seq(Packet), NEW n \in Nat, Flows(w, hs, n), LastN(hs) <= n,
           NEW p \in Packet, p.n = n + 1, p.type \in {"LOGIN", "LOGIN_ACK"} => n = 0
    PROVE  /\ w \o cereal_serialize(p) \in Seq(Cell)
           /\ Flows(w \o cereal_serialize(p), hs, n + 1)
           /\ \A x \in Cell : x.pkt.n <= n =>
                 \A i \in DOMAIN (w \o cereal_serialize(p)) :
                    \/ i \in DOMAIN w /\ (w \o cereal_serialize(p))[i] = w[i]
                    \/ Less(x, (w \o cereal_serialize(p))[i])
  <1>. DEFINE t == cereal_serialize(p)
              v == w \o t
  <1>1. t \in Seq(Cell) /\ Len(t) = Parts /\ \A i \in 1 .. Parts : t[i].pkt = p /\ t[i].part = i
    BY Serialized
  <1>. HIDE DEF t
  <1>2. /\ v \in Seq(Cell) /\ Len(v) = Len(w) + Parts /\ DOMAIN v = 1 .. Len(w) + Parts
        /\ \A i \in 1 .. Len(w) : v[i] = w[i]
        /\ \A i \in 1 .. Len(w) + Parts : ~(i <= Len(w)) => v[i] = t[i - Len(w)] /\ i - Len(w) \in 1 .. Parts
    <2>1. w \o t \in Seq(Cell) /\ Len(w \o t) = Len(w) + Len(t)
      BY <1>1, ConcatProperties
    <2>2. \A i \in 1 .. Len(w) + Len(t) : (w \o t)[i] = IF i <= Len(w) THEN w[i] ELSE t[i - Len(w)]
      BY <1>1, ConcatProperties
    <2>. QED BY <1>1, <2>1, <2>2, PartsAssumption
  <1>. HIDE DEF v
  <1>3. \A i \in DOMAIN v : ~(i <= Len(w)) => v[i].pkt = p /\ v[i].part = i - Len(w)
    BY <1>1, <1>2
  <1>4. DOMAIN w = 1 .. Len(w) /\ Len(w) \in Nat /\ \A i \in DOMAIN w : w[i] \in Cell /\ w[i].pkt.n <= n
    BY DEF Flows
  <1>5. \A i \in DOMAIN w : w[i].pkt.n \in Nat
    BY <1>4, CellParts
  <1>6. ASSUME NEW i \in DOMAIN v, NEW j \in DOMAIN v, i < j PROVE Less(v[i], v[j])
    <2>1. CASE j <= Len(w)
      BY <1>2, <1>4, <1>6, <2>1 DEF Flows
    <2>2. CASE ~(j <= Len(w)) /\ i <= Len(w)
      <3>1. v[i] = w[i] /\ w[i].pkt.n <= n /\ w[i].pkt.n \in Nat /\ v[j].pkt.n = n + 1
        BY <1>2, <1>3, <1>4, <1>5, <2>2
      <3>. QED BY <3>1 DEF Less
    <2>3. CASE ~(j <= Len(w)) /\ ~(i <= Len(w))
      <3>1. v[i].pkt = p /\ v[j].pkt = p /\ v[i].part = i - Len(w) /\ v[j].part = j - Len(w)
        BY <1>3, <2>3
      <3>. QED BY <1>2, <1>4, <1>6, <3>1 DEF Less
    <2>. QED BY <2>1, <2>2, <2>3
  <1>7. ASSUME NEW i \in DOMAIN v
        PROVE  /\ After(hs, v[i]) /\ v[i].pkt.n <= n + 1
               /\ v[i].pkt.type \in {"LOGIN", "LOGIN_ACK"} => v[i].pkt.n = 1
    <2>1. CASE i <= Len(w)
      <3>1. v[i] = w[i] /\ i \in DOMAIN w
        BY <1>2, <1>4, <2>1
      <3>. QED BY <1>4, <1>5, <3>1 DEF Flows
    <2>2. CASE ~(i <= Len(w))
      <3>1. v[i].pkt = p
        BY <1>3, <2>2
      <3>2. LastN(hs) \in Nat
        BY LastNType
      <3>. QED BY <3>1, <3>2 DEF After
    <2>. QED BY <2>1, <2>2
  <1>8. Flows(v, hs, n + 1)
    BY <1>6, <1>7 DEF Flows
  <1>9. ASSUME NEW x \in Cell, x.pkt.n <= n, NEW i \in DOMAIN v
        PROVE  (i \in DOMAIN w /\ v[i] = w[i]) \/ Less(x, v[i])
    <2>1. CASE i <= Len(w)
      BY <1>2, <1>4, <2>1
    <2>2. CASE ~(i <= Len(w))
      <3>1. v[i].pkt.n = n + 1 /\ x.pkt.n \in Nat
        BY <1>3, <2>2, CellParts
      <3>. QED BY <1>9, <3>1 DEF Less
    <2>. QED BY <2>1, <2>2
  <1>. QED BY <1>2, <1>8, <1>9 DEF v, t

-----------------------------------------------------------------------------
(* The queue and the arrays of streams.                                    *)

\* q is the queue without its first d handlers, and then handlers of X.
Tailed(d, q, X) ==
    /\ q \in Seq(Handlers) /\ Len(q) >= Len(queue) - d
    /\ \A i \in DOMAIN q : IF i <= Len(queue) - d THEN q[i] = queue[i + d] ELSE q[i] \in X

\* The queue of the next state.
Step(d, X) == d \in {0, 1} /\ (d = 1 => queue # <<>>) /\ Tailed(d, queue', X)

Timer == Handler("timer", 0, <<>>)

\* The handlers that are posted.
LEMMA HandlerType ==
    ASSUME NEW k \in Kinds, NEW c \in 0 .. MaxConns, NEW cells \in Seq(Cell)
    PROVE  /\ Handler(k, c, cells) \in Handlers
           /\ Handler(k, c, cells).kind = k /\ Handler(k, c, cells).c = c
           /\ Handler(k, c, cells).cells = cells
  BY Zenon DEF Handler, Handlers

\* The timer's handler and the failure of an operation.
LEMMA PlainHandlers ==
    /\ Timer \in Handlers /\ Timer.kind = "timer"
    /\ \A c \in 0 .. MaxConns : Failed(c) \in Handlers /\ Failed(c).kind = "failed" /\ Failed(c).c = c
  <1>1. <<>> \in Seq(Cell) /\ 0 \in 0 .. MaxConns /\ "timer" \in Kinds /\ "failed" \in Kinds
    BY PartsAssumption DEF Kinds
  <1>2. Timer \in Handlers /\ Timer.kind = "timer"
    BY <1>1, Zenon DEF Timer, Handler, Handlers
  <1>3. ASSUME NEW c \in 0 .. MaxConns
        PROVE  Failed(c) \in Handlers /\ Failed(c).kind = "failed" /\ Failed(c).c = c
    BY <1>1, Zenon DEF Failed, Handler, Handlers
  <1>. QED BY <1>2, <1>3

\* The queue is as it was, or its first handler has left it.
LEMMA TailedStart ==
    ASSUME queue \in Seq(Handlers), NEW X
    PROVE  /\ Tailed(0, queue, X)
           /\ queue # <<>> => Tailed(1, Tail(queue), X)
  BY DEF Tailed

\* Handlers are added.
LEMMA TailedMore ==
    ASSUME queue \in Seq(Handlers), NEW d \in {0, 1}, d = 1 => queue # <<>>, NEW q, NEW X \in SUBSET Handlers,
           Tailed(d, q, X)
    PROVE  /\ \A e \in Seq(X) : Tailed(d, q \o e, X)
           /\ \A h \in X : Tailed(d, Append(q, h), X)
  <1>1. ASSUME NEW e \in Seq(X) PROVE Tailed(d, q \o e, X)
    <2>1. q \in Seq(Handlers) /\ e \in Seq(Handlers)
      BY DEF Tailed
    <2>2. /\ q \o e \in Seq(Handlers) /\ Len(q \o e) = Len(q) + Len(e)
          /\ \A i \in 1 .. Len(q) + Len(e) : (q \o e)[i] = IF i <= Len(q) THEN q[i] ELSE e[i - Len(q)]
      BY <2>1, ConcatProperties
    <2>3. ASSUME NEW i \in 1 .. Len(q) + Len(e)
          PROVE  IF i <= Len(queue) - d THEN (q \o e)[i] = queue[i + d] ELSE (q \o e)[i] \in X
      <3>1. CASE i <= Len(q)
        BY <2>1, <2>2, <3>1 DEF Tailed
      <3>2. CASE ~(i <= Len(q))
        <4>1. ~(i <= Len(queue) - d) /\ i - Len(q) \in 1 .. Len(e)
          BY <2>1, <3>2 DEF Tailed
        <4>2. (q \o e)[i] = e[i - Len(q)]
          BY <2>2, <3>2
        <4>. QED BY <4>1, <4>2
      <3>. QED BY <3>1, <3>2
    <2>4. DOMAIN (q \o e) = 1 .. Len(q) + Len(e) /\ Len(q \o e) >= Len(queue) - d
      BY <2>1, <2>2 DEF Tailed
    <2>. QED BY <2>2, <2>3, <2>4 DEF Tailed
  <1>2. ASSUME NEW h \in X PROVE Tailed(d, Append(q, h), X)
    <2>1. q \in Seq(Handlers) /\ h \in Handlers /\ Len(q) >= Len(queue) - d
      BY DEF Tailed
    <2>2. /\ Append(q, h) \in Seq(Handlers) /\ Len(Append(q, h)) = Len(q) + 1
          /\ \A i \in 1 .. Len(q) + 1 : Append(q, h)[i] = IF i <= Len(q) THEN q[i] ELSE h
      BY <2>1
    <2>3. ASSUME NEW i \in 1 .. Len(q) + 1
          PROVE  IF i <= Len(queue) - d THEN Append(q, h)[i] = queue[i + d] ELSE Append(q, h)[i] \in X
      BY <2>1, <2>2 DEF Tailed
    <2>4. DOMAIN Append(q, h) = 1 .. Len(q) + 1 /\ Len(Append(q, h)) >= Len(queue) - d
      BY <2>1, <2>2
    <2>. QED BY <2>2, <2>3, <2>4 DEF Tailed
  <1>. QED BY <1>1, <1>2

\* Where a handler of the queue comes from.
LEMMA Origin ==
    ASSUME queue \in Seq(Handlers), NEW d, NEW X, Step(d, X), NEW i \in DOMAIN queue'
    PROVE  \/ i <= Len(queue) - d /\ i + d \in DOMAIN queue /\ queue'[i] = queue[i + d]
           \/ i > Len(queue) - d /\ queue'[i] \in X
  BY DEF Step, Tailed

\* The places of the queue.
LEMMA QueuePlaces ==
    ASSUME queue \in Seq(Handlers), NEW d, NEW X, Step(d, X)
    PROVE  /\ d \in Nat /\ Len(queue) \in Nat /\ queue' \in Seq(Handlers)
           /\ DOMAIN queue = 1 .. Len(queue) /\ DOMAIN queue' = 1 .. Len(queue')
           /\ Len(queue') \in Nat /\ Len(queue') >= Len(queue) - d
  BY DEF Step, Tailed

\* One stream of the array f is replaced.
Puts(f, g, c, s, v) ==
    /\ g[c][s] = v
    /\ \A b \in Ids, t \in Sides : b # c \/ t # s => g[b][t] = f[b][t]

-----------------------------------------------------------------------------
(* What keeps the parts of the invariant.                                  *)

\* A handler of kind k for connection c that stays in the queue.
Stays(d, k, c) == \E i \in DOMAIN queue : queue[i].kind = k /\ queue[i].c = c /\ (d = 1 => i # 1)

\* The queued reads that stay are as good as they were, and no read joins them.
LEMMA ReadKeeps ==
    ASSUME StateOK, ReadInv, NEW d, NEW X, Step(d, X), dials' \in Nat, dials' >= dials,
           \A h \in X : h.kind # "read" /\ (h.kind # "timer" => h.c \in 1 .. dials'),
           \A h \in Handlers : h.kind = "read" /\ ReadOK(h) /\ Stays(d, "read", h.c) => ReadOK(h)'
    PROVE  ReadInv'
  <1>0. queue \in Seq(Handlers) /\ dials \in Nat
    BY PartsAssumption DEF StateOK
  <1>1. ASSUME NEW i \in DOMAIN queue', queue'[i].kind # "timer" PROVE queue'[i].c \in 1 .. dials'
    <2>1. CASE i + d \in DOMAIN queue /\ queue'[i] = queue[i + d]
      <3>1. queue[i + d].c \in 1 .. dials
        BY <1>1, <2>1 DEF ReadInv
      <3>. QED BY <1>0, <2>1, <3>1
    <2>2. CASE queue'[i] \in X
      BY <1>1, <2>2
    <2>. QED BY <1>0, <2>1, <2>2, Origin
  <1>2. ASSUME NEW i \in DOMAIN queue', queue'[i].kind = "read"
        PROVE  i + d \in DOMAIN queue /\ queue'[i] = queue[i + d] /\ i \in Nat /\ i > 0 /\ d \in Nat
    BY <1>0, <1>2, Origin, QueuePlaces
  <1>3. ASSUME NEW i \in DOMAIN queue', queue'[i].kind = "read" PROVE ReadOK(queue[i])'
    <2>1. PICK h : h = queue'[i]
      OBVIOUS
    <2>2. h = queue[i + d] /\ i + d \in DOMAIN queue /\ h.kind = "read" /\ (d = 1 => i + d # 1)
      BY <1>2, <1>3, <2>1
    <2>3. h \in Handlers /\ ReadOK(h)
      BY <1>0, <2>2 DEF ReadInv
    <2>4. Stays(d, "read", h.c)
      BY <2>2 DEF Stays
    <2>5. ReadOK(h)'
      BY <2>2, <2>3, <2>4
    <2>. QED BY <2>1, <2>5 DEF ReadOK
  <1>4. ASSUME NEW i \in DOMAIN queue', NEW j \in DOMAIN queue', queue'[i].kind = "read",
               queue'[j].kind = "read", queue'[j].c = queue'[i].c
        PROVE  i = j
    <2>1. i + d \in DOMAIN queue /\ queue'[i] = queue[i + d] /\ i \in Nat /\ d \in Nat
      BY <1>2, <1>4
    <2>2. j + d \in DOMAIN queue /\ queue'[j] = queue[j + d] /\ j \in Nat
      BY <1>2, <1>4
    <2>3. i + d = j + d
      BY <1>4, <2>1, <2>2 DEF ReadInv
    <2>. QED BY <2>1, <2>2, <2>3
  <1>. QED BY <1>1, <1>3, <1>4 DEF ReadInv

\* No connection that waits for HandleConn is touched.
LEMMA DialKeeps ==
    ASSUME StateOK, DialInv, NEW d, NEW X, Step(d, X), dials' = dials,
           \A h \in X : h.kind # "connected",
           dialing' => held' = 0 /\ (dialing \/ held # 0), held' = held \/ held' = 0,
           \A c \in Ids : (c > dials \/ Stays(d, "connected", c)) => sent'[c]["client"] = sent[c]["client"],
           \A c : Stays(d, "connected", c) =>
              /\ c \in Ids /\ (c \in reading' \cup broken' => c \in reading \cup broken)
              /\ \A h \in X : h.kind \in {"read", "failed"} => h.c # c
    PROVE  DialInv'
  <1>0. queue \in Seq(Handlers)
    BY DEF StateOK
  <1>1. ASSUME NEW i \in DOMAIN queue', queue'[i].kind = "connected"
        PROVE  /\ i + d \in DOMAIN queue /\ queue'[i] = queue[i + d] /\ i \in Nat /\ i > 0 /\ d \in Nat
               /\ Stays(d, "connected", queue'[i].c)
    <2>1. i + d \in DOMAIN queue /\ queue'[i] = queue[i + d] /\ i \in Nat /\ i > 0 /\ d \in Nat
      BY <1>0, <1>1, Origin, QueuePlaces
    <2>2. d = 1 => i + d # 1
      BY <2>1
    <2>. QED BY <1>1, <2>1, <2>2 DEF Stays
  <1>2. ASSUME dialing' PROVE held' = 0 /\ \A i \in DOMAIN queue' : queue'[i].kind # "connected"
    <2>1. \A i \in DOMAIN queue : queue[i].kind # "connected"
      BY <1>2 DEF DialInv
    <2>. QED BY <1>1, <1>2, <2>1
  <1>3. ASSUME NEW i \in DOMAIN queue', queue'[i].kind = "connected"
        PROVE  /\ held' = 0
               /\ \A j \in DOMAIN queue' : queue'[j].kind = "connected" => i = j
               /\ sent'[queue'[i].c]["client"] = 0 /\ queue'[i].c \notin reading' \cup broken'
               /\ \A j \in DOMAIN queue' : queue'[j].kind \in {"read", "failed"} => queue'[j].c # queue'[i].c
    <2>1. PICK c : c = queue'[i].c
      OBVIOUS
    <2>2. i + d \in DOMAIN queue /\ queue[i + d].kind = "connected" /\ queue[i + d].c = c /\ Stays(d, "connected", c)
      BY <1>1, <1>3, <2>1
    <2>3. /\ held = 0 /\ sent[c]["client"] = 0 /\ c \notin reading \cup broken
          /\ \A j \in DOMAIN queue : queue[j].kind \in {"read", "failed"} => queue[j].c # c
      BY <2>2 DEF DialInv
    <2>4. c \in Ids /\ c \notin reading' \cup broken' /\ sent'[c]["client"] = 0
      BY <2>2, <2>3
    <2>5. ASSUME NEW j \in DOMAIN queue', queue'[j].kind = "connected" PROVE i = j
      <3>1. j + d \in DOMAIN queue /\ queue[j + d].kind = "connected" /\ j \in Nat /\ i \in Nat /\ d \in Nat
        BY <1>1, <1>3, <2>5
      <3>2. i + d = j + d
        BY <2>2, <3>1 DEF DialInv
      <3>. QED BY <3>1, <3>2
    <2>6. ASSUME NEW j \in DOMAIN queue', queue'[j].kind \in {"read", "failed"} PROVE queue'[j].c # c
      BY <1>0, <2>2, <2>3, <2>6, Origin
    <2>. QED BY <2>1, <2>3, <2>4, <2>5, <2>6
  <1>4. \A c \in Ids : c > dials' => sent'[c]["client"] = 0
    BY DEF DialInv
  <1>. QED BY <1>2, <1>3, <1>4 DEF DialInv

\* A connection that awaits its answer did so before, and nothing ends it.
LEMMA AwaitKeeps ==
    ASSUME StateOK, AwaitInv, NEW d, NEW X, Step(d, X),
           \A c \in Ids : Awaits(c)' =>
              /\ Awaits(c) /\ held' = held /\ conn_' = conn_ /\ (c \in broken' => c \in broken)
              /\ \A h \in X : h.kind = "failed" => h.c # c
    PROVE  AwaitInv'
  <1>. SUFFICES ASSUME NEW c \in Ids, Awaits(c)'
                PROVE  /\ c = held' /\ c = conn_' /\ c \notin broken'
                       /\ \A i \in DOMAIN queue' : queue'[i].kind = "failed" => queue'[i].c # c
    BY DEF AwaitInv
  <1>0. queue \in Seq(Handlers)
    BY DEF StateOK
  <1>1. /\ c = held /\ c = conn_ /\ c \notin broken
        /\ \A i \in DOMAIN queue : queue[i].kind = "failed" => queue[i].c # c
    BY DEF AwaitInv
  <1>2. ASSUME NEW i \in DOMAIN queue', queue'[i].kind = "failed" PROVE queue'[i].c # c
    BY <1>0, <1>1, <1>2, Origin
  <1>. QED BY <1>1, <1>2

\* No read joins the queue.
LEMMA ReadsFrom ==
    ASSUME StateOK, NEW d, NEW X, Step(d, X), \A h \in X : h.kind # "read", NEW c,
           \E i \in DOMAIN queue' : queue'[i].kind = "read" /\ queue'[i].c = c
    PROVE  \E i \in DOMAIN queue : queue[i].kind = "read" /\ queue[i].c = c
  <1>1. queue \in Seq(Handlers)
    BY DEF StateOK
  <1>. QED BY <1>1, Origin

\* The types of what most proofs need.
LEMMA Basics ==
    ASSUME StateOK
    PROVE  /\ dials \in Nat /\ dials <= MaxConns /\ queue \in Seq(Handlers)
           /\ \A c \in 1 .. dials : c \in Ids /\ c \in 0 .. MaxConns
           /\ \A c \in Ids : c \in Nat /\ c > 0 /\ c \in 0 .. MaxConns
           /\ Parts \in Nat /\ Parts > 0 /\ MaxConns \in Nat /\ MaxPackets \in Nat /\ MaxPackets > 0
  BY PartsAssumption DEF StateOK, Ids

-----------------------------------------------------------------------------
(* The network and the timer.                                              *)

\* The streams have not changed.
LEMMA SameStreams == ASSUME StreamInv, UNCHANGED streams PROVE StreamInv'
  BY DEF StreamInv, StreamOK, streams

\* A dial succeeds.
LEMMA DialedKeeps == ASSUME IndInv, Dialed PROVE IndInv'
  <1>0. StateOK
    BY DEF IndInv
  <1>1. /\ dials \in Nat /\ dials < MaxConns /\ dials' = dials + 1 /\ queue \in Seq(Handlers)
        /\ dials' \in Ids /\ dials' \in 0 .. MaxConns /\ dialing /\ ~dialing'
    BY <1>0, Basics DEF Dialed, Ids
  <1>. DEFINE h == Handler("connected", dials + 1, <<>>)
  <1>2. h \in Handlers /\ h.kind = "connected" /\ h.c = dials + 1
    <2>1. <<>> \in Seq(Cell) /\ "connected" \in Kinds /\ dials + 1 \in 0 .. MaxConns
      BY <1>1 DEF Kinds
    <2>. QED BY <2>1, Zenon DEF Handler, Handlers
  <1>. HIDE DEF h
  <1>3. queue' = Append(queue, h)
    BY <1>1 DEF Dialed, h
  <1>4. Step(0, {h})
    <2>1. Tailed(0, queue, {h})
      BY <1>1, TailedStart
    <2>2. Tailed(0, Append(queue, h), {h})
      BY <1>1, <1>2, <2>1, TailedMore
    <2>. QED BY <1>3, <2>2 DEF Step
  <1>5. /\ UNCHANGED <<is_login_, conn_, waits, held, broken, reading, wire, recv, sent, handled, pc>>
        /\ open' = open \cup {dials'}
    BY DEF Dialed, streams
  <1>6. StateOK'
    <2>1. queue' \in Seq(Handlers)
      BY <1>1, <1>4, QueuePlaces
    <2>2. \A S : S \in SUBSET (1 .. dials) => S \in SUBSET (1 .. dials')
      BY <1>1
    <2>3. open' \in SUBSET (1 .. dials') /\ broken' \in SUBSET (1 .. dials') /\ reading' \in SUBSET (1 .. dials')
      <3>1. dials' \in 1 .. dials'
        BY <1>1
      <3>2. /\ open \in SUBSET (1 .. dials') /\ broken \in SUBSET (1 .. dials')
            /\ reading \in SUBSET (1 .. dials')
        BY <1>0, <2>2, Zenon DEF StateOK
      <3>. QED BY <1>5, <3>1, <3>2
    <2>4. conn_' \in 0 .. dials' /\ held' \in 0 .. dials' /\ dials' \in 0 .. MaxConns
      BY <1>0, <1>1, <1>5 DEF StateOK
    <2>5. dialing' \in BOOLEAN
      BY Zenon DEF Dialed
    <2>. QED BY <1>0, <1>5, <2>1, <2>3, <2>4, <2>5 DEF StateOK
  <1>7. StreamInv'
    BY SameStreams DEF Dialed, IndInv
  <1>8. ReadInv'
    <2>1. \A g \in {h} : g.kind # "read" /\ (g.kind # "timer" => g.c \in 1 .. dials')
      BY <1>1, <1>2
    <2>2. \A g \in Handlers : ReadOK(g) => ReadOK(g)'
      BY <1>5 DEF ReadOK
    <2>. QED BY <1>0, <1>1, <1>4, <2>1, <2>2, ReadKeeps DEF IndInv
  <1>9. DialInv'
    <2>1. held = 0 /\ \A i \in DOMAIN queue : queue[i].kind # "connected"
      BY <1>1 DEF IndInv, DialInv
    <2>2. /\ Len(queue') = Len(queue) + 1 /\ DOMAIN queue' = 1 .. Len(queue) + 1 /\ DOMAIN queue = 1 .. Len(queue)
          /\ Len(queue) \in Nat /\ queue'[Len(queue) + 1] = h
          /\ \A i \in DOMAIN queue : queue'[i] = queue[i]
      BY <1>1, <1>2, <1>3
    <2>3. \A i \in DOMAIN queue' : queue'[i].kind = "connected" => i = Len(queue) + 1 /\ queue'[i] = h
      BY <2>1, <2>2
    <2>4. sent'[dials + 1]["client"] = 0 /\ dials + 1 \notin reading' \cup broken'
      BY <1>0, <1>1, <1>5 DEF IndInv, DialInv, StateOK
    <2>5. ASSUME NEW j \in DOMAIN queue', queue'[j].kind \in {"read", "failed"} PROVE queue'[j].c # dials + 1
      <3>1. j \in DOMAIN queue /\ queue'[j] = queue[j]
        BY <1>2, <2>2, <2>5
      <3>2. queue[j].c \in 1 .. dials
        BY <2>5, <3>1 DEF IndInv, ReadInv
      <3>. QED BY <1>1, <3>1, <3>2
    <2>6. \A c \in Ids : c > dials' => sent'[c]["client"] = 0
      BY <1>1, <1>5, <1>0, Basics DEF IndInv, DialInv
    <2>. QED BY <1>1, <1>2, <1>5, <2>1, <2>3, <2>4, <2>5, <2>6 DEF DialInv
  <1>10. AwaitInv'
    <2>1. \A g \in {h} : g.kind \notin {"read", "failed"}
      BY <1>2
    <2>2. \A c \in Ids : Awaits(c)' => Awaits(c)
      BY <1>0, <1>4, <1>5, <2>1, ReadsFrom DEF Awaits
    <2>. QED BY <1>0, <1>4, <1>5, <2>1, <2>2, AwaitKeeps DEF IndInv
  <1>11. LoginInv'
    BY <1>5 DEF IndInv, LoginInv
  <1>. QED BY <1>6, <1>7, <1>8, <1>9, <1>10, <1>11 DEF IndInv

\* The timer expires.
LEMMA TimerFiresKeeps == ASSUME IndInv, TimerFires PROVE IndInv'
  <1>0. StateOK /\ queue \in Seq(Handlers)
    BY Basics DEF IndInv
  <1>1. Timer \in Handlers /\ Timer.kind = "timer"
    BY PlainHandlers
  <1>2. Step(0, {Timer})
    <2>1. Tailed(0, queue, {Timer})
      BY <1>0, TailedStart
    <2>2. Tailed(0, Append(queue, Timer), {Timer})
      BY <1>0, <1>1, <2>1, TailedMore
    <2>. QED BY <2>2 DEF Step, TimerFires, Timer
  <1>3. UNCHANGED <<is_login_, conn_, held, dialing, dials, open, broken, reading, wire, recv, sent, handled, pc>>
    BY DEF TimerFires, sockets, streams
  <1>4. StateOK'
    <2>1. queue' \in Seq(Handlers) /\ waits' \in 0 .. 1
      BY <1>0, <1>2, QueuePlaces DEF TimerFires, StateOK
    <2>. QED BY <1>0, <1>3, <2>1 DEF StateOK
  <1>5. StreamInv'
    BY SameStreams DEF TimerFires, IndInv
  <1>6. dials' \in Nat /\ dials' >= dials
    BY <1>0, <1>3, Basics
  <1>7. ReadInv'
    <2>1. \A g \in Handlers : ReadOK(g) => ReadOK(g)'
      BY <1>3 DEF ReadOK
    <2>. QED BY <1>0, <1>1, <1>2, <1>6, <2>1, ReadKeeps DEF IndInv
  <1>8. DialInv'
    <2>1. \A c : Stays(0, "connected", c) => c \in Ids
      BY <1>0, Basics DEF Stays, IndInv, ReadInv
    <2>2. dialing' => held' = 0 /\ (dialing \/ held # 0)
      BY <1>3 DEF IndInv, DialInv
    <2>. QED BY <1>0, <1>1, <1>2, <1>3, <2>1, <2>2, DialKeeps DEF IndInv
  <1>9. AwaitInv'
    <2>1. \A c \in Ids : Awaits(c)' => Awaits(c)
      BY <1>0, <1>1, <1>2, <1>3, ReadsFrom DEF Awaits
    <2>. QED BY <1>0, <1>1, <1>2, <1>3, <2>1, AwaitKeeps DEF IndInv
  <1>10. LoginInv'
    BY <1>3 DEF IndInv, LoginInv
  <1>. QED BY <1>4, <1>5, <1>7, <1>8, <1>9, <1>10 DEF IndInv

\* A connection that waits for HandleConn is one.
LEMMA StaysConn ==
    ASSUME IndInv, NEW d
    PROVE  \A c : Stays(d, "connected", c) => c \in Ids /\ c \notin reading \cup broken /\ sent[c]["client"] = 0
                                              /\ \A i \in DOMAIN queue : queue[i].kind \in {"read", "failed"} => queue[i].c # c
  <1>. SUFFICES ASSUME NEW i \in DOMAIN queue, queue[i].kind = "connected"
                PROVE  /\ queue[i].c \in Ids /\ queue[i].c \notin reading \cup broken /\ sent[queue[i].c]["client"] = 0
                       /\ \A j \in DOMAIN queue : queue[j].kind \in {"read", "failed"} => queue[j].c # queue[i].c
    BY DEF Stays
  <1>1. queue[i].c \in 1 .. dials
    BY DEF IndInv, ReadInv
  <1>. QED BY <1>1, Basics DEF IndInv, DialInv

\* The read of a connection fails.
LEMMA BreaksKeeps == ASSUME IndInv, NEW c \in Ids, Breaks(c) PROVE IndInv'
  <1>0. StateOK /\ queue \in Seq(Handlers) /\ dials \in Nat
    BY Basics DEF IndInv
  <1>1. c \in 1 .. dials /\ c \in reading /\ c \in 0 .. MaxConns
    BY <1>0, Basics DEF Breaks, StateOK
  <1>2. Failed(c) \in Handlers /\ Failed(c).kind = "failed" /\ Failed(c).c = c
    BY <1>1, PlainHandlers
  <1>3. Step(0, {Failed(c)})
    <2>1. Tailed(0, queue, {Failed(c)})
      BY <1>0, TailedStart
    <2>2. Tailed(0, Append(queue, Failed(c)), {Failed(c)})
      BY <1>0, <1>2, <2>1, TailedMore
    <2>. QED BY <2>2 DEF Step, Breaks
  <1>4. /\ UNCHANGED <<is_login_, conn_, waits, held, dialing, dials, open, broken, wire, recv, sent, handled, pc>>
        /\ reading' = reading \ {c}
    BY DEF Breaks, session, streams
  <1>5. StateOK'
    <2>1. queue' \in Seq(Handlers) /\ reading' \in SUBSET (1 .. dials)
      BY <1>0, <1>3, <1>4, QueuePlaces DEF StateOK
    <2>. QED BY <1>0, <1>4, <2>1 DEF StateOK
  <1>6. StreamInv'
    BY SameStreams DEF Breaks, IndInv
  <1>7. dials' \in Nat /\ dials' >= dials
    BY <1>0, <1>4
  <1>8. ReadInv'
    <2>1. \A g \in Handlers : ReadOK(g) => ReadOK(g)'
      BY <1>4 DEF ReadOK
    <2>2. \A g \in {Failed(c)} : g.kind # "read" /\ (g.kind # "timer" => g.c \in 1 .. dials')
      BY <1>1, <1>2, <1>4
    <2>. QED BY <1>0, <1>3, <1>7, <2>1, <2>2, ReadKeeps DEF IndInv
  <1>9. DialInv'
    <2>1. \A b : Stays(0, "connected", b) => b \in Ids /\ b \notin reading \cup broken /\ b # c
      BY <1>1, StaysConn
    <2>2. dialing' => held' = 0 /\ (dialing \/ held # 0)
      BY <1>4 DEF IndInv, DialInv
    <2>. QED BY <1>0, <1>2, <1>3, <1>4, <2>1, <2>2, DialKeeps DEF IndInv
  <1>10. AwaitInv'
    <2>1. ASSUME NEW b \in Ids, Awaits(b)' PROVE Awaits(b) /\ b # c
      <3>1. CASE b \in reading'
        BY <1>4, <2>1, <3>1 DEF Awaits
      <3>2. CASE \E i \in DOMAIN queue' : queue'[i].kind = "read" /\ queue'[i].c = b
        <4>1. PICK i \in DOMAIN queue : queue[i].kind = "read" /\ queue[i].c = b
          BY <1>0, <1>2, <1>3, <3>2, ReadsFrom
        <4>2. b \notin reading
          BY <4>1 DEF IndInv, ReadInv, ReadOK
        <4>. QED BY <1>1, <1>4, <2>1, <4>1, <4>2 DEF Awaits
      <3>. QED BY <2>1, <3>1, <3>2 DEF Awaits
    <2>. QED BY <1>0, <1>2, <1>3, <1>4, <2>1, AwaitKeeps DEF IndInv
  <1>11. LoginInv'
    BY <1>4 DEF IndInv, LoginInv
  <1>. QED BY <1>5, <1>6, <1>8, <1>9, <1>10, <1>11 DEF IndInv

\* HandleClose for an operation that failed.
LEMMA RunFailedKeeps == ASSUME IndInv, RunFailed PROVE IndInv'
  <1>0. StateOK /\ queue \in Seq(Handlers) /\ dials \in Nat
    BY Basics DEF IndInv
  <1>1. queue # <<>> /\ queue[1].kind = "failed" /\ 1 \in DOMAIN queue /\ Head(queue) = queue[1]
    BY <1>0 DEF RunFailed, Runs
  <1>2. PICK c \in 1 .. dials : c = Head(queue).c
    BY <1>1 DEF IndInv, ReadInv
  <1>3. c \in Ids /\ c \in 0 .. MaxConns /\ c # 0
    BY <1>0, Basics
  <1>4. Failed(c) \in Handlers /\ Failed(c).kind = "failed" /\ Failed(c).c = c
    BY <1>3, PlainHandlers
  <1>5. /\ open' = open \ {c} /\ reading' = reading \ {c}
        /\ queue' = Tail(queue) \o (IF c \in reading THEN <<Failed(c)>> ELSE <<>>)
        /\ is_login_' = FALSE
        /\ held' = IF held = c THEN 0 ELSE held
        /\ dialing' = (dialing \/ held = c)
        /\ pc' = IF held \in {0, c} THEN pc ELSE [pc EXCEPT !["client"] = "ended"]
        /\ UNCHANGED <<conn_, waits, dials, broken, wire, recv, sent, handled>>
    BY <1>2 DEF RunFailed, LoginAfterLoss, streams
  <1>6. Step(1, {Failed(c)})
    <2>1. Tailed(1, Tail(queue), {Failed(c)})
      BY <1>0, <1>1, TailedStart
    <2>2. (IF c \in reading THEN <<Failed(c)>> ELSE <<>>) \in Seq({Failed(c)})
      <3>1. \A f : <<f>> \in Seq({f}) /\ <<>> \in Seq({f})
        OBVIOUS
      <3>. QED BY <3>1, Zenon
    <2>3. Tailed(1, queue', {Failed(c)})
      BY <1>0, <1>1, <1>4, <1>5, <2>1, <2>2, TailedMore
    <2>. QED BY <1>1, <2>3 DEF Step
  <1>7. StateOK'
    <2>1. queue' \in Seq(Handlers) /\ reading' \in SUBSET (1 .. dials) /\ open' \in SUBSET (1 .. dials)
      BY <1>0, <1>5, <1>6, QueuePlaces DEF StateOK
    <2>2. is_login_' \in BOOLEAN /\ dialing' \in BOOLEAN
      BY <1>0, <1>5, Zenon DEF StateOK
    <2>3. held' \in 0 .. dials
      BY <1>0, <1>5 DEF StateOK
    <2>4. pc' \in [Sides -> {"runs", "ended"}]
      BY <1>0, <1>5 DEF StateOK
    <2>. QED BY <1>0, <1>5, <2>1, <2>2, <2>3, <2>4 DEF StateOK
  <1>8. StreamInv'
    BY SameStreams DEF RunFailed, IndInv
  <1>9. dials' \in Nat /\ dials' >= dials
    BY <1>0, <1>5
  <1>10. ReadInv'
    <2>1. \A g \in Handlers : ReadOK(g) => ReadOK(g)'
      BY <1>5 DEF ReadOK
    <2>2. \A g \in {Failed(c)} : g.kind # "read" /\ (g.kind # "timer" => g.c \in 1 .. dials')
      BY <1>4, <1>5
    <2>. QED BY <1>0, <1>6, <1>9, <2>1, <2>2, ReadKeeps DEF IndInv
  <1>11. DialInv'
    <2>1. \A b : Stays(1, "connected", b) => b \in Ids /\ b \notin reading \cup broken /\ b # c
      BY <1>1, <1>2, StaysConn
    <2>2. dialing' => held' = 0 /\ (dialing \/ held # 0)
      BY <1>3, <1>5 DEF IndInv, DialInv
    <2>. QED BY <1>0, <1>4, <1>5, <1>6, <2>1, <2>2, DialKeeps DEF IndInv
  <1>12. AwaitInv'
    <2>1. ASSUME NEW b \in Ids, Awaits(b)' PROVE Awaits(b) /\ b # c /\ held' = held
      <3>1. (\E i \in DOMAIN queue' : queue'[i].kind = "read" /\ queue'[i].c = b)
               => \E i \in DOMAIN queue : queue[i].kind = "read" /\ queue[i].c = b
        BY <1>0, <1>4, <1>6, ReadsFrom
      <3>2. Awaits(b)
        BY <1>5, <2>1, <3>1 DEF Awaits
      <3>3. b = held /\ b # c
        BY <1>1, <1>2, <3>2 DEF IndInv, AwaitInv
      <3>. QED BY <1>5, <3>2, <3>3
    <2>. QED BY <1>0, <1>4, <1>5, <1>6, <2>1, AwaitKeeps DEF IndInv
  <1>13. LoginInv'
    BY <1>5 DEF LoginInv
  <1>. QED BY <1>7, <1>8, <1>10, <1>11, <1>12, <1>13 DEF IndInv

\* The two sides.
LEMMA TwoSides ==
    /\ Sides = {"client", "server"} /\ "client" \in Sides /\ "server" \in Sides
    /\ Peer("client") = "server" /\ Peer("server") = "client"
  BY DEF Sides, Peer

\* The types of the streams.
LEMMA StreamTypes ==
    ASSUME StateOK, NEW c \in Ids, NEW s \in Sides
    PROVE  /\ wire[c][s] \in Seq(Cell) /\ handled[c][s] \in Seq(Packet)
           /\ sent[c][s] \in 0 .. MaxPackets /\ sent[c][s] \in Nat
           /\ LastN(handled[c][s]) \in Nat /\ Len(handled[c][s]) \in Nat
  <1>1. wire[c][s] \in Seq(Cell) /\ handled[c][s] \in Seq(Packet) /\ sent[c][s] \in 0 .. MaxPackets
    BY DEF StateOK
  <1>. QED BY <1>1, LastNType, PartsAssumption

\* A read of the client completes.
LEMMA DeliversKeeps == ASSUME IndInv, NEW c \in Ids, Delivers(c) PROVE IndInv'
  <1>0. StateOK /\ queue \in Seq(Handlers) /\ dials \in Nat
    BY Basics DEF IndInv
  <1>1. c \in 1 .. dials /\ c \in reading /\ c \in 0 .. MaxConns
    BY <1>0, Basics DEF Delivers, StateOK
  <1>2. PICK w \in Seq(Cell) : w = wire[c]["client"]
    BY <1>0, StreamTypes, TwoSides
  <1>3. PICK n \in 1 .. Len(w) :
          /\ queue' = Append(queue, Handler("read", c, SubSeq(w, 1, n)))
          /\ wire' = [wire EXCEPT ![c]["client"] = SubSeq(w, n + 1, Len(w))]
    BY <1>2 DEF Delivers
  <1>4. PICK a : a = SubSeq(w, 1, n)
    OBVIOUS
  <1>5. PICK b : b = SubSeq(w, n + 1, Len(w))
    OBVIOUS
  <1>6. PICK hs : hs = handled[c]["client"]
    OBVIOUS
  <1>7. PICK m : m = sent[c]["server"]
    OBVIOUS
  <1>8. StreamOK(c, "client") /\ Flows(w, hs, m)
    BY <1>2, <1>6, <1>7, TwoSides DEF IndInv, StreamInv, StreamOK
  <1>9. /\ a \in Seq(Cell) /\ a # <<>> /\ b \in Seq(Cell) /\ Flows(a, hs, m) /\ Flows(b, hs, m)
        /\ \A i \in DOMAIN a, j \in DOMAIN b : Less(a[i], b[j])
    BY <1>4, <1>5, <1>8, FlowsCut
  <1>10. wire' \in [Ids -> [Sides -> Seq(Cell)]] /\ Puts(wire, wire', c, "client", b)
    <2>1. wire \in [Ids -> [Sides -> Seq(Cell)]]
      BY <1>0 DEF StateOK
    <2>2. wire' = [wire EXCEPT ![c]["client"] = b]
      BY <1>3, <1>5
    <2>3. PICK g : g = wire'
      OBVIOUS
    <2>4. g = [wire EXCEPT ![c]["client"] = b]
      BY <2>2, <2>3
    <2>5. b \in Seq(Cell) /\ "client" \in Sides
      BY <1>9, TwoSides
    <2>6. g \in [Ids -> [Sides -> Seq(Cell)]] /\ Puts(wire, g, c, "client", b)
      BY <2>1, <2>4, <2>5 DEF Puts
    <2>. QED BY <2>3, <2>6
  <1>11. PICK h : h = Handler("read", c, a)
    OBVIOUS
  <1>12. h \in Handlers /\ h.kind = "read" /\ h.c = c /\ h.cells = a
    <2>1. "read" \in Kinds
      BY DEF Kinds
    <2>. QED BY <1>1, <1>9, <1>11, <2>1, Zenon DEF Handler, Handlers
  <1>13. queue' = Append(queue, h)
    BY <1>3, <1>4, <1>11
  <1>14. Step(0, {h})
    <2>1. Tailed(0, queue, {h})
      BY <1>0, TailedStart
    <2>2. Tailed(0, Append(queue, h), {h})
      BY <1>0, <1>12, <2>1, TailedMore
    <2>. QED BY <1>13, <2>2 DEF Step
  <1>15. /\ UNCHANGED <<is_login_, conn_, waits, held, dialing, dials, open, broken, recv, sent, handled, pc>>
         /\ reading' = reading \ {c}
    BY DEF Delivers, session
  <1>16. StateOK'
    <2>1. queue' \in Seq(Handlers) /\ reading' \in SUBSET (1 .. dials)
      BY <1>0, <1>14, <1>15, QueuePlaces DEF StateOK
    <2>. QED BY <1>0, <1>10, <1>15, <2>1 DEF StateOK
  <1>17. StreamInv'
    <2>1. ASSUME NEW e \in Ids, NEW s \in Sides PROVE StreamOK(e, s)'
      <3>1. CASE e = c /\ s = "client"
        BY <1>6, <1>7, <1>8, <1>9, <1>10, <1>15, <3>1, TwoSides DEF StreamOK, Puts
      <3>2. CASE ~(e = c /\ s = "client")
        <4>1. wire'[e][s] = wire[e][s]
          BY <1>10, <3>2 DEF Puts
        <4>. QED BY <1>15, <4>1 DEF StreamOK, IndInv, StreamInv
      <3>. QED BY <3>1, <3>2
    <2>. QED BY <1>15, <2>1 DEF StreamInv, IndInv
  <1>18. /\ Len(queue') = Len(queue) + 1 /\ DOMAIN queue' = 1 .. Len(queue) + 1 /\ DOMAIN queue = 1 .. Len(queue)
         /\ Len(queue) \in Nat /\ queue'[Len(queue) + 1] = h /\ \A i \in DOMAIN queue : queue'[i] = queue[i]
    BY <1>0, <1>12, <1>13
  <1>19. ReadInv'
    <2>1. \A i \in DOMAIN queue : queue[i].kind = "read" => queue[i].c # c /\ ReadOK(queue[i]) /\ queue[i].c \in Ids
      <3>1. ASSUME NEW i \in DOMAIN queue, queue[i].kind = "read"
            PROVE  queue[i].c # c /\ ReadOK(queue[i]) /\ queue[i].c \in 1 .. dials
        BY <1>1, <3>1 DEF IndInv, ReadInv, ReadOK
      <3>. QED BY <1>0, <3>1, Basics
    <2>2. ASSUME NEW g, ReadOK(g), g.c # c, g.c \in Ids PROVE ReadOK(g)'
      BY <1>10, <1>15, <2>2, TwoSides DEF ReadOK, Puts
    <2>3. ReadOK(h)'
      BY <1>6, <1>7, <1>9, <1>10, <1>12, <1>15 DEF ReadOK, Puts
    <2>4. ASSUME NEW i \in DOMAIN queue', queue'[i].kind = "read"
          PROVE  ReadOK(queue[i])'
      <3>1. PICK g : g = queue'[i]
        OBVIOUS
      <3>2. ReadOK(g)'
        BY <1>18, <2>1, <2>2, <2>3, <2>4, <3>1
      <3>. QED BY <3>1, <3>2 DEF ReadOK
    <2>5. ASSUME NEW i \in DOMAIN queue', NEW j \in DOMAIN queue', queue'[i].kind = "read",
                 queue'[j].kind = "read", queue'[j].c = queue'[i].c
          PROVE  i = j
      <3>1. i \in DOMAIN queue /\ j \in DOMAIN queue => i = j
        BY <1>18, <2>5 DEF IndInv, ReadInv
      <3>. QED BY <1>12, <1>18, <2>1, <2>5, <3>1
    <2>6. \A i \in DOMAIN queue' : queue'[i].kind # "timer" => queue'[i].c \in 1 .. dials'
      BY <1>1, <1>12, <1>15, <1>18 DEF IndInv, ReadInv
    <2>. QED BY <2>4, <2>5, <2>6 DEF ReadInv
  <1>20. DialInv'
    <2>1. \A e : Stays(0, "connected", e) => e \in Ids /\ e \notin reading \cup broken /\ e # c
      BY <1>1, StaysConn
    <2>2. dialing' => held' = 0 /\ (dialing \/ held # 0)
      BY <1>15 DEF IndInv, DialInv
    <2>. QED BY <1>0, <1>12, <1>14, <1>15, <2>1, <2>2, DialKeeps DEF IndInv
  <1>21. AwaitInv'
    <2>1. ASSUME NEW e \in Ids, Awaits(e)' PROVE Awaits(e)
      <3>1. CASE e = c
        BY <1>1, <1>15, <2>1, <3>1 DEF Awaits
      <3>2. CASE e # c /\ \E i \in DOMAIN queue' : queue'[i].kind = "read" /\ queue'[i].c = e
        <4>1. \E i \in DOMAIN queue : queue[i].kind = "read" /\ queue[i].c = e
          BY <1>12, <1>18, <3>2
        <4>. QED BY <1>15, <2>1, <4>1 DEF Awaits
      <3>3. CASE e \in reading'
        BY <1>15, <2>1, <3>3 DEF Awaits
      <3>. QED BY <2>1, <3>1, <3>2, <3>3 DEF Awaits
    <2>. QED BY <1>0, <1>12, <1>14, <1>15, <2>1, AwaitKeeps DEF IndInv
  <1>22. LoginInv'
    BY <1>15 DEF IndInv, LoginInv
  <1>. QED BY <1>16, <1>17, <1>19, <1>20, <1>21, <1>22 DEF IndInv

-----------------------------------------------------------------------------
(* The handlers of the client.                                             *)

\* A packet of the client comes last on its stream, and nothing else changes.
LEMMA SendPktStreams ==
    ASSUME IndInv, NEW c \in Ids, c \in 1 .. dials, NEW type \in {"LOGIN", "KEEPALIVE"}, NEW q,
           SendPkt(c, type, q), sent[c]["client"] < MaxPackets, type = "LOGIN" => sent[c]["client"] = 0,
           UNCHANGED <<recv, handled>>
    PROVE  /\ wire' \in [Ids -> [Sides -> Seq(Cell)]] /\ sent' \in [Ids -> [Sides -> 0 .. MaxPackets]]
           /\ broken' \in SUBSET (1 .. dials) /\ StreamInv'
           /\ \A b \in Ids : /\ wire'[b]["client"] = wire[b]["client"] /\ sent'[b]["server"] = sent[b]["server"]
                             /\ b # c => sent'[b]["client"] = sent[b]["client"]
                             /\ sent'[b]["client"] >= sent[b]["client"]
           /\ \/ queue' = q /\ broken' = broken
              \/ queue' = Append(q, Failed(c)) /\ broken' = broken \cup {c} /\ sent' = sent
  <1>0. StateOK
    BY DEF IndInv
  <1>1. ASSUME wire' = wire, sent' = sent, broken' \in {broken, broken \cup {c}}
        PROVE  /\ wire' \in [Ids -> [Sides -> Seq(Cell)]] /\ sent' \in [Ids -> [Sides -> 0 .. MaxPackets]]
               /\ broken' \in SUBSET (1 .. dials) /\ StreamInv'
               /\ \A b \in Ids : /\ wire'[b]["client"] = wire[b]["client"] /\ sent'[b]["server"] = sent[b]["server"]
                                 /\ b # c => sent'[b]["client"] = sent[b]["client"]
                                 /\ sent'[b]["client"] >= sent[b]["client"]
    <2>1. StreamInv'
      BY <1>1, SameStreams DEF streams, IndInv
    <2>2. \A b \in Ids : sent[b]["client"] \in Nat
      BY <1>0, StreamTypes, TwoSides
    <2>3. broken' \in SUBSET (1 .. dials)
      BY <1>0, <1>1 DEF StateOK
    <2>. QED BY <1>0, <1>1, <2>1, <2>2, <2>3 DEF StateOK
  <1>2. CASE queue' = q /\ UNCHANGED <<broken, wire, sent>>
    BY <1>1, <1>2
  <1>3. CASE broken' = broken \cup {c} /\ queue' = Append(q, Failed(c)) /\ UNCHANGED <<wire, sent>>
    BY <1>1, <1>3
  <1>4. CASE /\ sent' = [sent EXCEPT ![c]["client"] = @ + 1]
             /\ wire' = [wire EXCEPT ![c]["server"] =
                            @ \o cereal_serialize([type |-> type, n |-> sent'[c]["client"]])]
             /\ queue' = q /\ UNCHANGED broken
    <2>1. PICK n \in 0 .. MaxPackets : n = sent[c]["client"]
      BY <1>0, StreamTypes, TwoSides
    <2>2. n \in Nat /\ n + 1 \in 0 .. MaxPackets /\ n + 1 \in 1 .. MaxPackets
      BY <2>1, PartsAssumption
    <2>3. PICK v : v = sent'
      OBVIOUS
    <2>4. v \in [Ids -> [Sides -> 0 .. MaxPackets]] /\ Puts(sent, v, c, "client", n + 1)
      <3>1. v = [sent EXCEPT ![c]["client"] = n + 1] /\ sent \in [Ids -> [Sides -> 0 .. MaxPackets]]
        BY <1>0, <1>4, <2>1, <2>3 DEF StateOK
      <3>. QED BY <2>2, <3>1, TwoSides DEF Puts
    <2>5. PICK p : p = [type |-> type, n |-> n + 1]
      OBVIOUS
    <2>6. p \in Packet /\ p.n = n + 1 /\ p.type = type
      BY <2>2, <2>5 DEF Packet, Types
    <2>7. PICK w \in Seq(Cell) : w = wire[c]["server"]
      BY <1>0, StreamTypes, TwoSides
    <2>8. PICK hs \in Seq(Packet) : hs = handled[c]["server"]
      BY <1>0, StreamTypes, TwoSides
    <2>9. StreamOK(c, "server") /\ Flows(w, hs, n) /\ LastN(hs) <= n
      BY <2>1, <2>7, <2>8, TwoSides DEF IndInv, StreamInv, StreamOK
    <2>10. PICK x : x = w \o cereal_serialize(p)
      OBVIOUS
    <2>11. x \in Seq(Cell) /\ Flows(x, hs, n + 1)
      BY <2>1, <2>2, <2>6, <2>9, <2>10, FlowsSent
    <2>12. PICK u : u = wire'
      OBVIOUS
    <2>13. u \in [Ids -> [Sides -> Seq(Cell)]] /\ Puts(wire, u, c, "server", x)
      <3>1. sent'[c]["client"] = n + 1
        BY <2>3, <2>4 DEF Puts
      <3>2. u = [wire EXCEPT ![c]["server"] = x]
        BY <1>4, <2>5, <2>7, <2>10, <2>12, <3>1
      <3>3. wire \in [Ids -> [Sides -> Seq(Cell)]]
        BY <1>0 DEF StateOK
      <3>. QED BY <2>11, <3>2, <3>3, TwoSides DEF Puts
    <2>14. \A b \in Ids : /\ wire'[b]["client"] = wire[b]["client"] /\ sent'[b]["server"] = sent[b]["server"]
                          /\ b # c => sent'[b]["client"] = sent[b]["client"] /\ wire'[b]["server"] = wire[b]["server"]
                          /\ sent'[c]["client"] = n + 1 /\ wire'[c]["server"] = x
      BY <2>3, <2>4, <2>12, <2>13, TwoSides DEF Puts
    <2>15. \A b \in Ids : sent'[b]["client"] >= sent[b]["client"]
      <3>1. \A b \in Ids : sent[b]["client"] \in Nat
        BY <1>0, StreamTypes, TwoSides
      <3>. QED BY <2>1, <2>2, <2>14, <3>1, SMTT(30)
    <2>16. ASSUME NEW b \in Ids, NEW s \in Sides PROVE StreamOK(b, s)'
      <3>1. CASE b = c /\ s = "server"
        BY <2>1, <2>2, <2>8, <2>9, <2>11, <2>14, <3>1, TwoSides, LastNType DEF StreamOK
      <3>2. CASE b # c \/ s = "client"
        <4>1. wire'[b][s] = wire[b][s] /\ sent'[b][Peer(s)] = sent[b][Peer(s)]
          BY <2>14, <3>2, TwoSides
        <4>. QED BY <4>1 DEF StreamOK, IndInv, StreamInv
      <3>. QED BY <3>1, <3>2, TwoSides
    <2>17. StreamInv'
      BY <2>14, <2>16 DEF StreamInv, IndInv
    <2>18. broken' \in SUBSET (1 .. dials)
      BY <1>0, <1>4 DEF StateOK
    <2>. QED BY <1>4, <2>3, <2>4, <2>12, <2>13, <2>14, <2>15, <2>17, <2>18
  <1>. QED BY <1>2, <1>3, <1>4 DEF SendPkt

\* The handler of a cancelled wait is the timer's.
LEMMA CancelledTimers == ASSUME StateOK PROVE Cancelled \in Seq({Timer})
  <1>1. waits \in Nat
    BY DEF StateOK
  <1>. QED BY <1>1 DEF Cancelled, Timer

\* DoKeepAlve.
LEMMA RunTimerKeeps == ASSUME IndInv, RunTimer PROVE IndInv'
  <1>0. StateOK /\ queue \in Seq(Handlers) /\ dials \in Nat
    BY Basics DEF IndInv
  <1>1. queue # <<>> /\ pc["client"] = "runs"
    BY DEF RunTimer, Runs
  <1>2. UNCHANGED <<is_login_, conn_, held, dialing, dials, open, reading, recv, handled, pc>>
    BY DEF RunTimer
  <1>3. Timer \in Handlers /\ Timer.kind = "timer"
    BY PlainHandlers
  <1>4. CASE /\ ~is_login_ /\ queue' = Tail(queue) /\ UNCHANGED <<waits, broken, wire, sent>>
    <2>1. Step(1, {Timer})
      <3>1. Tailed(1, Tail(queue), {Timer})
        BY <1>0, <1>1, TailedStart
      <3>. QED BY <1>1, <1>4, <3>1 DEF Step
    <2>2. StateOK'
      <3>1. queue' \in Seq(Handlers)
        BY <1>0, <2>1, QueuePlaces
      <3>. QED BY <1>0, <1>2, <1>4, <3>1 DEF StateOK
    <2>3. StreamInv'
      BY <1>2, <1>4, SameStreams DEF streams, IndInv
    <2>4. ReadInv'
      <3>1. \A g \in Handlers : ReadOK(g) => ReadOK(g)'
        BY <1>2, <1>4 DEF ReadOK
      <3>2. dials' \in Nat /\ dials' >= dials
        BY <1>0, <1>2
      <3>. QED BY <1>0, <1>3, <2>1, <3>1, <3>2, ReadKeeps DEF IndInv
    <2>5. DialInv'
      <3>1. \A e : Stays(1, "connected", e) => e \in Ids
        BY StaysConn
      <3>2. dialing' => held' = 0 /\ (dialing \/ held # 0)
        BY <1>2 DEF IndInv, DialInv
      <3>. QED BY <1>0, <1>2, <1>3, <1>4, <2>1, <3>1, <3>2, DialKeeps DEF IndInv
    <2>6. AwaitInv'
      <3>1. \A e \in Ids : Awaits(e)' => Awaits(e)
        BY <1>0, <1>2, <1>3, <1>4, <2>1, ReadsFrom DEF Awaits
      <3>. QED BY <1>0, <1>2, <1>3, <1>4, <2>1, <3>1, AwaitKeeps DEF IndInv
    <2>7. LoginInv'
      BY <1>2 DEF IndInv, LoginInv
    <2>. QED BY <2>2, <2>3, <2>4, <2>5, <2>6, <2>7 DEF IndInv
  <1>5. CASE /\ is_login_ /\ sent[conn_]["client"] < MaxPackets /\ waits' = 1
             /\ SendPkt(conn_, "KEEPALIVE", Tail(queue) \o Cancelled)
    <2>1. PICK c : c = conn_
      OBVIOUS
    <2>2. c \in 1 .. dials /\ c \in Ids /\ c \in 0 .. MaxConns /\ held = c /\ held # 0 /\ handled[c]["client"] # <<>>
      <3>1. conn_ = held /\ held # 0 /\ handled[held]["client"] # <<>>
        BY <1>1, <1>5 DEF IndInv, LoginInv
      <3>2. c \in 1 .. dials
        BY <1>0, <2>1, <3>1 DEF StateOK
      <3>. QED BY <1>0, <2>1, <3>1, <3>2, Basics
    <2>3. PICK q : q = Tail(queue) \o Cancelled
      OBVIOUS
    <2>4. /\ wire' \in [Ids -> [Sides -> Seq(Cell)]] /\ sent' \in [Ids -> [Sides -> 0 .. MaxPackets]]
          /\ broken' \in SUBSET (1 .. dials) /\ StreamInv'
          /\ \A b \in Ids : /\ wire'[b]["client"] = wire[b]["client"] /\ sent'[b]["server"] = sent[b]["server"]
                            /\ b # c => sent'[b]["client"] = sent[b]["client"]
          /\ \/ queue' = q /\ broken' = broken
             \/ queue' = Append(q, Failed(c)) /\ broken' = broken \cup {c}
      <3>1. SendPkt(c, "KEEPALIVE", q) /\ sent[c]["client"] < MaxPackets /\ UNCHANGED <<recv, handled>>
        BY <1>2, <1>5, <2>1, <2>3
      <3>. QED BY <2>2, <3>1, SendPktStreams
    <2>5. Failed(c) \in Handlers /\ Failed(c).kind = "failed" /\ Failed(c).c = c
      BY <2>2, PlainHandlers
    <2>6. PICK X : X = {Timer, Failed(c)}
      OBVIOUS
    <2>7. X \in SUBSET Handlers /\ \A h \in X : h.kind \in {"timer", "failed"} /\ (h.kind = "failed" => h.c = c)
      BY <1>3, <2>5, <2>6
    <2>8. Step(1, X)
      <3>1. Tailed(1, Tail(queue), X)
        BY <1>0, <1>1, TailedStart
      <3>2. Cancelled \in Seq(X)
        <4>1. Seq({Timer}) \subseteq Seq(X)
          BY <2>6
        <4>. QED BY <1>0, <4>1, CancelledTimers
      <3>3. Tailed(1, q, X)
        BY <1>0, <1>1, <2>3, <2>7, <3>1, <3>2, TailedMore
      <3>4. Tailed(1, Append(q, Failed(c)), X)
        BY <1>0, <1>1, <2>6, <2>7, <3>3, TailedMore
      <3>. QED BY <1>1, <2>4, <3>3, <3>4 DEF Step
    <2>9. StateOK'
      <3>1. queue' \in Seq(Handlers) /\ waits' \in 0 .. 1
        BY <1>0, <1>5, <2>8, QueuePlaces
      <3>. QED BY <1>0, <1>2, <2>4, <3>1 DEF StateOK
    <2>10. ReadInv'
      <3>1. ASSUME NEW g \in Handlers, g.kind = "read", ReadOK(g), Stays(1, "read", g.c) PROVE ReadOK(g)'
        <4>1. g.c \in Ids
          BY <1>0, <3>1, Basics DEF Stays, IndInv, ReadInv
        <4>. QED BY <1>2, <2>4, <3>1, <4>1 DEF ReadOK
      <3>2. dials' \in Nat /\ dials' >= dials
        BY <1>0, <1>2
      <3>3. \A h \in X : h.kind # "read" /\ (h.kind # "timer" => h.c \in 1 .. dials')
        BY <1>2, <2>2, <2>7
      <3>. QED BY <1>0, <2>8, <3>1, <3>2, <3>3, ReadKeeps DEF IndInv
    <2>11. DialInv'
      <3>1. \A e : ~Stays(1, "connected", e)
        BY <2>2 DEF Stays, IndInv, DialInv
      <3>2. ~dialing'
        BY <1>2, <2>2 DEF IndInv, DialInv
      <3>3. \A e \in Ids : e > dials => sent'[e]["client"] = sent[e]["client"]
        BY <1>0, <2>2, <2>4, Basics
      <3>. QED BY <1>0, <1>2, <2>7, <2>8, <3>1, <3>2, <3>3, DialKeeps DEF IndInv
    <2>12. AwaitInv'
      <3>1. ASSUME NEW e \in Ids, Awaits(e)' PROVE Awaits(e) /\ e # c
        <4>1. e # c
          BY <1>2, <2>2, <3>1 DEF Awaits
        <4>2. (\E i \in DOMAIN queue' : queue'[i].kind = "read" /\ queue'[i].c = e)
                 => \E i \in DOMAIN queue : queue[i].kind = "read" /\ queue[i].c = e
          BY <1>0, <2>7, <2>8, ReadsFrom
        <4>. QED BY <1>2, <2>4, <3>1, <4>1, <4>2 DEF Awaits
      <3>2. \A e \in Ids : Awaits(e)' =>
               /\ Awaits(e) /\ held' = held /\ conn_' = conn_ /\ (e \in broken' => e \in broken)
               /\ \A h \in X : h.kind = "failed" => h.c # e
        BY <1>2, <2>4, <2>7, <3>1
      <3>. QED BY <1>0, <2>8, <3>2, AwaitKeeps DEF IndInv
    <2>13. LoginInv'
      BY <1>2 DEF IndInv, LoginInv
    <2>. QED BY <2>4, <2>9, <2>10, <2>11, <2>12, <2>13 DEF IndInv
  <1>. QED BY <1>4, <1>5 DEF RunTimer, Rearmed

\* HandleConn: the connection becomes the current one, and the Login is the
\* first packet on it.
LEMMA RunConnectedKeeps == ASSUME IndInv, RunConnected PROVE IndInv'
  <1>0. StateOK /\ queue \in Seq(Handlers) /\ dials \in Nat
    BY Basics DEF IndInv
  <1>1. queue # <<>> /\ pc["client"] = "runs" /\ queue[1].kind = "connected" /\ 1 \in DOMAIN queue /\ Head(queue) = queue[1]
    BY <1>0 DEF RunConnected, Runs
  <1>2. PICK c \in 1 .. dials : c = queue[1].c
    BY <1>1 DEF IndInv, ReadInv
  <1>3. c \in Ids /\ c \in 0 .. MaxConns
    BY <1>0, Basics
  <1>4. /\ held = 0 /\ sent[c]["client"] = 0 /\ c \notin reading \cup broken
        /\ \A i \in DOMAIN queue : queue[i].kind = "connected" => i = 1
        /\ \A i \in DOMAIN queue : queue[i].kind \in {"read", "failed"} => queue[i].c # c
    BY <1>1, <1>2 DEF IndInv, DialInv
  <1>5. ~is_login_ /\ ~dialing
    BY <1>1, <1>4 DEF IndInv, DialInv, LoginInv
  <1>6. PICK q : q = Tail(queue)
    OBVIOUS
  <1>7. /\ held' = c /\ conn_' = c /\ reading' = reading \cup {c} /\ SendPkt(c, "LOGIN", q)
        /\ UNCHANGED <<is_login_, waits, dialing, dials, open, recv, handled, pc>>
    BY <1>1, <1>2, <1>6 DEF RunConnected
  <1>8. /\ wire' \in [Ids -> [Sides -> Seq(Cell)]] /\ sent' \in [Ids -> [Sides -> 0 .. MaxPackets]]
        /\ broken' \in SUBSET (1 .. dials) /\ StreamInv'
        /\ \A b \in Ids : /\ wire'[b]["client"] = wire[b]["client"] /\ sent'[b]["server"] = sent[b]["server"]
                          /\ b # c => sent'[b]["client"] = sent[b]["client"]
        /\ \/ queue' = q /\ broken' = broken
           \/ queue' = Append(q, Failed(c)) /\ broken' = broken \cup {c} /\ sent' = sent
    <2>1. sent[c]["client"] < MaxPackets
      BY <1>4, PartsAssumption
    <2>. QED BY <1>3, <1>4, <1>7, <2>1, SendPktStreams
  <1>9. Failed(c) \in Handlers /\ Failed(c).kind = "failed" /\ Failed(c).c = c
    BY <1>3, PlainHandlers
  <1>10. Tailed(1, q, {Failed(c)})
    BY <1>0, <1>1, <1>6, TailedStart
  <1>11. Step(1, {Failed(c)})
    <2>1. Tailed(1, Append(q, Failed(c)), {Failed(c)})
      BY <1>0, <1>1, <1>9, <1>10, TailedMore
    <2>. QED BY <1>1, <1>8, <1>10, <2>1 DEF Step
  <1>12. StateOK'
    <2>1. queue' \in Seq(Handlers)
      BY <1>0, <1>11, QueuePlaces
    <2>2. reading' \in SUBSET (1 .. dials) /\ conn_' \in 0 .. dials /\ held' \in 0 .. dials
      BY <1>0, <1>7 DEF StateOK
    <2>. QED BY <1>0, <1>7, <1>8, <2>1, <2>2 DEF StateOK
  <1>13. ReadInv'
    <2>1. ASSUME NEW g \in Handlers, g.kind = "read", ReadOK(g), Stays(1, "read", g.c) PROVE ReadOK(g)'
      <3>1. g.c \in Ids /\ g.c # c
        BY <1>0, <1>4, <2>1, Basics DEF Stays, IndInv, ReadInv
      <3>. QED BY <1>7, <1>8, <2>1, <3>1 DEF ReadOK
    <2>2. dials' \in Nat /\ dials' >= dials
      BY <1>0, <1>7
    <2>3. \A h \in {Failed(c)} : h.kind # "read" /\ (h.kind # "timer" => h.c \in 1 .. dials')
      BY <1>7, <1>9
    <2>. QED BY <1>0, <1>11, <2>1, <2>2, <2>3, ReadKeeps DEF IndInv
  <1>14. DialInv'
    <2>1. ASSUME NEW i \in DOMAIN queue' PROVE queue'[i].kind # "connected"
      <3>1. CASE i <= Len(queue) - 1 /\ i + 1 \in DOMAIN queue /\ queue'[i] = queue[i + 1]
        <4>1. i \in Nat /\ i > 0
          BY <1>0, <1>11, QueuePlaces
        <4>. QED BY <1>4, <3>1, <4>1
      <3>2. CASE queue'[i] \in {Failed(c)}
        BY <1>9, <3>2
      <3>. QED BY <1>0, <1>11, <3>1, <3>2, Origin
    <2>2. \A e \in Ids : e > dials' => sent'[e]["client"] = 0
      <3>1. \A e \in Ids : e > dials => sent[e]["client"] = 0
        BY DEF IndInv, DialInv
      <3>2. \A e \in Ids : e > dials => e # c
        BY <1>0, Basics
      <3>. QED BY <1>7, <1>8, <3>1, <3>2
    <2>. QED BY <1>5, <1>7, <2>1, <2>2 DEF DialInv
  <1>15. AwaitInv'
    <2>1. ASSUME NEW e \in Ids, Awaits(e)'
          PROVE  /\ e = c /\ e \notin broken'
                 /\ \A i \in DOMAIN queue' : queue'[i].kind = "failed" => queue'[i].c # e
      <3>1. (\E i \in DOMAIN queue' : queue'[i].kind = "read" /\ queue'[i].c = e)
               => \E i \in DOMAIN queue : queue[i].kind = "read" /\ queue[i].c = e
        BY <1>0, <1>9, <1>11, ReadsFrom
      <3>2. e = c
        <4>1. SUFFICES ASSUME e # c PROVE FALSE
          OBVIOUS
        <4>2. Awaits(e)
          BY <1>7, <1>8, <2>1, <3>1, <4>1 DEF Awaits
        <4>. QED BY <1>0, <1>4, <4>2, Basics DEF IndInv, AwaitInv
      <3>3. sent'[c]["client"] > 0
        BY <2>1, <3>2 DEF Awaits
      <3>4. queue' = q /\ broken' = broken
        BY <1>4, <1>8, <3>3
      <3>5. Step(1, {})
        <4>1. Tailed(1, q, {})
          BY <1>0, <1>1, <1>6, TailedStart
        <4>. QED BY <1>1, <3>4, <4>1 DEF Step
      <3>6. \A i \in DOMAIN queue' : queue'[i].kind = "failed" => queue'[i].c # c
        BY <1>0, <1>4, <3>5, Origin
      <3>. QED BY <1>4, <3>2, <3>4, <3>6
    <2>. QED BY <1>7, <2>1 DEF AwaitInv
  <1>16. LoginInv'
    BY <1>5, <1>7 DEF LoginInv
  <1>. QED BY <1>8, <1>12, <1>13, <1>14, <1>15, <1>16 DEF IndInv

\* The packets hs were handled in the order they were sent.
Ordered(hs) == /\ Len(hs) <= LastN(hs)
               /\ \A i \in 1 .. Len(hs) - 1 : hs[i].n < hs[i + 1].n

\* One more packet was handled.
LEMMA OrderedMore ==
    ASSUME NEW hs \in Seq(Packet), NEW p \in Packet, Ordered(hs), LastN(hs) < p.n
    PROVE  Ordered(Append(hs, p)) /\ LastN(Append(hs, p)) = p.n
  <1>1. p.n \in 1 .. MaxPackets
    BY DEF Packet
  <1>2. PICK k \in Nat : k = LastN(hs)
    BY LastNType
  <1>3. /\ Append(hs, p) \in Seq(Packet) /\ Len(Append(hs, p)) = Len(hs) + 1 /\ Len(hs) \in Nat
        /\ Append(hs, p)[Len(hs) + 1] = p /\ \A i \in 1 .. Len(hs) : Append(hs, p)[i] = hs[i]
    OBVIOUS
  <1>4. LastN(Append(hs, p)) = p.n
    BY <1>3 DEF LastN
  <1>5. Len(Append(hs, p)) <= p.n
    BY <1>1, <1>2, <1>3, PartsAssumption DEF Ordered
  <1>6. ASSUME NEW i \in 1 .. Len(Append(hs, p)) - 1 PROVE Append(hs, p)[i].n < Append(hs, p)[i + 1].n
    <2>1. CASE i = Len(hs)
      <3>1. hs # <<>> /\ hs[i].n = LastN(hs)
        BY <1>6, <1>3, <2>1 DEF LastN
      <3>. QED BY <1>3, <1>6, <2>1, <3>1
    <2>2. CASE i # Len(hs)
      <3>1. i \in 1 .. Len(hs) - 1 /\ i \in 1 .. Len(hs) /\ i + 1 \in 1 .. Len(hs)
        BY <1>3, <1>6, <2>2
      <3>. QED BY <1>3, <3>1 DEF Ordered
    <2>. QED BY <2>1, <2>2
  <1>. QED BY <1>4, <1>5, <1>6 DEF Ordered

\* The cells ss, and then w, reach a side that handled hs of at most n packets.
Fits(ss, w, hs, n) ==
    /\ ss # <<>> /\ Flows(ss, hs, n) /\ Flows(w, hs, n)
    /\ \A i \in DOMAIN ss, j \in DOMAIN w : Less(ss[i], w[j])
    /\ Ordered(hs) /\ LastN(hs) <= n

\* The packets handled are then h2.
Took(ss, w, hs, n, h2) ==
    /\ Flows(w, h2, n) /\ Ordered(h2) /\ LastN(h2) <= n
    /\ OnRecvData_(ss) # "handle" => h2 = hs
    /\ OnRecvData_(ss) = "handle" =>
          h2 = Append(hs, ss[1].pkt) /\ LastN(h2) = ss[1].pkt.n /\ LastN(hs) < LastN(h2)

\* OnRecvData_ of either side, on the cells ss that come before the cells w.
LEMMA ReceivesStream ==
    ASSUME StateOK, NEW c \in Ids, NEW s \in Sides, NEW ss \in Seq(Cell), NEW w \in Seq(Cell),
           NEW n \in Nat, Receives(c, s, ss), recv[c][s] = <<>>, NEW hs, hs = handled[c][s], Fits(ss, w, hs, n)
    PROVE  /\ recv' = recv /\ handled' \in [Ids -> [Sides -> Seq(Packet)]]
           /\ pc' \in [Sides -> {"runs", "ended"}] /\ \A t \in Sides : pc'[t] = "runs" => pc[t] = "runs"
           /\ \E h2 \in Seq(Packet) : Puts(handled, handled', c, s, h2) /\ Took(ss, w, hs, n, h2)
  <1>. /\ ss # <<>> /\ Flows(ss, hs, n) /\ Flows(w, hs, n) /\ Ordered(hs) /\ LastN(hs) <= n
       /\ \A i \in DOMAIN ss, j \in DOMAIN w : Less(ss[i], w[j])
    BY DEF Fits
  <1>0. hs \in Seq(Packet) /\ 1 \in DOMAIN ss /\ ss[1] \in Cell /\ Head(ss) = ss[1]
    BY StreamTypes
  <1>1. recv' = recv
    BY DEF Receives, Left, StateOK
  <1>2. pc' \in [Sides -> {"runs", "ended"}] /\ \A t \in Sides : pc'[t] = "runs" => pc[t] = "runs"
    <2>1. pc \in [Sides -> {"runs", "ended"}]
      BY DEF StateOK
    <2>2. pc' = pc \/ pc' = [pc EXCEPT ![s] = "ended"]
      BY DEF Receives
    <2>. QED BY <2>1, <2>2
  <1>3. CASE OnRecvData_(ss) # "handle"
    <2>1. handled' = handled
      BY <1>3 DEF Receives
    <2>2. handled' \in [Ids -> [Sides -> Seq(Packet)]]
      BY <2>1 DEF StateOK
    <2>3. Puts(handled, handled', c, s, hs)
      BY <2>1 DEF Puts
    <2>4. Took(ss, w, hs, n, hs)
      BY <1>3 DEF Took
    <2>. QED BY <1>0, <1>1, <1>2, <2>2, <2>3, <2>4
  <1>4. CASE OnRecvData_(ss) = "handle"
    <2>1. ss[1].part = 1
      BY <1>0, <1>4 DEF OnRecvData_, Whole
    <2>2. PICK p \in Packet : p = ss[1].pkt
      BY <1>0, CellParts
    <2>3. PICK h2 : h2 = Append(hs, p)
      OBVIOUS
    <2>4. /\ h2 \in Seq(Packet) /\ Flows(w, h2, n) /\ LastN(h2) = p.n /\ LastN(hs) < p.n /\ p.n <= n
      BY <1>0, <2>1, <2>2, <2>3, FlowsHandled
    <2>5. Ordered(h2)
      BY <1>0, <2>3, <2>4, OrderedMore
    <2>6. PICK g : g = handled'
      OBVIOUS
    <2>7. g = [handled EXCEPT ![c][s] = h2] /\ handled \in [Ids -> [Sides -> Seq(Packet)]]
      BY <1>0, <1>4, <2>2, <2>3, <2>6 DEF Receives, StateOK
    <2>8. g \in [Ids -> [Sides -> Seq(Packet)]] /\ Puts(handled, g, c, s, h2)
      BY <2>4, <2>7 DEF Puts
    <2>9. Puts(handled, handled', c, s, h2) /\ handled' \in [Ids -> [Sides -> Seq(Packet)]]
      BY <2>6, <2>8
    <2>10. Took(ss, w, hs, n, h2)
      BY <1>4, <2>2, <2>3, <2>4, <2>5 DEF Took
    <2>. QED BY <1>1, <1>2, <2>4, <2>9, <2>10
  <1>. QED BY <1>3, <1>4

\* The parts of StreamOK.
LEMMA StreamParts ==
    ASSUME StreamInv, NEW c \in Ids, NEW s \in Sides
    PROVE  /\ recv[c][s] = <<>> /\ Ordered(handled[c][s]) /\ LastN(handled[c][s]) <= sent[c][Peer(s)]
           /\ Flows(wire[c][s], handled[c][s], sent[c][Peer(s)])
  BY DEF StreamInv, StreamOK, Ordered

\* HandleRead on the client.
LEMMA RunReadKeeps == ASSUME IndInv, RunRead PROVE IndInv'
  <1>0. StateOK /\ queue \in Seq(Handlers) /\ dials \in Nat
    BY Basics DEF IndInv
  <1>1. queue # <<>> /\ pc["client"] = "runs" /\ queue[1].kind = "read" /\ 1 \in DOMAIN queue /\ Head(queue) = queue[1]
    <2>1. queue # <<>> /\ pc["client"] = "runs" /\ Head(queue).kind = "read"
      BY DEF RunRead, Runs
    <2>. QED BY <1>0, <2>1
  <1>2. PICK c \in 1 .. dials : c = queue[1].c
    BY <1>1 DEF IndInv, ReadInv
  <1>3. c \in Ids /\ c \in 0 .. MaxConns
    BY <1>0, Basics
  <1>4. PICK ss \in Seq(Cell) : ss = queue[1].cells
    <2>1. queue[1] \in Handlers
      BY <1>0, <1>1
    <2>. QED BY <2>1, Zenon DEF Handlers
  <1>5. PICK hs \in Seq(Packet) : hs = handled[c]["client"]
    BY <1>0, <1>3, StreamTypes, TwoSides
  <1>6. PICK n \in Nat : n = sent[c]["server"]
    BY <1>0, <1>3, StreamTypes, TwoSides
  <1>7. PICK w \in Seq(Cell) : w = wire[c]["client"]
    BY <1>0, <1>3, StreamTypes, TwoSides
  <1>8. /\ c \notin reading /\ ss # <<>> /\ Flows(ss, hs, n)
        /\ \A i \in DOMAIN ss, j \in DOMAIN w : Less(ss[i], w[j])
        /\ \A j \in DOMAIN queue : queue[j].kind = "read" /\ queue[j].c = c => j = 1
    BY <1>1, <1>2, <1>4, <1>5, <1>6, <1>7 DEF IndInv, ReadInv, ReadOK
  <1>9. recv[c]["client"] = <<>> /\ Ordered(hs) /\ LastN(hs) <= n /\ Flows(w, hs, n)
    BY <1>3, <1>5, <1>6, <1>7, StreamParts, TwoSides DEF IndInv
  <1>10. recv[c]["client"] \o Head(queue).cells = ss
    BY <1>1, <1>4, <1>9
  <1>11. PICK p : p = ss[1].pkt /\ p = Head(ss).pkt
    BY <1>8
  <1>12. PICK next : next = IF c \in open THEN <<>> ELSE <<Failed(c)>>
    OBVIOUS
  <1>13. /\ Receives(c, "client", ss)
         /\ \/ /\ OnRecvData_(ss) = "handle" /\ OnRecvData(p.type)
               /\ queue' = Tail(queue) \o (IF Arms(p.type) THEN Cancelled ELSE <<>>) \o next
            \/ /\ OnRecvData_(ss) # "handle" /\ UNCHANGED <<is_login_, waits>>
               /\ queue' = Tail(queue) \o next
         /\ reading' = IF c \in open /\ pc'["client"] = "runs" THEN reading \cup {c} ELSE reading
         /\ UNCHANGED <<conn_, held, dialing, dials, open, broken, wire, sent>>
    BY <1>1, <1>2, <1>10, <1>11, <1>12 DEF RunRead
  <1>14. /\ recv' = recv /\ handled' \in [Ids -> [Sides -> Seq(Packet)]]
         /\ pc' \in [Sides -> {"runs", "ended"}] /\ \A t \in Sides : pc'[t] = "runs" => pc[t] = "runs"
         /\ \E h2 \in Seq(Packet) : Puts(handled, handled', c, "client", h2) /\ Took(ss, w, hs, n, h2)
    <2>1. "client" \in Sides /\ Receives(c, "client", ss)
      BY <1>13, TwoSides
    <2>2. hs = handled[c]["client"] /\ recv[c]["client"] = <<>>
      BY <1>5, <1>9
    <2>3. Fits(ss, w, hs, n)
      BY <1>8, <1>9 DEF Fits
    <2>. QED BY <1>0, <1>3, <2>1, <2>2, <2>3, ReceivesStream
  <1>15. PICK h2 \in Seq(Packet) :
            /\ Puts(handled, handled', c, "client", h2) /\ Flows(w, h2, n) /\ Ordered(h2) /\ LastN(h2) <= n
            /\ OnRecvData_(ss) # "handle" => h2 = hs
            /\ OnRecvData_(ss) = "handle" => h2 = Append(hs, p) /\ LastN(h2) = p.n /\ LastN(hs) < LastN(h2)
    BY <1>11, <1>14 DEF Took
  <1>16. /\ handled'[c]["client"] = h2 /\ \A b \in Ids : handled'[b]["server"] = handled[b]["server"]
         /\ \A b \in Ids : b # c => handled'[b]["client"] = handled[b]["client"]
    BY <1>3, <1>15, TwoSides DEF Puts
  <1>17. Failed(c) \in Handlers /\ Failed(c).kind = "failed" /\ Failed(c).c = c /\ Timer \in Handlers /\ Timer.kind = "timer"
    BY <1>3, PlainHandlers
  <1>18. PICK X : X = IF c \in open THEN {Timer} ELSE {Timer, Failed(c)}
    OBVIOUS
  <1>19. /\ X \in SUBSET Handlers
         /\ \A h \in X : h.kind \in {"timer", "failed"} /\ (h.kind = "failed" => h.c = c /\ c \notin open)
    BY <1>17, <1>18
  <1>20. Step(1, X)
    <2>1. Tailed(1, Tail(queue), X)
      BY <1>0, <1>1, TailedStart
    <2>2. next \in Seq(X)
      <3>1. CASE c \in open
        BY <1>12, <3>1
      <3>2. CASE c \notin open
        <4>1. next = <<Failed(c)>> /\ Failed(c) \in X
          BY <1>12, <1>18, <3>2
        <4>2. \A f \in X : <<f>> \in Seq(X)
          OBVIOUS
        <4>. QED BY <4>1, <4>2
      <3>. QED BY <3>1, <3>2
    <2>3. Cancelled \in Seq(X)
      <3>1. Seq({Timer}) \subseteq Seq(X)
        BY <1>18
      <3>. QED BY <1>0, <3>1, CancelledTimers
    <2>4. (IF Arms(p.type) THEN Cancelled ELSE <<>>) \in Seq(X)
      <3>1. <<>> \in Seq(X)
        OBVIOUS
      <3>. QED BY <2>3, <3>1, Zenon
    <2>5. PICK e \in Seq(X) : e = IF Arms(p.type) THEN Cancelled ELSE <<>>
      BY <2>4
    <2>6. Tailed(1, Tail(queue) \o e, X)
      BY <1>0, <1>1, <1>19, <2>1, TailedMore
    <2>7. Tailed(1, (Tail(queue) \o e) \o next, X) /\ Tailed(1, Tail(queue) \o next, X)
      BY <1>0, <1>1, <1>19, <2>1, <2>2, <2>6, TailedMore
    <2>8. queue' = (Tail(queue) \o e) \o next \/ queue' = Tail(queue) \o next
      BY <1>13, <2>5
    <2>. QED BY <1>1, <2>7, <2>8 DEF Step
  <1>21. StateOK'
    <2>1. queue' \in Seq(Handlers)
      BY <1>0, <1>20, QueuePlaces
    <2>2. reading' \in SUBSET (1 .. dials)
      BY <1>0, <1>13 DEF StateOK
    <2>3. is_login_' \in BOOLEAN
      <3>1. is_login_' = is_login_ \/ is_login_' = (is_login_ \/ p.type = "LOGIN_ACK")
        BY <1>13 DEF OnRecvData
      <3>. QED BY <1>0, <3>1, Zenon DEF StateOK
    <2>4. waits' \in 0 .. 1
      <3>1. waits' = waits \/ waits' = 1
        BY <1>13 DEF OnRecvData
      <3>. QED BY <1>0, <3>1 DEF StateOK
    <2>. QED BY <1>0, <1>13, <1>14, <2>1, <2>2, <2>3, <2>4 DEF StateOK
  <1>22. StreamInv'
    <2>1. ASSUME NEW b \in Ids, NEW s \in Sides PROVE StreamOK(b, s)'
      <3>1. CASE b = c /\ s = "client"
        BY <1>6, <1>7, <1>9, <1>13, <1>14, <1>15, <1>16, <3>1, TwoSides DEF StreamOK, Ordered
      <3>2. CASE b # c \/ s = "server"
        <4>1. handled'[b][s] = handled[b][s]
          BY <1>16, <3>2, TwoSides
        <4>. QED BY <1>13, <1>14, <4>1 DEF StreamOK, IndInv, StreamInv
      <3>. QED BY <3>1, <3>2, TwoSides
    <2>. QED BY <1>13, <1>16, <2>1 DEF StreamInv, IndInv
  <1>23. ReadInv'
    <2>1. ASSUME NEW g \in Handlers, g.kind = "read", ReadOK(g), Stays(1, "read", g.c) PROVE ReadOK(g)'
      <3>1. g.c \in Ids /\ g.c # c
        BY <1>0, <1>8, <2>1, Basics DEF Stays, IndInv, ReadInv
      <3>. QED BY <1>13, <1>16, <2>1, <3>1 DEF ReadOK
    <2>2. dials' \in Nat /\ dials' >= dials
      BY <1>0, <1>13
    <2>3. \A h \in X : h.kind # "read" /\ (h.kind # "timer" => h.c \in 1 .. dials')
      BY <1>13, <1>19
    <2>. QED BY <1>0, <1>20, <2>1, <2>2, <2>3, ReadKeeps DEF IndInv
  <1>24. DialInv'
    <2>1. \A e : Stays(1, "connected", e) => e \in Ids /\ e \notin reading \cup broken /\ e # c
      BY <1>1, <1>2, StaysConn
    <2>2. dialing' => held' = 0 /\ (dialing \/ held # 0)
      BY <1>13 DEF IndInv, DialInv
    <2>. QED BY <1>0, <1>13, <1>19, <1>20, <2>1, <2>2, DialKeeps DEF IndInv
  <1>25. AwaitInv'
    <2>1. ASSUME NEW e \in Ids, Awaits(e)' PROVE Awaits(e) /\ (e # c \/ c \in open)
      <3>1. CASE e # c
        <4>1. (\E i \in DOMAIN queue' : queue'[i].kind = "read" /\ queue'[i].c = e)
                 => \E i \in DOMAIN queue : queue[i].kind = "read" /\ queue[i].c = e
          BY <1>0, <1>19, <1>20, ReadsFrom
        <4>. QED BY <1>13, <1>16, <2>1, <3>1, <4>1 DEF Awaits
      <3>2. CASE e = c
        <4>1. hs = <<>>
          <5>1. h2 = <<>>
            BY <1>16, <2>1, <3>2 DEF Awaits
          <5>. QED BY <1>15, <5>1
        <4>2. Awaits(c)
          BY <1>1, <1>2, <1>5, <1>13, <2>1, <3>2, <4>1 DEF Awaits
        <4>3. ~(\E i \in DOMAIN queue' : queue'[i].kind = "read" /\ queue'[i].c = c)
          <5>1. SUFFICES ASSUME NEW i \in DOMAIN queue', queue'[i].kind = "read", queue'[i].c = c PROVE FALSE
            OBVIOUS
          <5>2. i + 1 \in DOMAIN queue /\ queue'[i] = queue[i + 1] /\ i \in Nat /\ i > 0
            <6>1. queue'[i] \notin X
              BY <1>19, <5>1
            <6>. QED BY <1>0, <1>20, <6>1, Origin, QueuePlaces
          <5>. QED BY <1>8, <5>1, <5>2
        <4>4. c \in open
          BY <1>8, <1>13, <2>1, <3>2, <4>3 DEF Awaits
        <4>. QED BY <3>2, <4>2, <4>4
      <3>. QED BY <3>1, <3>2
    <2>2. \A e \in Ids : Awaits(e)' =>
             /\ Awaits(e) /\ held' = held /\ conn_' = conn_ /\ (e \in broken' => e \in broken)
             /\ \A h \in X : h.kind = "failed" => h.c # e
      BY <1>13, <1>19, <2>1
    <2>. QED BY <1>0, <1>20, <2>2, AwaitKeeps DEF IndInv
  <1>26. LoginInv'
    <2>1. SUFFICES ASSUME is_login_'
                   PROVE  /\ conn_ = held /\ held # 0
                          /\ \E i \in DOMAIN handled'[held]["client"] : handled'[held]["client"][i].type = "LOGIN_ACK"
      BY <1>13 DEF LoginInv
    <2>2. CASE is_login_
      <3>1. PICK b : b = held
        OBVIOUS
      <3>2. conn_ = b /\ b # 0 /\ \E i \in DOMAIN handled[b]["client"] : handled[b]["client"][i].type = "LOGIN_ACK"
        BY <1>1, <2>2, <3>1 DEF IndInv, LoginInv
      <3>3. b \in Ids
        BY <1>0, <3>1, <3>2, Basics DEF StateOK
      <3>4. CASE b = c
        <4>1. PICK i \in DOMAIN hs : hs[i].type = "LOGIN_ACK"
          BY <1>5, <3>2, <3>4
        <4>2. i \in DOMAIN h2 /\ h2[i] = hs[i]
          BY <1>15, <4>1
        <4>. QED BY <1>16, <3>1, <3>2, <3>4, <4>1, <4>2
      <3>5. CASE b # c
        BY <1>16, <3>1, <3>2, <3>3, <3>5
      <3>. QED BY <3>4, <3>5
    <2>3. CASE ~is_login_
      <3>1. OnRecvData_(ss) = "handle" /\ p.type = "LOGIN_ACK"
        BY <1>13, <2>1, <2>3 DEF OnRecvData
      <3>2. 1 \in DOMAIN ss /\ ss[1] \in Cell
        BY <1>8
      <3>3. p.n = 1 /\ p.n <= n
        BY <1>8, <1>11, <3>1, <3>2 DEF Flows
      <3>4. LastN(hs) \in Nat /\ LastN(hs) < 1 /\ Len(hs) \in Nat /\ Len(hs) <= LastN(hs)
        BY <1>9, <1>15, <3>1, <3>3, LastNType DEF Ordered
      <3>5. hs = <<>>
        BY <3>4
      <3>6. n <= LastN(handled[c]["server"]) /\ LastN(handled[c]["server"]) <= sent[c]["client"]
        <4>1. n <= LastN(handled[c]["server"])
          BY <1>3, <1>6 DEF IndInv, StreamInv
        <4>. QED BY <1>3, <4>1, StreamParts, TwoSides DEF IndInv
      <3>7. LastN(handled[c]["server"]) \in Nat /\ sent[c]["client"] \in Nat
        BY <1>0, <1>3, StreamTypes, TwoSides
      <3>8. sent[c]["client"] > 0
        BY <3>3, <3>6, <3>7
      <3>9. Awaits(c)
        BY <1>1, <1>2, <1>5, <3>5, <3>8 DEF Awaits
      <3>10. c = held /\ c = conn_
        BY <1>3, <3>9 DEF IndInv, AwaitInv
      <3>11. 1 \in DOMAIN h2 /\ h2[1] = p
        BY <1>15, <3>1, <3>5
      <3>. QED BY <1>0, <1>3, <1>16, <3>1, <3>10, <3>11, Basics
    <2>. QED BY <2>2, <2>3
  <1>. QED BY <1>21, <1>22, <1>23, <1>24, <1>25, <1>26 DEF IndInv

-----------------------------------------------------------------------------
(* The server.                                                             *)

\* What the server answers.
LEMMA Answers ==
    ASSUME NEW type
    PROVE  \/ Answer(type) = <<>>
           \/ \E a \in {"LOGIN_ACK", "KEEPALIVE_ACK"} : Answer(type) = <<a>> /\ (a = "LOGIN_ACK" => type = "LOGIN")
  BY DEF Answer

\* The cells g were sent before the cells w.
Precedes(g, w) == \A i \in DOMAIN g, j \in DOMAIN w : Less(g[i], w[j])

\* An answer of the server comes last on its stream, and after what was read.
LEMMA AnswerFlows ==
    ASSUME NEW w \in Seq(Cell), NEW hs \in Seq(Packet), NEW k \in Nat, Flows(w, hs, k), LastN(hs) <= k,
           NEW p \in Packet, p.n = k + 1, p.type \in {"LOGIN", "LOGIN_ACK"} => k = 0,
           NEW x, x = w \o cereal_serialize(p)
    PROVE  /\ x \in Seq(Cell) /\ Flows(x, hs, k + 1)
           /\ \A g \in Seq(Cell) : Flows(g, hs, k) /\ Precedes(g, w) => Precedes(g, x)
  <1>1. /\ x \in Seq(Cell) /\ Flows(x, hs, k + 1)
        /\ \A y \in Cell : y.pkt.n <= k =>
              \A j \in DOMAIN x : (j \in DOMAIN w /\ x[j] = w[j]) \/ Less(y, x[j])
    BY FlowsSent
  <1>2. ASSUME NEW g \in Seq(Cell), Flows(g, hs, k), Precedes(g, w),
               NEW i \in DOMAIN g, NEW j \in DOMAIN x
        PROVE  Less(g[i], x[j])
    <2>1. g[i] \in Cell /\ g[i].pkt.n <= k
      BY <1>2 DEF Flows
    <2>. QED BY <1>1, <1>2, <2>1 DEF Precedes
  <1>. QED BY <1>1, <1>2 DEF Precedes

\* HandleRead on the server.
LEMMA ServerReadsKeeps == ASSUME IndInv, NEW c \in Ids, ServerReads(c) PROVE IndInv'
  <1>0. StateOK /\ queue \in Seq(Handlers) /\ dials \in Nat
    BY Basics DEF IndInv
  <1>1. UNCHANGED <<is_login_, conn_, waits, held, dialing, queue, dials, open, broken, reading>>
    BY DEF ServerReads, session, sockets
  <1>2. PICK w \in Seq(Cell) : w = wire[c]["server"]
    BY <1>0, StreamTypes, TwoSides
  <1>3. PICK hs \in Seq(Packet) : hs = handled[c]["server"]
    BY <1>0, StreamTypes, TwoSides
  <1>4. PICK m \in Nat : m = sent[c]["client"] /\ m <= MaxPackets
    BY <1>0, StreamTypes, TwoSides, PartsAssumption
  <1>5. PICK k \in Nat : k = sent[c]["server"]
    BY <1>0, StreamTypes, TwoSides
  <1>6. PICK cw \in Seq(Cell) : cw = wire[c]["client"]
    BY <1>0, StreamTypes, TwoSides
  <1>7. PICK ch \in Seq(Packet) : ch = handled[c]["client"]
    BY <1>0, StreamTypes, TwoSides
  <1>8. recv[c]["server"] = <<>> /\ Ordered(hs) /\ LastN(hs) <= m /\ Flows(w, hs, m)
    BY <1>2, <1>3, <1>4, StreamParts, TwoSides DEF IndInv
  <1>9. recv[c]["client"] = <<>> /\ Ordered(ch) /\ LastN(ch) <= k /\ Flows(cw, ch, k)
    BY <1>5, <1>6, <1>7, StreamParts, TwoSides DEF IndInv
  <1>10. k <= LastN(hs)
    BY <1>3, <1>5 DEF IndInv, StreamInv
  <1>11. PICK n \in 1 .. Len(w) :
           LET ss  == recv[c]["server"] \o SubSeq(w, 1, n)
               out == IF OnRecvData_(ss) = "handle" /\ c \in open
                      THEN Answer(Head(ss).pkt.type) ELSE <<>>
               no  == k + Len(out)
           IN /\ Receives(c, "server", ss)
              /\ sent' = [sent EXCEPT ![c]["server"] = no]
              /\ wire' = [wire EXCEPT
                    ![c]["server"] = SubSeq(w, n + 1, Len(w)),
                    ![c]["client"] = IF out = <<>> THEN @
                                     ELSE @ \o cereal_serialize([type |-> out[1], n |-> no])]
    BY <1>2, <1>5, ZenonT(40) DEF ServerReads
  <1>12. PICK a : a = SubSeq(w, 1, n)
    OBVIOUS
  <1>13. PICK b : b = SubSeq(w, n + 1, Len(w))
    OBVIOUS
  <1>14. /\ a \in Seq(Cell) /\ a # <<>> /\ b \in Seq(Cell) /\ Flows(a, hs, m) /\ Flows(b, hs, m)
         /\ \A i \in DOMAIN a, j \in DOMAIN b : Less(a[i], b[j])
    BY <1>8, <1>12, <1>13, FlowsCut
  <1>15. recv[c]["server"] \o SubSeq(w, 1, n) = a /\ 1 \in DOMAIN a /\ a[1] \in Cell /\ Head(a) = a[1]
    BY <1>8, <1>12, <1>14
  <1>16. PICK p : p = a[1].pkt /\ p = Head(a).pkt
    BY <1>15
  <1>17. PICK out : out = IF OnRecvData_(a) = "handle" /\ c \in open THEN Answer(p.type) ELSE <<>>
    OBVIOUS
  <1>18. PICK no : no = k + Len(out)
    OBVIOUS
  <1>19. PICK x : x = IF out = <<>> THEN cw ELSE cw \o cereal_serialize([type |-> out[1], n |-> no])
    OBVIOUS
  <1>20. /\ Receives(c, "server", a)
         /\ sent' = [sent EXCEPT ![c]["server"] = no]
         /\ wire' = [wire EXCEPT ![c]["server"] = b, ![c]["client"] = x]
    BY <1>6, <1>11, <1>13, <1>15, <1>16, <1>17, <1>18, <1>19
  <1>21. /\ recv' = recv /\ handled' \in [Ids -> [Sides -> Seq(Packet)]]
         /\ pc' \in [Sides -> {"runs", "ended"}] /\ \A t \in Sides : pc'[t] = "runs" => pc[t] = "runs"
         /\ \E h2 \in Seq(Packet) : Puts(handled, handled', c, "server", h2) /\ Took(a, b, hs, m, h2)
    <2>1. "server" \in Sides /\ Receives(c, "server", a)
      BY <1>20, TwoSides
    <2>2. hs = handled[c]["server"] /\ recv[c]["server"] = <<>>
      BY <1>3, <1>8
    <2>3. Fits(a, b, hs, m)
      BY <1>8, <1>14 DEF Fits
    <2>. QED BY <1>0, <1>14, <2>1, <2>2, <2>3, ReceivesStream
  <1>22. PICK h2 \in Seq(Packet) :
            /\ Puts(handled, handled', c, "server", h2) /\ Flows(b, h2, m) /\ Ordered(h2) /\ LastN(h2) <= m
            /\ OnRecvData_(a) # "handle" => h2 = hs
            /\ OnRecvData_(a) = "handle" => h2 = Append(hs, p) /\ LastN(h2) = p.n /\ LastN(hs) < LastN(h2)
    BY <1>16, <1>21 DEF Took
  <1>23. /\ handled'[c]["server"] = h2 /\ \A e \in Ids : handled'[e]["client"] = handled[e]["client"]
         /\ \A e \in Ids : e # c => handled'[e]["server"] = handled[e]["server"]
    BY <1>22, TwoSides DEF Puts
  <1>24. LastN(h2) \in Nat /\ LastN(hs) \in Nat /\ LastN(ch) \in Nat
    BY LastNType
  <1>25. /\ no \in Nat /\ k <= no /\ no <= LastN(h2) /\ x \in Seq(Cell) /\ Flows(x, ch, no)
         /\ \A g \in Seq(Cell) : Flows(g, ch, k) /\ Precedes(g, cw) => Precedes(g, x)
    <2>1. CASE out = <<>>
      <3>1. no = k /\ x = cw
        BY <1>18, <1>19, <2>1
      <3>2. k <= LastN(h2)
        BY <1>10, <1>22, <1>24
      <3>. QED BY <1>9, <3>1, <3>2
    <2>2. CASE out # <<>>
      <3>1. OnRecvData_(a) = "handle" /\ out = Answer(p.type)
        BY <1>17, <2>2
      <3>2. PICK t \in {"LOGIN_ACK", "KEEPALIVE_ACK"} : out = <<t>> /\ (t = "LOGIN_ACK" => p.type = "LOGIN")
        BY <2>2, <3>1, Answers
      <3>3. no = k + 1 /\ x = cw \o cereal_serialize([type |-> t, n |-> k + 1])
        BY <1>18, <1>19, <2>2, <3>2
      <3>4. k + 1 <= LastN(h2) /\ k + 1 <= MaxPackets
        BY <1>4, <1>10, <1>22, <1>24, <3>1, PartsAssumption, SMTT(30)
      <3>5. t = "LOGIN_ACK" => k = 0
        <4>1. SUFFICES ASSUME t = "LOGIN_ACK" PROVE k = 0
          OBVIOUS
        <4>2. p.n = 1
          BY <1>14, <1>15, <1>16, <3>2, <4>1 DEF Flows
        <4>. QED BY <1>10, <1>22, <1>24, <3>1, <4>2
      <3>6. /\ x \in Seq(Cell) /\ Flows(x, ch, k + 1)
            /\ \A g \in Seq(Cell) : Flows(g, ch, k) /\ Precedes(g, cw) => Precedes(g, x)
        <4>1. PICK q : q = [type |-> t, n |-> k + 1]
          OBVIOUS
        <4>2. q \in Packet /\ q.n = k + 1 /\ q.type = t
          <5>1. k + 1 \in 1 .. MaxPackets
            BY <3>4, PartsAssumption
          <5>. QED BY <4>1, <5>1 DEF Packet, Types
        <4>3. x = cw \o cereal_serialize(q)
          BY <3>3, <4>1
        <4>4. q.type \in {"LOGIN", "LOGIN_ACK"} => k = 0
          BY <3>5, <4>2
        <4>. QED BY <1>9, <4>2, <4>3, <4>4, AnswerFlows
      <3>. QED BY <3>3, <3>4, <3>6
    <2>. QED BY <2>1, <2>2
  <1>26. no \in 0 .. MaxPackets
    BY <1>4, <1>22, <1>24, <1>25, PartsAssumption, SMTT(30)
  <1>27. /\ sent' \in [Ids -> [Sides -> 0 .. MaxPackets]] /\ sent'[c]["server"] = no
         /\ \A e \in Ids : sent'[e]["client"] = sent[e]["client"] /\ (e # c => sent'[e]["server"] = sent[e]["server"])
    <2>1. sent \in [Ids -> [Sides -> 0 .. MaxPackets]]
      BY <1>0 DEF StateOK
    <2>. QED BY <1>20, <1>26, <2>1, TwoSides
  <1>28. /\ wire' \in [Ids -> [Sides -> Seq(Cell)]] /\ wire'[c]["server"] = b /\ wire'[c]["client"] = x
         /\ \A e \in Ids, s \in Sides : e # c => wire'[e][s] = wire[e][s]
    <2>1. wire \in [Ids -> [Sides -> Seq(Cell)]]
      BY <1>0 DEF StateOK
    <2>2. PICK g : g = [wire EXCEPT ![c]["server"] = b]
      OBVIOUS
    <2>3. g \in [Ids -> [Sides -> Seq(Cell)]] /\ Puts(wire, g, c, "server", b)
      BY <1>14, <2>1, <2>2, TwoSides DEF Puts
    <2>4. wire' = [g EXCEPT ![c]["client"] = x]
      BY <1>20, <2>2
    <2>5. PICK v : v = wire'
      OBVIOUS
    <2>6. v \in [Ids -> [Sides -> Seq(Cell)]] /\ Puts(g, v, c, "client", x)
      BY <1>25, <2>3, <2>4, <2>5, TwoSides DEF Puts
    <2>. QED BY <2>3, <2>5, <2>6, TwoSides DEF Puts
  <1>29. StateOK'
    BY <1>0, <1>1, <1>21, <1>27, <1>28 DEF StateOK
  <1>30. StreamInv'
    <2>1. ASSUME NEW e \in Ids, NEW s \in Sides PROVE StreamOK(e, s)'
      <3>1. CASE e = c /\ s = "server"
        BY <1>4, <1>8, <1>21, <1>22, <1>23, <1>27, <1>28, <3>1, TwoSides, SMTT(30) DEF StreamOK, Ordered
      <3>2. CASE e = c /\ s = "client"
        <4>1. LastN(ch) <= no
          BY <1>9, <1>24, <1>25
        <4>. QED BY <1>7, <1>9, <1>21, <1>23, <1>25, <1>27, <1>28, <3>2, <4>1, TwoSides DEF StreamOK, Ordered
      <3>3. CASE e # c
        <4>1. /\ handled'[e][s] = handled[e][s] /\ wire'[e][s] = wire[e][s]
              /\ sent'[e][Peer(s)] = sent[e][Peer(s)]
          BY <1>23, <1>27, <1>28, <3>3, TwoSides
        <4>. QED BY <1>21, <4>1 DEF StreamOK, IndInv, StreamInv
      <3>. QED BY <3>1, <3>2, <3>3, TwoSides
    <2>2. ASSUME NEW e \in Ids PROVE sent'[e]["server"] <= LastN(handled'[e]["server"])
      <3>1. CASE e = c
        BY <1>23, <1>25, <1>27, <3>1
      <3>2. CASE e # c
        BY <1>23, <1>27, <3>2 DEF IndInv, StreamInv
      <3>. QED BY <3>1, <3>2
    <2>. QED BY <2>1, <2>2 DEF StreamInv
  <1>31. Step(0, {})
    <2>1. Tailed(0, queue, {})
      BY <1>0, TailedStart
    <2>. QED BY <1>1, <2>1 DEF Step
  <1>32. ReadInv'
    <2>1. ASSUME NEW g \in Handlers, g.kind = "read", ReadOK(g), Stays(0, "read", g.c) PROVE ReadOK(g)'
      <3>1. g.c \in Ids
        BY <1>0, <2>1, Basics DEF Stays, IndInv, ReadInv
      <3>2. CASE g.c # c
        BY <1>1, <1>23, <1>27, <1>28, <2>1, <3>1, <3>2, TwoSides DEF ReadOK
      <3>3. CASE g.c = c
        <4>1. PICK y \in Seq(Cell) : y = g.cells
          BY Zenon DEF Handlers
        <4>2. /\ c \notin reading /\ y # <<>> /\ Flows(y, ch, k)
              /\ Precedes(y, cw)
          BY <1>5, <1>6, <1>7, <2>1, <3>3, <4>1 DEF ReadOK, Precedes
        <4>3. Flows(y, ch, no)
          BY <1>25, <4>2, FlowsMore
        <4>4. Precedes(y, x)
          BY <1>25, <4>2
        <4>. QED BY <1>1, <1>7, <1>23, <1>27, <1>28, <3>3, <4>1, <4>2, <4>3, <4>4 DEF ReadOK, Precedes
      <3>. QED BY <3>2, <3>3
    <2>2. dials' \in Nat /\ dials' >= dials
      BY <1>0, <1>1
    <2>3. PICK X : X = {}
      OBVIOUS
    <2>4. Step(0, X) /\ \A h \in X : FALSE
      BY <1>31, <2>3
    <2>. QED BY <1>0, <2>1, <2>2, <2>4, ReadKeeps DEF IndInv
  <1>33. DialInv'
    <2>1. \A e : Stays(0, "connected", e) => e \in Ids
      BY StaysConn
    <2>2. dialing' => held' = 0 /\ (dialing \/ held # 0)
      BY <1>1 DEF IndInv, DialInv
    <2>3. PICK X : X = {}
      OBVIOUS
    <2>4. Step(0, X) /\ \A h \in X : FALSE
      BY <1>31, <2>3
    <2>. QED BY <1>0, <1>1, <1>27, <2>1, <2>2, <2>4, DialKeeps DEF IndInv
  <1>34. AwaitInv'
    <2>1. \A e \in Ids : Awaits(e)' => Awaits(e)
      BY <1>1, <1>23, <1>27 DEF Awaits
    <2>2. PICK X : X = {}
      OBVIOUS
    <2>3. Step(0, X) /\ \A h \in X : FALSE
      BY <1>31, <2>2
    <2>. QED BY <1>0, <1>1, <2>1, <2>3, AwaitKeeps DEF IndInv
  <1>35. LoginInv'
    <2>1. SUFFICES ASSUME pc'["client"] = "runs", is_login_'
                   PROVE  /\ conn_ = held /\ held # 0
                          /\ \E i \in DOMAIN handled'[held]["client"] : handled'[held]["client"][i].type = "LOGIN_ACK"
      BY <1>1 DEF LoginInv
    <2>2. /\ conn_ = held /\ held # 0
          /\ \E i \in DOMAIN handled[held]["client"] : handled[held]["client"][i].type = "LOGIN_ACK"
      BY <1>1, <1>21, <2>1, TwoSides DEF IndInv, LoginInv
    <2>3. held \in Ids
      BY <1>0, <2>2, Basics DEF StateOK
    <2>4. handled'[held]["client"] = handled[held]["client"]
      BY <1>23, <2>3
    <2>. QED BY <2>2, <2>4
  <1>. QED BY <1>29, <1>30, <1>32, <1>33, <1>34, <1>35 DEF IndInv

-----------------------------------------------------------------------------
(* The invariant and the theorems.                                         *)

\* No packet has been sent at first.
LEMMA InitHolds == ASSUME Init PROVE IndInv
  <1>1. /\ is_login_ = FALSE /\ conn_ = 0 /\ waits = 0 /\ held = 0 /\ dialing = TRUE
        /\ queue = <<>> /\ dials = 0 /\ open = {} /\ broken = {} /\ reading = {}
        /\ \A c \in Ids, s \in Sides : /\ wire[c][s] = <<>> /\ recv[c][s] = <<>> /\ handled[c][s] = <<>>
                                       /\ sent[c][s] = 0
    BY DEF Init
  <1>2. StateOK
    <2>1. is_login_ \in BOOLEAN /\ dialing \in BOOLEAN
      BY <1>1, Zenon
    <2>2. waits \in 0 .. 1 /\ dials \in 0 .. MaxConns /\ conn_ \in 0 .. dials /\ held \in 0 .. dials
      BY <1>1, PartsAssumption
    <2>3. queue \in Seq(Handlers)
      BY <1>1
    <2>4. wire \in [Ids -> [Sides -> Seq(Cell)]] /\ recv \in [Ids -> [Sides -> Seq(Cell)]]
      BY DEF Init
    <2>5. handled \in [Ids -> [Sides -> Seq(Packet)]]
      BY DEF Init
    <2>6. sent \in [Ids -> [Sides -> 0 .. MaxPackets]]
      BY PartsAssumption DEF Init
    <2>7. pc \in [Sides -> {"runs", "ended"}]
      BY DEF Init
    <2>. QED BY <1>1, <2>1, <2>2, <2>3, <2>4, <2>5, <2>6, <2>7 DEF StateOK
  <1>3. StreamInv
    <2>1. \A s \in Sides : Peer(s) \in Sides
      BY TwoSides
    <2>2. LastN(<<>>) = 0 /\ Len(<<>>) = 0 /\ DOMAIN (<<>>) = {}
      BY DEF LastN
    <2>. QED BY <1>1, <2>1, <2>2, TwoSides DEF StreamInv, StreamOK, Flows
  <1>4. DOMAIN queue = {}
    BY <1>1
  <1>. QED BY <1>1, <1>2, <1>3, <1>4, TwoSides DEF IndInv, ReadInv, DialInv, AwaitInv, Awaits, LoginInv

\* Every step keeps the invariant.
LEMMA NextKeeps == ASSUME IndInv, [Next]_vars PROVE IndInv'
  <1>1. CASE UNCHANGED vars
    <2>1. /\ UNCHANGED <<is_login_, conn_, waits, held, dialing>> /\ UNCHANGED queue
          /\ UNCHANGED <<dials, open, broken, reading>> /\ UNCHANGED <<wire, recv, sent, handled>> /\ UNCHANGED pc
      BY <1>1 DEF vars, session, sockets, streams
    <2>2. StateOK'
      BY <2>1 DEF IndInv, StateOK
    <2>3. StreamInv'
      BY <2>1, SameStreams DEF IndInv, streams
    <2>4. ReadInv' /\ DialInv'
      BY <2>1 DEF IndInv, ReadInv, ReadOK, DialInv
    <2>5. AwaitInv' /\ LoginInv'
      BY <2>1 DEF IndInv, AwaitInv, Awaits, LoginInv
    <2>. QED BY <2>2, <2>3, <2>4, <2>5 DEF IndInv
  <1>2. CASE Dialed
    BY <1>2, DialedKeeps
  <1>3. CASE TimerFires
    BY <1>3, TimerFiresKeeps
  <1>4. CASE RunLoop
    BY <1>4, RunConnectedKeeps, RunFailedKeeps, RunReadKeeps, RunTimerKeeps DEF RunLoop
  <1>5. ASSUME NEW c \in Ids, Delivers(c) \/ Breaks(c) \/ ServerReads(c) PROVE IndInv'
    BY <1>5, DeliversKeeps, BreaksKeeps, ServerReadsKeeps
  <1>. QED BY <1>1, <1>2, <1>3, <1>4, <1>5 DEF Next

\* The invariant of Packets.
LEMMA Invariance == Spec => []IndInv
  BY InitHolds, NextKeeps, PTL DEF Spec

\* Packets are handled in the order they were sent and none twice, on either
\* side and however the reads cut the streams: OnRecvData_ leaves nothing in the
\* buffer, so a cell that is read comes after all that was handled.
THEOREM InOrderTheorem == Spec => []InOrder
  <1>1. IndInv => InOrder
    BY DEF IndInv, StreamInv, StreamOK, InOrder
  <1>. QED BY <1>1, Invariance, PTL

\* The client takes itself to be logged in only on the connection it sends on,
\* which TCPClient holds and where the server acknowledged the login: OnLoginAck
\* never runs for a connection whose end HandleClose has already reported.
THEOREM LoginFreshTheorem == Spec => []LoginFresh
  <1>1. ASSUME IndInv PROVE LoginFresh
    <2>1. SUFFICES ASSUME pc["client"] = "runs", is_login_
                   PROVE  conn_ = held /\ held # 0 /\ \E a \in LoginAcks : a[1] = held
      BY DEF LoginFresh
    <2>2. StateOK
      BY <1>1 DEF IndInv
    <2>3. conn_ = held /\ held # 0
      BY <1>1, <2>1 DEF IndInv, LoginInv
    <2>4. PICK c \in Ids : c = held
      BY <2>2, <2>3, Basics DEF StateOK
    <2>5. PICK i \in DOMAIN handled[c]["client"] : handled[c]["client"][i].type = "LOGIN_ACK"
      BY <1>1, <2>1, <2>4 DEF IndInv, LoginInv
    <2>6. /\ handled[c]["client"] \in Seq(Packet) /\ sent[c]["server"] \in 0 .. MaxPackets
          /\ LastN(handled[c]["client"]) \in Nat
      BY <2>2, StreamTypes, TwoSides
    <2>7. Len(handled[c]["client"]) <= LastN(handled[c]["client"]) /\ LastN(handled[c]["client"]) <= sent[c]["server"]
      BY <1>1, StreamParts, TwoSides DEF IndInv, Ordered
    <2>8. i \in 1 .. MaxPackets
      BY <2>5, <2>6, <2>7, PartsAssumption
    <2>9. <<c, i>> \in LoginAcks /\ <<c, i>>[1] = held
      BY <2>4, <2>5, <2>8 DEF LoginAcks
    <2>. QED BY <2>3, <2>9
  <1>. QED BY <1>1, Invariance, PTL

-----------------------------------------------------------------------------
(* The chains of keep-alives.                                              *)

\* The handlers of the timer in the queue q; they belong to no connection.
Ticks(q) == {i \in DOMAIN q : q[i].kind = "timer"}
Timed(q) == \A i \in Ticks(q) : q[i].c = 0

\* They are finitely many.
LEMMA TicksFinite ==
    ASSUME NEW q \in Seq(Handlers)
    PROVE  IsFiniteSet(Ticks(q)) /\ Cardinality(Ticks(q)) \in Nat
  <1>1. IsFiniteSet(1 .. Len(q)) /\ Ticks(q) \in SUBSET (1 .. Len(q))
    BY FS_Interval DEF Ticks
  <1>2. IsFiniteSet(Ticks(q))
    BY <1>1, FS_Subset
  <1>. QED BY <1>2, FS_CardinalityType

\* A handler is posted.
LEMMA TicksAppend ==
    ASSUME NEW q \in Seq(Handlers), NEW h \in Handlers, Timed(q), h.kind = "timer" => h.c = 0
    PROVE  /\ Append(q, h) \in Seq(Handlers) /\ Timed(Append(q, h))
           /\ h.kind = "timer" => Cardinality(Ticks(Append(q, h))) = Cardinality(Ticks(q)) + 1
           /\ h.kind # "timer" => Cardinality(Ticks(Append(q, h))) = Cardinality(Ticks(q))
  <1>1. PICK p : p = Append(q, h)
    OBVIOUS
  <1>2. /\ p \in Seq(Handlers) /\ DOMAIN p = 1 .. Len(q) + 1 /\ DOMAIN q = 1 .. Len(q) /\ Len(q) \in Nat
        /\ p[Len(q) + 1] = h /\ \A i \in DOMAIN q : p[i] = q[i]
    BY <1>1
  <1>3. Timed(p)
    BY <1>2 DEF Timed, Ticks
  <1>4. h.kind # "timer" => Ticks(p) = Ticks(q)
    BY <1>2 DEF Ticks
  <1>5. ASSUME h.kind = "timer" PROVE Cardinality(Ticks(p)) = Cardinality(Ticks(q)) + 1
    <2>1. Ticks(p) = Ticks(q) \cup {Len(q) + 1} /\ Len(q) + 1 \notin Ticks(q)
      BY <1>2, <1>5 DEF Ticks
    <2>2. PICK S : S = Ticks(q)
      OBVIOUS
    <2>3. IsFiniteSet(S)
      BY <2>2, TicksFinite
    <2>4. Cardinality(S \cup {Len(q) + 1}) = Cardinality(S) + 1
      BY <2>1, <2>2, <2>3, FS_AddElement
    <2>. QED BY <2>1, <2>2, <2>4
  <1>. QED BY <1>1, <1>2, <1>3, <1>4, <1>5

\* The first handler leaves.
LEMMA TicksTail ==
    ASSUME NEW q \in Seq(Handlers), q # <<>>, Timed(q)
    PROVE  /\ Tail(q) \in Seq(Handlers) /\ Timed(Tail(q))
           /\ q[1].kind = "timer" => Cardinality(Ticks(Tail(q))) = Cardinality(Ticks(q)) - 1
           /\ q[1].kind # "timer" => Cardinality(Ticks(Tail(q))) = Cardinality(Ticks(q))
  <1>1. PICK p : p = Tail(q)
    OBVIOUS
  <1>2. /\ p \in Seq(Handlers) /\ DOMAIN p = 1 .. Len(q) - 1 /\ DOMAIN q = 1 .. Len(q) /\ Len(q) \in Nat
        /\ Len(q) > 0 /\ \A i \in 1 .. Len(q) - 1 : p[i] = q[i + 1]
    BY <1>1
  <1>3. Timed(p)
    BY <1>2, SMTT(30) DEF Timed, Ticks
  <1>4. PICK S : S = Ticks(q)
    OBVIOUS
  <1>5. PICK T : T = Ticks(p)
    OBVIOUS
  <1>6. S \subseteq 1 .. Len(q) /\ T \subseteq 1 .. Len(q) - 1 /\ \A i \in 1 .. Len(q) - 1 : i \in T <=> i + 1 \in S
    BY <1>2, <1>4, <1>5 DEF Ticks
  <1>7. IsFiniteSet(S) /\ IsFiniteSet(T)
    BY <1>2, <1>4, <1>5, TicksFinite
  <1>8. Cardinality(T) = Cardinality(S \ {1})
    <2>. DEFINE f == [i \in T |-> i + 1]
    <2>1. f \in [T -> S \ {1}]
      BY <1>2, <1>6
    <2>2. \A i, j \in T : i # j => f[i] # f[j]
      BY <1>2, <1>6
    <2>3. \A k \in S \ {1} : \E i \in T : f[i] = k
      <3>1. ASSUME NEW k \in S \ {1} PROVE k - 1 \in T /\ f[k - 1] = k
        BY <1>2, <1>6
      <3>. QED BY <3>1
    <2>4. f \in Bijection(T, S \ {1})
      BY <2>1, <2>2, <2>3 DEF Bijection, Injection, Surjection, IsInjective
    <2>5. ExistsBijection(T, S \ {1})
      BY <2>4 DEF ExistsBijection
    <2>. QED BY <1>7, <2>5, FS_Bijection
  <1>9. Cardinality(S \ {1}) = IF 1 \in S THEN Cardinality(S) - 1 ELSE Cardinality(S)
    BY <1>7, FS_RemoveElement
  <1>10. 1 \in S <=> q[1].kind = "timer"
    BY <1>2, <1>4 DEF Ticks
  <1>. QED BY <1>1, <1>2, <1>3, <1>4, <1>5, <1>8, <1>9, <1>10

\* The answers to a Login among the packets h.
Acks(h) == {a \in Ids \X (1 .. MaxPackets) :
               a[2] \in DOMAIN h[a[1]]["client"] /\ h[a[1]]["client"][a[2]].type = "LOGIN_ACK"}

\* They are finitely many.
LEMMA AcksFinite == \A h : IsFiniteSet(Acks(h)) /\ Cardinality(Acks(h)) \in Nat
  <1>1. ASSUME NEW h PROVE IsFiniteSet(Acks(h)) /\ Cardinality(Acks(h)) \in Nat
    <2>1. IsFiniteSet(Ids) /\ IsFiniteSet(1 .. MaxPackets)
      BY FS_Interval, PartsAssumption DEF Ids
    <2>2. IsFiniteSet(Ids \X (1 .. MaxPackets))
      BY <2>1, FS_Product
    <2>3. Acks(h) \in SUBSET (Ids \X (1 .. MaxPackets))
      BY DEF Acks
    <2>4. IsFiniteSet(Acks(h))
      BY <2>2, <2>3, FS_Subset
    <2>. QED BY <2>4, FS_CardinalityType
  <1>. QED BY <1>1

\* The client handles a packet.
LEMMA AcksMore ==
    ASSUME NEW f, NEW g, NEW c \in Ids, NEW hs \in Seq(Packet), hs = f[c]["client"], NEW p \in Packet,
           Puts(f, g, c, "client", Append(hs, p)), Len(hs) + 1 <= MaxPackets
    PROVE  /\ p.type = "LOGIN_ACK" => Cardinality(Acks(g)) = Cardinality(Acks(f)) + 1
           /\ p.type # "LOGIN_ACK" => Acks(g) = Acks(f)
  <1>0. PICK ap : ap = Append(hs, p)
    OBVIOUS
  <1>1. /\ DOMAIN ap = 1 .. Len(hs) + 1 /\ DOMAIN hs = 1 .. Len(hs) /\ Len(hs) \in Nat
        /\ ap[Len(hs) + 1] = p /\ \A i \in 1 .. Len(hs) : ap[i] = hs[i]
    BY <1>0
  <1>2. g[c]["client"] = ap /\ \A b \in Ids : b # c => g[b]["client"] = f[b]["client"]
    BY <1>0, TwoSides DEF Puts
  <1>3. Len(hs) + 1 \in 1 .. MaxPackets
    BY <1>1, PartsAssumption
  <1>4. \A h, b, i : <<b, i>> \in Acks(h) <=>
           b \in Ids /\ i \in 1 .. MaxPackets /\ i \in DOMAIN h[b]["client"] /\ h[b]["client"][i].type = "LOGIN_ACK"
    BY DEF Acks
  <1>5. \A h : Acks(h) \subseteq Ids \X (1 .. MaxPackets)
    BY DEF Acks
  <1>6. ASSUME NEW b \in Ids, NEW i \in 1 .. MaxPackets
        PROVE  <<b, i>> \in Acks(g) <=> \/ <<b, i>> \in Acks(f)
                                        \/ p.type = "LOGIN_ACK" /\ b = c /\ i = Len(hs) + 1
    <2>1. CASE b # c
      BY <1>2, <1>4, <2>1
    <2>2. CASE b = c
      <3>1. <<c, i>> \in Acks(g) <=> i \in 1 .. Len(hs) + 1 /\ ap[i].type = "LOGIN_ACK"
        BY <1>1, <1>2, <1>4
      <3>2. <<c, i>> \in Acks(f) <=> i \in 1 .. Len(hs) /\ hs[i].type = "LOGIN_ACK"
        BY <1>1, <1>4
      <3>3. CASE i = Len(hs) + 1
        BY <1>1, <2>2, <3>1, <3>2, <3>3
      <3>4. CASE i # Len(hs) + 1
        <4>1. i \in 1 .. Len(hs) + 1 <=> i \in 1 .. Len(hs)
          BY <1>1, <3>4
        <4>. QED BY <1>1, <2>2, <3>1, <3>2, <3>4, <4>1
      <3>. QED BY <3>3, <3>4
    <2>. QED BY <2>1, <2>2
  <1>7. ASSUME p.type # "LOGIN_ACK" PROVE Acks(g) = Acks(f)
    <2>1. \A b \in Ids, i \in 1 .. MaxPackets : <<b, i>> \in Acks(g) <=> <<b, i>> \in Acks(f)
      BY <1>6, <1>7
    <2>2. \A a \in Ids \X (1 .. MaxPackets) : a \in Acks(g) <=> a \in Acks(f)
      BY <2>1
    <2>. QED BY <1>5, <2>2
  <1>8. ASSUME p.type = "LOGIN_ACK" PROVE Cardinality(Acks(g)) = Cardinality(Acks(f)) + 1
    <2>1. PICK a : a = <<c, Len(hs) + 1>>
      OBVIOUS
    <2>2. a \notin Acks(f)
      BY <1>1, <1>4, <2>1
    <2>3. Acks(g) = Acks(f) \cup {a}
      BY <1>3, <1>5, <1>6, <1>8, <2>1
    <2>4. PICK S : S = Acks(f)
      OBVIOUS
    <2>5. Cardinality(S \cup {a}) = Cardinality(S) + 1
      BY <2>2, <2>4, AcksFinite, FS_AddElement
    <2>. QED BY <2>3, <2>4, <2>5
  <1>. QED BY <1>7, <1>8

\* A client that is logged in has a keep-alive to come, and there are no more
\* of them than logins.
ChainInv ==
    /\ Timed(queue)
    /\ pc["client"] = "runs" /\ is_login_ => waits + Cardinality(Ticks(queue)) > 0
    /\ waits + Cardinality(Ticks(queue)) <= Cardinality(Acks(handled))

\* The next state: u handlers of the timer, and m answers to a Login.
ChainNext(u, m) ==
    /\ Timed(queue') /\ Cardinality(Ticks(queue')) = u /\ Cardinality(Acks(handled')) = m
    /\ pc'["client"] = "runs" /\ is_login_' => waits' + u > 0
    /\ waits' + u <= m

\* It keeps the invariant.
LEMMA ChainNextKeeps == ASSUME NEW u, NEW m, ChainNext(u, m) PROVE ChainInv'
  BY DEF ChainNext, ChainInv

\* A handler that is not the timer's is posted.
LEMMA ChainPosts ==
    ASSUME IndInv, ChainInv, NEW h \in Handlers, h.kind # "timer", queue' = Append(queue, h),
           UNCHANGED <<is_login_, waits, handled>>, pc'["client"] = "runs" => pc["client"] = "runs"
    PROVE  ChainInv'
  <1>1. queue \in Seq(Handlers)
    BY DEF IndInv, StateOK
  <1>2. PICK q : q = queue
    OBVIOUS
  <1>3. Timed(Append(q, h)) /\ Cardinality(Ticks(Append(q, h))) = Cardinality(Ticks(q))
    BY <1>1, <1>2, TicksAppend DEF ChainInv
  <1>4. ChainNext(Cardinality(Ticks(q)), Cardinality(Acks(handled)))
    BY <1>2, <1>3 DEF ChainNext, ChainInv
  <1>5. PICK u, m : ChainNext(u, m)
    BY <1>4
  <1>. QED BY <1>5, ChainNextKeeps

\* The network and the timer.
LEMMA ChainNetwork ==
    ASSUME IndInv, ChainInv, Dialed \/ TimerFires \/ \E c \in Ids : Delivers(c) \/ Breaks(c)
    PROVE  ChainInv'
  <1>0. StateOK /\ queue \in Seq(Handlers) /\ dials \in Nat /\ <<>> \in Seq(Cell)
    BY Basics DEF IndInv
  <1>1. CASE Dialed
    <2>1. PICK d : d = dials + 1
      OBVIOUS
    <2>2. d \in 0 .. MaxConns /\ "connected" \in Kinds
      BY <1>0, <1>1, <2>1, Basics DEF Dialed, Kinds
    <2>3. PICK h : h = Handler("connected", d, <<>>)
      OBVIOUS
    <2>4. h \in Handlers /\ h.kind = "connected"
      BY <1>0, <2>2, <2>3, Zenon DEF Handler, Handlers
    <2>5. queue' = Append(queue, h) /\ UNCHANGED <<is_login_, waits, handled, pc>>
      BY <1>1, <2>1, <2>3 DEF Dialed, streams
    <2>. QED BY <2>4, <2>5, ChainPosts
  <1>2. CASE TimerFires
    <2>1. PICK q : q = queue
      OBVIOUS
    <2>2. PICK h : h = Timer
      OBVIOUS
    <2>3. h \in Handlers /\ h.kind = "timer" /\ h.c = 0
      BY <2>2, PlainHandlers DEF Timer, Handler
    <2>4. /\ queue' = Append(q, h) /\ UNCHANGED <<is_login_, handled, pc>> /\ waits' = waits - 1 /\ waits > 0
      BY <1>2, <2>1, <2>2 DEF TimerFires, streams, Timer
    <2>5. Timed(Append(q, h)) /\ Cardinality(Ticks(Append(q, h))) = Cardinality(Ticks(q)) + 1
      BY <1>0, <2>1, <2>3, TicksAppend DEF ChainInv
    <2>6. PICK t \in Nat : t = Cardinality(Ticks(q))
      BY <1>0, <2>1, TicksFinite
    <2>7. PICK m : m = Cardinality(Acks(handled))
      OBVIOUS
    <2>8. waits \in Nat /\ waits + t <= m
      BY <1>0, <2>1, <2>6, <2>7 DEF ChainInv, StateOK
    <2>9. ChainNext(t + 1, m)
      BY <2>4, <2>5, <2>6, <2>7, <2>8 DEF ChainNext
    <2>. QED BY <2>9, ChainNextKeeps
  <1>3. ASSUME NEW c \in Ids, Delivers(c) PROVE ChainInv'
    <2>1. PICK w \in Seq(Cell) : w = wire[c]["client"]
      BY <1>0, StreamTypes, TwoSides
    <2>2. PICK n \in 1 .. Len(w) : queue' = Append(queue, Handler("read", c, SubSeq(w, 1, n)))
      BY <1>3, <2>1 DEF Delivers
    <2>3. PICK a : a = SubSeq(w, 1, n)
      OBVIOUS
    <2>4. a \in Seq(Cell) /\ c \in 0 .. MaxConns /\ "read" \in Kinds
      BY <1>0, <2>3, Basics DEF Kinds
    <2>5. PICK h : h = Handler("read", c, a)
      OBVIOUS
    <2>6. h \in Handlers /\ h.kind = "read"
      BY <2>4, <2>5, HandlerType
    <2>7. queue' = Append(queue, h) /\ UNCHANGED <<is_login_, waits, handled, pc>>
      BY <1>3, <2>2, <2>3, <2>5 DEF Delivers, session
    <2>. QED BY <2>6, <2>7, ChainPosts
  <1>4. ASSUME NEW c \in Ids, Breaks(c) PROVE ChainInv'
    <2>1. PICK h : h = Failed(c)
      OBVIOUS
    <2>2. h \in Handlers /\ h.kind = "failed"
      BY <1>0, <2>1, PlainHandlers, Basics
    <2>3. queue' = Append(queue, h) /\ UNCHANGED <<is_login_, waits, handled, pc>>
      BY <1>4, <2>1 DEF Breaks, session, streams
    <2>. QED BY <2>2, <2>3, ChainPosts
  <1>. QED BY <1>1, <1>2, <1>3, <1>4

\* The queue q has t handlers of the timer.
Makes(q, t) == q \in Seq(Handlers) /\ Timed(q) /\ Cardinality(Ticks(q)) = t

\* What is left when a handler runs.
LEMMA MakesTail ==
    ASSUME IndInv, ChainInv, queue # <<>>, NEW t, t = Cardinality(Ticks(queue))
    PROVE  /\ queue[1].kind = "timer" => Makes(Tail(queue), t - 1)
           /\ queue[1].kind # "timer" => Makes(Tail(queue), t)
  <1>1. PICK q \in Seq(Handlers) : q = queue
    BY DEF IndInv, StateOK
  <1>2. q # <<>> /\ Timed(q) /\ t = Cardinality(Ticks(q))
    BY <1>1 DEF ChainInv
  <1>. QED BY <1>1, <1>2, TicksTail DEF Makes

\* Then an operation that failed is posted, or none.
LEMMA MakesFailed ==
    ASSUME NEW c \in 0 .. MaxConns, NEW q, NEW t, Makes(q, t)
    PROVE  Makes(Append(q, Failed(c)), t) /\ Makes(q \o <<Failed(c)>>, t) /\ Makes(q \o <<>>, t)
  <1>1. PICK h \in Handlers : h = Failed(c) /\ h.kind = "failed"
    BY PlainHandlers
  <1>2. q \in Seq(Handlers) /\ Timed(q)
    BY DEF Makes
  <1>3. Makes(Append(q, h), t)
    BY <1>1, <1>2, TicksAppend DEF Makes
  <1>4. q \o <<h>> = Append(q, h) /\ q \o <<>> = q
    BY <1>2
  <1>. QED BY <1>1, <1>3, <1>4

\* Or the handler of a wait that was cancelled.
LEMMA MakesCancelled ==
    ASSUME StateOK, NEW q, NEW t \in Nat, Makes(q, t)
    PROVE  Makes(q \o Cancelled, t + waits)
  <1>1. PICK h \in Handlers : h = Timer /\ h.kind = "timer" /\ h.c = 0
    BY PlainHandlers DEF Timer, Handler
  <1>2. q \in Seq(Handlers) /\ Timed(q)
    BY DEF Makes
  <1>3. Makes(Append(q, h), t + 1)
    BY <1>1, <1>2, TicksAppend DEF Makes
  <1>4. q \o <<h>> = Append(q, h) /\ q \o <<>> = q
    BY <1>2
  <1>5. CASE waits = 0
    <2>1. Cancelled = <<>>
      BY <1>5 DEF Cancelled
    <2>. QED BY <1>4, <1>5, <2>1
  <1>6. CASE waits = 1
    <2>1. Cancelled = <<h>>
      BY <1>1, <1>6 DEF Cancelled, Timer
    <2>. QED BY <1>3, <1>4, <1>6, <2>1
  <1>7. waits \in 0 .. 1
    BY DEF StateOK
  <1>. QED BY <1>5, <1>6, <1>7

\* A handler other than the timer's and a read runs.
LEMMA ChainCloses == ASSUME IndInv, ChainInv, RunConnected \/ RunFailed PROVE ChainInv'
  <1>0. StateOK /\ queue \in Seq(Handlers)
    BY Basics DEF IndInv
  <1>1. queue # <<>> /\ Head(queue).kind \in {"connected", "failed"} /\ Head(queue) = queue[1] /\ 1 \in DOMAIN queue
    <2>1. queue # <<>> /\ Head(queue).kind \in {"connected", "failed"}
      BY DEF RunConnected, RunFailed, Runs
    <2>. QED BY <1>0, <2>1
  <1>2. PICK c \in 0 .. MaxConns : c = Head(queue).c
    <2>1. queue[1] \in Handlers
      BY <1>0, <1>1
    <2>2. queue[1].c \in 0 .. MaxConns
      BY <2>1, Zenon DEF Handlers
    <2>. QED BY <1>1, <2>2
  <1>3. PICK t : t = Cardinality(Ticks(queue))
    OBVIOUS
  <1>4. PICK q : q = Tail(queue)
    OBVIOUS
  <1>5. Makes(q, t)
    BY <1>1, <1>3, <1>4, MakesTail
  <1>6. Makes(Append(q, Failed(c)), t) /\ Makes(q \o <<Failed(c)>>, t) /\ Makes(q \o <<>>, t)
    BY <1>5, MakesFailed
  <1>7. /\ queue' \in {q, Append(q, Failed(c)), q \o <<Failed(c)>>, q \o <<>>} /\ UNCHANGED <<waits, handled>>
        /\ pc'["client"] = "runs" /\ is_login_' => pc["client"] = "runs" /\ is_login_
    <2>1. CASE RunConnected
      BY <1>2, <1>4, <2>1 DEF RunConnected, SendPkt
    <2>2. CASE RunFailed
      <3>1. /\ queue' = q \o (IF c \in reading THEN <<Failed(c)>> ELSE <<>>) /\ UNCHANGED <<waits, handled>>
            /\ is_login_' = FALSE
        BY <1>2, <1>4, <2>2 DEF RunFailed, streams, LoginAfterLoss
      <3>. QED BY <3>1
    <2>. QED BY <2>1, <2>2
  <1>8. Makes(queue', t)
    BY <1>5, <1>6, <1>7
  <1>9. PICK m : m = Cardinality(Acks(handled))
    OBVIOUS
  <1>10. ChainNext(t, m)
    BY <1>3, <1>7, <1>8, <1>9 DEF ChainNext, ChainInv, Makes
  <1>. QED BY <1>10, ChainNextKeeps

\* DoKeepAlve: the chain it belongs to ends, or goes on.
LEMMA ChainTimer == ASSUME IndInv, ChainInv, RunTimer PROVE ChainInv'
  <1>0. StateOK /\ queue \in Seq(Handlers) /\ waits \in Nat
    BY Basics DEF IndInv, StateOK
  <1>1. queue # <<>> /\ Head(queue).kind = "timer" /\ Head(queue) = queue[1] /\ 1 \in DOMAIN queue
    <2>1. queue # <<>> /\ Head(queue).kind = "timer"
      BY DEF RunTimer, Runs
    <2>. QED BY <1>0, <2>1
  <1>2. UNCHANGED <<is_login_, handled, pc>>
    BY DEF RunTimer
  <1>3. PICK t \in Nat : t = Cardinality(Ticks(queue))
    <2>1. PICK q \in Seq(Handlers) : q = queue
      BY <1>0
    <2>. QED BY <2>1, TicksFinite
  <1>4. t >= 1
    <2>1. PICK q \in Seq(Handlers) : q = queue
      BY <1>0
    <2>2. Ticks(q) # {}
      BY <1>1, <2>1 DEF Ticks
    <2>3. IsFiniteSet(Ticks(q))
      BY TicksFinite
    <2>4. Cardinality(Ticks(q)) # 0
      BY <2>2, <2>3, FS_EmptySet
    <2>. QED BY <1>3, <2>1, <2>4
  <1>5. PICK m : m = Cardinality(Acks(handled)) /\ waits + t <= m /\ m \in Nat
    BY <1>3, AcksFinite DEF ChainInv
  <1>6. PICK q : q = Tail(queue)
    OBVIOUS
  <1>7. Makes(q, t - 1) /\ t - 1 \in Nat
    BY <1>1, <1>3, <1>4, <1>6, MakesTail
  <1>8. CASE ~is_login_ /\ queue' = q /\ waits' = waits
    <2>1. ChainNext(t - 1, m)
      BY <1>0, <1>2, <1>5, <1>7, <1>8 DEF ChainNext, Makes
    <2>. QED BY <2>1, ChainNextKeeps
  <1>9. CASE is_login_ /\ waits' = 1 /\ SendPkt(conn_, "KEEPALIVE", q \o Cancelled)
    <2>1. PICK e : e = q \o Cancelled
      OBVIOUS
    <2>2. PICK u : u = t - 1 + waits
      OBVIOUS
    <2>3. Makes(e, u)
      BY <1>0, <1>7, <2>1, <2>2, MakesCancelled
    <2>4. PICK c \in 0 .. MaxConns : c = conn_
      BY <1>0, Basics DEF StateOK
    <2>5. Makes(Append(e, Failed(c)), u)
      BY <2>3, MakesFailed
    <2>6. queue' = e \/ queue' = Append(e, Failed(c))
      BY <1>9, <2>1, <2>4 DEF SendPkt
    <2>7. Makes(queue', u)
      BY <2>3, <2>5, <2>6
    <2>8. ChainNext(u, m)
      BY <1>0, <1>2, <1>4, <1>5, <1>9, <2>2, <2>7 DEF ChainNext, Makes
    <2>. QED BY <2>8, ChainNextKeeps
  <1>. QED BY <1>6, <1>8, <1>9 DEF RunTimer, Rearmed

\* HandleRead on the client: only the answer to a Login starts a chain.
LEMMA ChainRead == ASSUME IndInv, IndInv', ChainInv, RunRead PROVE ChainInv'
  <1>0. StateOK /\ queue \in Seq(Handlers) /\ waits \in Nat /\ StreamInv
    <2>1. StateOK /\ StreamInv
      BY DEF IndInv
    <2>2. queue \in Seq(Handlers)
      BY <2>1, Basics
    <2>3. waits \in 0 .. 1
      BY <2>1 DEF StateOK
    <2>. QED BY <2>1, <2>2, <2>3
  <1>1. queue # <<>> /\ Head(queue).kind = "read" /\ Head(queue) = queue[1] /\ 1 \in DOMAIN queue
    <2>1. queue # <<>> /\ Head(queue).kind = "read"
      BY DEF RunRead, Runs
    <2>. QED BY <1>0, <2>1
  <1>2. PICK c \in Ids : c = queue[1].c /\ c \in 0 .. MaxConns
    <2>1. queue[1].c \in 1 .. dials
      BY <1>1 DEF IndInv, ReadInv
    <2>. QED BY <1>0, <2>1, Basics
  <1>3. PICK ss \in Seq(Cell) : ss = queue[1].cells
    <2>1. queue[1] \in Handlers
      BY <1>0, <1>1
    <2>. QED BY <2>1, Zenon DEF Handlers
  <1>4. ss # <<>> /\ recv[c]["client"] \o Head(queue).cells = ss
    <2>0. ReadInv
      BY DEF IndInv
    <2>1. ss # <<>>
      BY <1>1, <1>3, <2>0 DEF ReadInv, ReadOK
    <2>2. recv[c]["client"] = <<>>
      BY <1>0, StreamParts, TwoSides
    <2>. QED BY <1>1, <1>3, <2>1, <2>2
  <1>5. PICK p \in Packet : p = Head(ss).pkt
    <2>0. ss # <<>>
      BY <1>4
    <2>1. Head(ss) \in Cell
      BY <2>0
    <2>. QED BY <2>1, CellParts
  <1>6. PICK next : next = IF c \in open THEN <<>> ELSE <<Failed(c)>>
    OBVIOUS
  <1>7. /\ Receives(c, "client", ss)
        /\ \/ /\ OnRecvData_(ss) = "handle" /\ OnRecvData(p.type)
              /\ queue' = Tail(queue) \o (IF Arms(p.type) THEN Cancelled ELSE <<>>) \o next
           \/ /\ OnRecvData_(ss) # "handle" /\ UNCHANGED <<is_login_, waits>>
              /\ queue' = Tail(queue) \o next
    BY <1>1, <1>2, <1>4, <1>5, <1>6 DEF RunRead
  <1>8. pc'["client"] = "runs" => pc["client"] = "runs"
    BY DEF RunRead, Runs
  <1>9. PICK t \in Nat : t = Cardinality(Ticks(queue))
    <2>1. PICK q \in Seq(Handlers) : q = queue
      BY <1>0
    <2>. QED BY <2>1, TicksFinite
  <1>10. PICK m \in Nat : m = Cardinality(Acks(handled)) /\ waits + t <= m
    BY <1>9, AcksFinite DEF ChainInv
  <1>11. PICK q : q = Tail(queue)
    OBVIOUS
  <1>12. Makes(q, t)
    BY <1>1, <1>9, <1>11, MakesTail
  <1>13. \A e, u : Makes(e, u) => Makes(e \o next, u)
    BY <1>2, <1>6, MakesFailed
  <1>14. CASE OnRecvData_(ss) # "handle"
    <2>1. handled' = handled /\ UNCHANGED <<is_login_, waits>> /\ Makes(queue', t)
      BY <1>7, <1>11, <1>12, <1>13, <1>14 DEF Receives
    <2>2. ChainNext(t, m)
      BY <1>8, <1>9, <1>10, <2>1 DEF ChainNext, ChainInv, Makes
    <2>. QED BY <2>2, ChainNextKeeps
  <1>15. CASE OnRecvData_(ss) = "handle"
    <2>1. PICK hs \in Seq(Packet) : hs = handled[c]["client"]
      BY <1>0, StreamTypes, TwoSides
    <2>2. PICK g : g = handled'
      OBVIOUS
    <2>3. Puts(handled, g, c, "client", Append(hs, p))
      <3>1. g = [handled EXCEPT ![c]["client"] = Append(hs, p)] /\ handled \in [Ids -> [Sides -> Seq(Packet)]]
        BY <1>0, <1>5, <1>7, <1>15, <2>1, <2>2 DEF Receives, StateOK
      <3>. QED BY <3>1, TwoSides DEF Puts
    <2>4. Len(hs) + 1 <= MaxPackets
      <3>1. PICK h2 : h2 = Append(hs, p)
        OBVIOUS
      <3>2. h2 \in Seq(Packet) /\ Len(h2) = Len(hs) + 1
        BY <3>1
      <3>3. handled'[c]["client"] = h2
        BY <2>2, <2>3, <3>1 DEF Puts
      <3>4. Len(h2) <= LastN(h2) /\ LastN(h2) <= sent'[c]["server"]
        BY <3>3, TwoSides DEF IndInv, StreamInv, StreamOK
      <3>5. sent'[c]["server"] \in 0 .. MaxPackets
        BY TwoSides DEF IndInv, StateOK
      <3>. QED BY <3>2, <3>4, <3>5, LastNType, PartsAssumption
    <2>5. PICK f : f = handled
      OBVIOUS
    <2>6. /\ p.type = "LOGIN_ACK" => Cardinality(Acks(g)) = Cardinality(Acks(f)) + 1
          /\ p.type # "LOGIN_ACK" => Acks(g) = Acks(f)
      BY <2>1, <2>3, <2>4, <2>5, AcksMore
    <2>7. CASE p.type = "LOGIN_ACK"
      <3>1. waits' = 1 /\ queue' = q \o Cancelled \o next
        BY <1>7, <1>11, <1>15, <2>7 DEF OnRecvData, Arms
      <3>2. PICK u : u = t + waits
        OBVIOUS
      <3>3. PICK e : e = q \o Cancelled
        OBVIOUS
      <3>4. Makes(e, u)
        BY <1>0, <1>12, <3>2, <3>3, MakesCancelled
      <3>5. Makes(queue', u)
        BY <1>13, <3>1, <3>3, <3>4
      <3>6. Cardinality(Acks(handled')) = m + 1
        BY <1>10, <2>2, <2>5, <2>6, <2>7
      <3>7. ChainNext(u, m + 1)
        BY <1>0, <1>10, <3>1, <3>2, <3>5, <3>6 DEF ChainNext, Makes
      <3>. QED BY <3>7, ChainNextKeeps
    <2>8. CASE p.type # "LOGIN_ACK"
      <3>1. waits' = waits /\ queue' = q \o <<>> \o next /\ (is_login_' => is_login_)
        BY <1>7, <1>11, <1>15, <2>8 DEF OnRecvData, Arms
      <3>2. PICK e : e = q \o <<>>
        OBVIOUS
      <3>3. Makes(e, t)
        BY <1>2, <1>12, <3>2, MakesFailed
      <3>4. Makes(queue', t)
        BY <1>13, <3>1, <3>2, <3>3
      <3>5. Cardinality(Acks(handled')) = m
        BY <1>10, <2>2, <2>5, <2>6, <2>8
      <3>6. ChainNext(t, m)
        BY <1>8, <1>9, <1>10, <3>1, <3>4, <3>5 DEF ChainNext, ChainInv, Makes
      <3>. QED BY <3>6, ChainNextKeeps
    <2>. QED BY <2>7, <2>8
  <1>. QED BY <1>14, <1>15

\* HandleRead on the server changes nothing of the client's.
LEMMA ChainServer == ASSUME IndInv, ChainInv, NEW c \in Ids, ServerReads(c) PROVE ChainInv'
  <1>1. UNCHANGED <<is_login_, waits, queue>> /\ \E ss : Receives(c, "server", ss)
    BY DEF ServerReads, session
  <1>2. \A e \in Ids : handled'[e]["client"] = handled[e]["client"]
    <2>1. handled \in [Ids -> [Sides -> Seq(Packet)]]
      BY DEF IndInv, StateOK
    <2>2. handled' = handled \/ \E hs : handled' = [handled EXCEPT ![c]["server"] = hs]
      BY <1>1 DEF Receives
    <2>. QED BY <2>1, <2>2, TwoSides
  <1>3. Acks(handled') = Acks(handled)
    BY <1>2 DEF Acks
  <1>4. pc'["client"] = "runs" => pc["client"] = "runs"
    <2>1. pc \in [Sides -> {"runs", "ended"}]
      BY DEF IndInv, StateOK
    <2>. QED BY <1>1, <2>1, TwoSides DEF Receives
  <1>. QED BY <1>1, <1>3, <1>4 DEF ChainInv

\* Every step keeps the chains.
LEMMA ChainKeeps == ASSUME IndInv, IndInv', ChainInv, [Next]_vars PROVE ChainInv'
  <1>1. CASE UNCHANGED vars
    BY <1>1 DEF vars, session, streams, ChainInv
  <1>2. CASE Dialed \/ TimerFires \/ \E c \in Ids : Delivers(c) \/ Breaks(c)
    BY <1>2, ChainNetwork
  <1>3. CASE RunLoop
    BY <1>3, ChainCloses, ChainRead, ChainTimer DEF RunLoop
  <1>4. CASE \E c \in Ids : ServerReads(c)
    BY <1>4, ChainServer
  <1>. QED BY <1>1, <1>2, <1>3, <1>4 DEF Next

\* There is neither a chain nor a login at first.
LEMMA ChainInit == ASSUME Init PROVE ChainInv
  <1>1. Ticks(queue) = {}
    BY DEF Init, Ticks
  <1>2. Cardinality(Ticks(queue)) = 0
    BY <1>1, FS_EmptySet
  <1>. QED BY <1>1, <1>2, AcksFinite DEF Init, ChainInv, Timed

\* While the client is logged in a keep-alive is to come, and one chain of them is
\* started by each successful login and by nothing else: setting the timer
\* cancels the wait before it, whose handler runs all the same, so DoKeepAlve
\* replaces one handler by one wait and OnLoginAck adds one.
THEOREM KeepAliveTheorem == Spec => []KeepAliveChains
  <1>1. ASSUME IndInv, ChainInv PROVE KeepAliveChains
    <2>1. StateOK
      BY <1>1 DEF IndInv
    <2>2. TypeOK
      <3>1. queue \in Seq([kind : {"connected", "read", "failed", "timer"}, c : 0 .. dials, cells : Seq(Cell)])
        <4>1. ASSUME NEW i \in DOMAIN queue
              PROVE  queue[i] \in [kind : {"connected", "read", "failed", "timer"}, c : 0 .. dials, cells : Seq(Cell)]
          <5>1. PICK h \in Handlers : h = queue[i]
            BY <2>1 DEF StateOK
          <5>2. h.c \in 0 .. dials
            <6>1. CASE h.kind = "timer"
              <7>1. h.c = 0
                BY <1>1, <5>1, <6>1 DEF ChainInv, Timed, Ticks
              <7>. QED BY <2>1, <7>1, Basics
            <6>2. CASE h.kind # "timer"
              <7>1. h.c \in 1 .. dials
                BY <1>1, <5>1, <6>2 DEF IndInv, ReadInv
              <7>. QED BY <2>1, <7>1, Basics
            <6>. QED BY <6>1, <6>2
          <5>3. PICK k \in Kinds, c \in 0 .. MaxConns, e \in Seq(Cell) : h = [kind |-> k, c |-> c, cells |-> e]
            BY DEF Handlers
          <5>4. c \in 0 .. dials
            BY <5>2, <5>3
          <5>. QED BY <5>1, <5>3, <5>4 DEF Kinds
        <4>2. queue \in Seq(Handlers)
          BY <2>1 DEF StateOK
        <4>3. PICK S : S = [kind : {"connected", "read", "failed", "timer"}, c : 0 .. dials, cells : Seq(Cell)]
          OBVIOUS
        <4>4. queue \in [1 .. Len(queue) -> S] /\ Len(queue) \in Nat
          BY <4>1, <4>2, <4>3
        <4>5. queue \in Seq(S)
          BY <4>4, SeqDef
        <4>. QED BY <4>3, <4>5
      <3>2. is_login_ \in BOOLEAN /\ dialing \in BOOLEAN
        BY <2>1, Zenon DEF StateOK
      <3>3. \A c \in Ids, s \in Sides :
              /\ wire[c][s] \in Seq(Cell) /\ recv[c][s] \in Seq(Cell)
              /\ sent[c][s] \in 0 .. MaxPackets /\ handled[c][s] \in Seq(Packet)
        BY <2>1 DEF StateOK
      <3>. QED BY <2>1, <3>1, <3>2, <3>3 DEF StateOK, TypeOK
    <2>3. TimersPosted = Cardinality(Ticks(queue)) /\ LoginAcks = Acks(handled)
      BY DEF TimersPosted, Ticks, LoginAcks, Acks
    <2>. QED BY <1>1, <2>2, <2>3 DEF KeepAliveChains, ChainInv
  <1>2. Spec => []ChainInv
    BY Invariance, ChainInit, ChainKeeps, PTL DEF Spec
  <1>. QED BY <1>1, <1>2, Invariance, PTL
=============================================================================
