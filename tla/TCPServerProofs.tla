--------------------------- MODULE TCPServerProofs ---------------------------
(***************************************************************************)
(* Theorems about TCPServer for any number of threads, connections,        *)
(* failures and calls.                                                     *)
(***************************************************************************)
EXTENDS TCPServer, FiniteSetTheorems, TLAPS

Kinds == {"accepted", "refused", "stop", "remove", "attach", "close", "failed"}
Handlers == [kind : Kinds, c : 0 .. MaxConns + thread_num]

\* The loops connections are served by.
Places == IF thread_num = 0 THEN {0} ELSE 1 .. thread_num

\* Handlers that concern a connection, and those that end an accept.
OfConn   == {"remove", "attach", "close", "failed"}
OfAccept == {"accepted", "refused"}

\* Handler h is in queue q.
In(h, q) == \E i \in DOMAIN q : q[i] = h

-----------------------------------------------------------------------------
(* The inductive invariant.                                                *)

\* A handler h in the queue of loop l, cs being the connections.
HandlerOK(l, h, cs) ==
    /\ h.kind \in {"accepted", "refused", "stop", "remove"} => l = 0
    /\ h.kind = "accepted" => h.c \in Places
    /\ h.kind \in OfConn => h.c \in DOMAIN cs
    /\ h.kind \in OfConn \ {"remove"} => cs[h.c].loop = l
    /\ h.kind = "attach" => l # 0 /\ cs[h.c].stage = "accepted" /\ cs[h.c].open /\ cs[h.c].ops = 0
    /\ h.kind = "failed" => cs[h.c].stage # "accepted"
    /\ h.kind = "remove" => cs[h.c].stage = "down"

\* A connection is attached once, and closed only after that.
Ordered(q) ==
    \A i, j \in DOMAIN q :
        (q[i].kind = "attach" /\ q[j].kind \in {"attach", "close"} /\ q[i].c = q[j].c) => i <= j

\* The queue q of loop l.
QueueOK(l, q, cs) ==
    /\ q \in Seq(Handlers) /\ Ordered(q)
    /\ \A h \in Handlers : In(h, q) => HandlerOK(l, h, cs)

QueueInv ==
    /\ queue \in [Loops -> Seq(Handlers)]
    /\ \A l \in Loops : QueueOK(l, queue[l], conns)

StateOK ==
    /\ thread_num \in ThreadNums /\ acceptor_ \in {"open", "accepting", "closed"}
    /\ next_ \in Nat /\ closed_ \in BOOLEAN
    /\ conns_ \subseteq DOMAIN conns /\ told \subseteq DOMAIN conns
    /\ pc \in {"new", "idle", "attach", "insert", "down", "stuck", "terminated"}
    /\ fails \in 0 .. MaxFails /\ calls \in 0 .. MaxCalls

ConnOK(x) == x \in Conn /\ x.loop \in Places /\ (x.ops > 0 => x.stage # "accepted")

ConnInv == conns \in Seq(Conn) /\ Len(conns) <= MaxConns /\ \A c \in DOMAIN conns : ConnOK(conns[c])

\* The connection HandleNewConn works on, and the one going down.
NewInv ==
    /\ pc \in {"attach", "insert"} => Newest \in DOMAIN conns /\ Newest \notin conns_
    /\ pc = "attach" =>
          /\ conns[Newest].stage = "accepted" /\ conns[Newest].open /\ conns[Newest].ops = 0
          /\ \A l \in Loops, h \in Handlers : In(h, queue[l]) /\ h.kind \in OfConn => h.c # Newest
    /\ pc = "down" => /\ queue[0] # <<>> /\ Head(queue[0]).kind = "failed"
                      /\ conns[Head(queue[0]).c].stage = "down"

\* With connections cs and queues q, the end of c will take it out of conns_.
Releasable(c, cs, q) == \/ cs[c].ops > 0
                        \/ In(Handler("attach", c), q[cs[c].loop])
                        \/ In(Handler("failed", c), q[cs[c].loop])
                        \/ In(Handler("remove", c), q[0])

\* A connection that is, or is about to be, in conns_, will be released.
ReleaseInv ==
    /\ \A c \in conns_ : Releasable(c, conns, queue)
    /\ pc = "insert" => Releasable(Newest, conns, queue)

\* An accept ends in queue q.
Ending(q) == \E i \in DOMAIN q : q[i].kind \in OfAccept

\* No more than one.
Single(q) == \A i, j \in DOMAIN q : (q[i].kind \in OfAccept /\ q[j].kind \in OfAccept) => i = j

\* One accept at a time.
ChainInv ==
    /\ Single(queue[0])
    /\ Ending(queue[0]) => acceptor_ # "accepting" /\ pc \notin {"attach", "insert"}
    /\ acceptor_ = "accepting" => pc \notin {"attach", "insert"}
    /\ (acceptor_ # "closed" /\ pc \notin {"new", "terminated"}) =>
          (Ending(queue[0]) \/ acceptor_ = "accepting" \/ pc \in {"attach", "insert"})
    /\ pc = "new" => ~Ending(queue[0]) /\ acceptor_ = "open"

\* A connection is accepted and not yet registered.
Arriving == pc \in {"attach", "insert"} \/ \E i \in DOMAIN queue[0] : queue[0][i].kind = "accepted"

\* After Stop only an accept that was complete by then adds a connection.
LateInv ==
    closed_ => /\ acceptor_ = "closed"
               /\ \A c, d \in conns_ \ told : c = d
               /\ Arriving => conns_ \subseteq told

IndInv == StateOK /\ ConnInv /\ QueueInv /\ NewInv /\ ReleaseInv /\ ChainInv /\ LateInv

-----------------------------------------------------------------------------
(* Queues.                                                                 *)

\* Numbers.
LEMMA Bounds ==
    ASSUME IndInv
    PROVE  /\ thread_num \in Nat /\ MaxConns \in Nat /\ MaxFails \in Nat /\ MaxCalls \in Nat
           /\ 0 \in Loops /\ Places \subseteq Loops /\ Loops \subseteq Nat
           /\ Len(conns) \in Nat /\ DOMAIN conns = 1 .. Len(conns)
  <1>1. thread_num \in Nat /\ MaxConns \in Nat /\ MaxFails \in Nat /\ MaxCalls \in Nat
    BY BoundAssumption DEF IndInv, StateOK
  <1>2. QED  BY <1>1 DEF IndInv, ConnInv, Loops, Places

\* The first handler of a queue leaves it.
LEMMA TailFacts ==
    ASSUME NEW S, NEW q \in Seq(S), q # <<>>
    PROVE  /\ Tail(q) \in Seq(S) /\ Head(q) \in S
           /\ DOMAIN q = 1 .. Len(q) /\ Len(q) \in Nat /\ 1 \in DOMAIN q /\ q[1] = Head(q)
           /\ DOMAIN Tail(q) = 1 .. Len(q) - 1
           /\ \A i \in DOMAIN Tail(q) : i + 1 \in DOMAIN q /\ Tail(q)[i] = q[i + 1]
           /\ \A h : In(h, Tail(q)) => In(h, q)
           /\ \A h : In(h, q) => h = Head(q) \/ In(h, Tail(q))
           /\ In(Head(q), q)
  <1>1. /\ Tail(q) \in Seq(S) /\ Head(q) \in S
        /\ DOMAIN q = 1 .. Len(q) /\ Len(q) \in Nat /\ 1 \in DOMAIN q /\ q[1] = Head(q)
        /\ DOMAIN Tail(q) = 1 .. Len(q) - 1
        /\ \A i \in DOMAIN Tail(q) : i + 1 \in DOMAIN q /\ Tail(q)[i] = q[i + 1]
    OBVIOUS
  <1>2. \A i \in DOMAIN q : i = 1 \/ (i - 1 \in DOMAIN Tail(q) /\ Tail(q)[i - 1] = q[i])
    BY <1>1
  <1>3. QED  BY <1>1, <1>2 DEF In

\* Handlers t are posted after those of q.
LEMMA ConcatFacts ==
    ASSUME NEW S, NEW q \in Seq(S), NEW t \in Seq(S)
    PROVE  /\ q \o t \in Seq(S)
           /\ DOMAIN q = 1 .. Len(q) /\ Len(q) \in Nat /\ DOMAIN t = 1 .. Len(t) /\ Len(t) \in Nat
           /\ DOMAIN (q \o t) = 1 .. Len(q) + Len(t)
           /\ \A i \in DOMAIN q : i \in DOMAIN (q \o t) /\ (q \o t)[i] = q[i]
           /\ \A i \in DOMAIN t : Len(q) + i \in DOMAIN (q \o t) /\ (q \o t)[Len(q) + i] = t[i]
           /\ \A i \in DOMAIN (q \o t) : i \in DOMAIN q \/ (i - Len(q) \in DOMAIN t /\ (q \o t)[i] = t[i - Len(q)])
           /\ \A h : In(h, q \o t) <=> In(h, q) \/ In(h, t)
  <1>1. /\ q \o t \in Seq(S)
        /\ DOMAIN q = 1 .. Len(q) /\ Len(q) \in Nat /\ DOMAIN t = 1 .. Len(t) /\ Len(t) \in Nat
        /\ DOMAIN (q \o t) = 1 .. Len(q) + Len(t)
        /\ \A i \in DOMAIN q : i \in DOMAIN (q \o t) /\ (q \o t)[i] = q[i]
    OBVIOUS
  <1>2. \A i \in DOMAIN t : Len(q) + i \in DOMAIN (q \o t) /\ (q \o t)[Len(q) + i] = t[i]
    BY <1>1
  <1>3. \A i \in DOMAIN (q \o t) : i \in DOMAIN q \/ (i - Len(q) \in DOMAIN t /\ (q \o t)[i] = t[i - Len(q)])
    BY <1>1
  <1>4. QED  BY <1>1, <1>2, <1>3 DEF In

\* One handler is posted.
LEMMA PostFacts ==
    ASSUME NEW S, NEW q \in Seq(S), NEW x \in S
    PROVE  /\ <<x>> \in Seq(S) /\ Append(q, x) = q \o <<x>>
           /\ \A h : In(h, <<x>>) <=> h = x
  BY DEF In

\* The queue without its first handler.
LEMMA QueueTail ==
    ASSUME NEW l, NEW q, NEW cs, QueueOK(l, q, cs), q # <<>>
    PROVE  /\ QueueOK(l, Tail(q), cs) /\ HandlerOK(l, Head(q), cs) /\ Head(q) \in Handlers
           /\ Head(q).kind \in {"attach", "close"} =>
                 \A h \in Handlers : In(h, Tail(q)) /\ h.c = Head(q).c => h.kind # "attach"
  <1>0. q \in Seq(Handlers)
    BY DEF QueueOK
  <1>1. /\ Tail(q) \in Seq(Handlers) /\ Head(q) \in Handlers /\ In(Head(q), q)
        /\ DOMAIN q = 1 .. Len(q) /\ Len(q) \in Nat /\ 1 \in DOMAIN q /\ q[1] = Head(q)
        /\ DOMAIN Tail(q) = 1 .. Len(q) - 1
        /\ \A i \in DOMAIN Tail(q) : i + 1 \in DOMAIN q /\ Tail(q)[i] = q[i + 1]
        /\ \A h : In(h, Tail(q)) => In(h, q)
    BY <1>0, TailFacts
  <1>2. Ordered(Tail(q))
    BY <1>1 DEF QueueOK, Ordered
  <1>3. \A i \in DOMAIN Tail(q) : (Head(q).kind \in {"attach", "close"} /\ Tail(q)[i].c = Head(q).c)
                                      => Tail(q)[i].kind # "attach"
    BY <1>1 DEF QueueOK, Ordered
  <1>4. QED  BY <1>1, <1>2, <1>3 DEF QueueOK, In

\* Handlers that attach nothing are posted after those of q.
LEMMA QueueConcat ==
    ASSUME NEW l, NEW q, NEW cs, QueueOK(l, q, cs), NEW t \in Seq(Handlers),
           \A h \in Handlers : In(h, t) => HandlerOK(l, h, cs) /\ h.kind # "attach"
    PROVE  QueueOK(l, q \o t, cs)
  <1>0. q \in Seq(Handlers)
    BY DEF QueueOK
  <1>1. /\ q \o t \in Seq(Handlers)
        /\ DOMAIN q = 1 .. Len(q) /\ Len(q) \in Nat /\ DOMAIN t = 1 .. Len(t) /\ Len(t) \in Nat
        /\ DOMAIN (q \o t) = 1 .. Len(q) + Len(t)
        /\ \A i \in DOMAIN q : (q \o t)[i] = q[i]
        /\ \A i \in DOMAIN (q \o t) : i \in DOMAIN q \/ (i - Len(q) \in DOMAIN t /\ (q \o t)[i] = t[i - Len(q)])
        /\ \A h : In(h, q \o t) <=> In(h, q) \/ In(h, t)
    BY <1>0, ConcatFacts
  <1>2. \A i \in DOMAIN t : t[i] \in Handlers /\ t[i].kind # "attach"
    BY DEF In
  <1>3. \A i \in DOMAIN (q \o t) : (q \o t)[i].kind = "attach" => i \in DOMAIN q
    BY <1>1, <1>2
  <1>4. ASSUME NEW i \in DOMAIN (q \o t), NEW j \in DOMAIN (q \o t),
               (q \o t)[i].kind = "attach", (q \o t)[j].kind \in {"attach", "close"}, (q \o t)[i].c = (q \o t)[j].c
        PROVE  i <= j
    <2>1. i \in DOMAIN q
      BY <1>3, <1>4
    <2>2. CASE j \in DOMAIN q
      BY <1>1, <1>4, <2>1, <2>2 DEF QueueOK, Ordered
    <2>3. CASE j \notin DOMAIN q
      BY <1>1, <2>1, <2>3
    <2>4. QED  BY <2>2, <2>3
  <1>5. QED  BY <1>1, <1>4 DEF QueueOK, Ordered

\* One handler that attaches nothing is posted.
LEMMA QueuePost ==
    ASSUME NEW l, NEW q, NEW cs, QueueOK(l, q, cs), NEW x \in Handlers,
           HandlerOK(l, x, cs), x.kind # "attach"
    PROVE  QueueOK(l, Append(q, x), cs)
  <1>1. q \in Seq(Handlers)
    BY DEF QueueOK
  <1>2. <<x>> \in Seq(Handlers) /\ Append(q, x) = q \o <<x>> /\ \A h : In(h, <<x>>) <=> h = x
    BY <1>1, PostFacts
  <1>3. QED  BY <1>2, QueueConcat

\* A connection is to be attached that no handler of q closes or attaches.
LEMMA QueueAttach ==
    ASSUME NEW l, NEW q, NEW cs, QueueOK(l, q, cs), NEW x \in Handlers, HandlerOK(l, x, cs),
           \A h \in Handlers : In(h, q) /\ h.kind \in OfConn => h.c # x.c
    PROVE  QueueOK(l, Append(q, x), cs)
  <1>1. q \in Seq(Handlers) /\ Len(q) \in Nat /\ DOMAIN q = 1 .. Len(q)
    BY DEF QueueOK
  <1>2. /\ DOMAIN Append(q, x) = 1 .. Len(q) + 1 /\ Append(q, x) \in Seq(Handlers)
        /\ \A i \in DOMAIN q : Append(q, x)[i] = q[i] /\ q[i] \in Handlers
        /\ Append(q, x)[Len(q) + 1] = x
    BY <1>1
  <1>3. \A i \in DOMAIN q : q[i].kind \in {"attach", "close"} => q[i].c # x.c
    BY <1>2 DEF In, OfConn
  <1>4. Ordered(Append(q, x))
    BY <1>1, <1>2, <1>3 DEF QueueOK, Ordered
  <1>5. \A h : In(h, Append(q, x)) => In(h, q) \/ h = x
    BY <1>1, <1>2 DEF In
  <1>6. QED  BY <1>2, <1>4, <1>5 DEF QueueOK

\* A connection changes and no handler of q attaches it.
LEMMA QueueConn ==
    ASSUME NEW l, NEW q, NEW cs \in Seq(Conn), QueueOK(l, q, cs), NEW c \in DOMAIN cs, NEW x \in Conn,
           x.loop = cs[c].loop, cs[c].stage # "accepted" => x.stage # "accepted",
           cs[c].stage = "down" => x.stage = "down",
           ~In(Handler("attach", c), q)
    PROVE  QueueOK(l, q, [cs EXCEPT ![c] = x])
  <1> DEFINE ds == [cs EXCEPT ![c] = x]
  <1>1. DOMAIN ds = DOMAIN cs /\ ds[c] = x /\ \A d \in DOMAIN cs : d # c => ds[d] = cs[d]
    OBVIOUS
  <1> HIDE DEF ds
  <1>2. ASSUME NEW h \in Handlers, In(h, q)  PROVE HandlerOK(l, h, ds)
    <2>1. HandlerOK(l, h, cs)
      BY <1>2 DEF QueueOK
    <2>2. CASE h.kind \in OfConn /\ h.c = c
      <3>1. h.kind # "attach"
        <4>1. SUFFICES ASSUME h.kind = "attach" PROVE FALSE
          OBVIOUS
        <4>2. h = Handler("attach", c)
          BY <2>2, <4>1 DEF Handlers, Handler
        <4>3. QED  BY <1>2, <4>2
      <3>2. QED  BY <1>1, <2>1, <2>2, <3>1 DEF HandlerOK, OfConn
    <2>3. CASE ~(h.kind \in OfConn /\ h.c = c)
      BY <1>1, <2>1, <2>3 DEF HandlerOK, OfConn
    <2>4. QED  BY <2>2, <2>3
  <1>3. QED  BY <1>2 DEF QueueOK, ds

\* A connection is made.
LEMMA QueueNew ==
    ASSUME NEW l, NEW q, NEW cs \in Seq(Conn), QueueOK(l, q, cs), NEW x \in Conn
    PROVE  QueueOK(l, q, Append(cs, x))
  <1>1. \A d \in DOMAIN cs : d \in DOMAIN Append(cs, x) /\ Append(cs, x)[d] = cs[d]
    OBVIOUS
  <1>2. \A h \in Handlers : HandlerOK(l, h, cs) => HandlerOK(l, h, Append(cs, x))
    BY <1>1 DEF HandlerOK, OfConn
  <1>3. QED  BY <1>2 DEF QueueOK

\* Queue r is q with handlers of N posted.
Follows(q, r, N) == \E t \in Seq(N) : r = q \o t

\* A handler of a kind of K is in queue q.
Has(q, K) == \E i \in DOMAIN q : q[i].kind \in K

\* What is posted stays behind what was there.
LEMMA FollowsFacts ==
    ASSUME NEW q \in Seq(Handlers), NEW N \in SUBSET Handlers, NEW r, Follows(q, r, N)
    PROVE  /\ r \in Seq(Handlers)
           /\ \A h : In(h, q) => In(h, r)
           /\ \A h : In(h, r) => In(h, q) \/ h \in N
           /\ q # <<>> => r # <<>> /\ Head(r) = Head(q)
           /\ \A K : Has(q, K) => Has(r, K)
           /\ \A K : Has(r, K) => Has(q, K) \/ \E h \in N : h.kind \in K
  <1>1. PICK t \in Seq(N) : r = q \o t
    BY DEF Follows
  <1>2. t \in Seq(Handlers) /\ \A i \in DOMAIN t : t[i] \in N
    OBVIOUS
  <1>3. /\ r \in Seq(Handlers)
        /\ DOMAIN q = 1 .. Len(q) /\ Len(q) \in Nat /\ DOMAIN r = 1 .. Len(q) + Len(t) /\ Len(t) \in Nat
        /\ \A i \in DOMAIN q : i \in DOMAIN r /\ r[i] = q[i]
        /\ \A i \in DOMAIN r : i \in DOMAIN q \/ (i - Len(q) \in DOMAIN t /\ r[i] = t[i - Len(q)])
    BY <1>1, <1>2, ConcatFacts
  <1>4. q # <<>> => r # <<>> /\ Head(r) = Head(q)
    <2>1. SUFFICES ASSUME q # <<>> PROVE r # <<>> /\ Head(r) = Head(q)
      OBVIOUS
    <2>2. 1 \in DOMAIN q /\ q[1] = Head(q)
      BY <2>1, TailFacts
    <2>3. 1 \in DOMAIN r /\ r[1] = q[1] /\ r # <<>>
      BY <1>3, <2>2
    <2>4. QED  BY <1>3, <2>2, <2>3, TailFacts
  <1>5. \A i \in DOMAIN r : (\E j \in DOMAIN q : r[i] = q[j]) \/ r[i] \in N
    BY <1>2, <1>3
  <1>6. QED  BY <1>3, <1>4, <1>5 DEF In, Has

\* Posting nothing, one handler, or a sequence of them.
LEMMA FollowsCases ==
    ASSUME NEW q \in Seq(Handlers), NEW N \in SUBSET Handlers
    PROVE  /\ Follows(q, q, N)
           /\ \A x \in N : Follows(q, Append(q, x), N)
           /\ \A t \in Seq(N) : Follows(q, q \o t, N)
  <1>1. <<>> \in Seq(N) /\ q \o <<>> = q
    OBVIOUS
  <1>2. \A x \in N : <<x>> \in Seq(N) /\ Append(q, x) = q \o <<x>>
    OBVIOUS
  <1>3. QED  BY <1>1, <1>2 DEF Follows

\* A queue stays in order when what is posted suits its loop.
LEMMA FollowsOK ==
    ASSUME NEW l, NEW q, NEW cs, QueueOK(l, q, cs), NEW N \in SUBSET Handlers, NEW r, Follows(q, r, N),
           \A h \in N : HandlerOK(l, h, cs) /\ h.kind # "attach"
    PROVE  QueueOK(l, r, cs)
  <1>1. PICK t \in Seq(N) : r = q \o t
    BY DEF Follows
  <1>2. t \in Seq(Handlers) /\ \A h : In(h, t) => h \in N
    BY DEF In
  <1>3. QED  BY <1>1, <1>2, QueueConcat

\* Ends of accepts in a queue.
LEMMA SingleFollows ==
    ASSUME NEW q \in Seq(Handlers), NEW N \in SUBSET Handlers, NEW r, Follows(q, r, N), Single(q),
           \A h \in N : h.kind \notin OfAccept
    PROVE  Single(r)
  <1>1. PICK t \in Seq(N) : r = q \o t
    BY DEF Follows
  <1>2. t \in Seq(Handlers) /\ \A i \in DOMAIN t : t[i] \in N
    OBVIOUS
  <1>3. /\ \A i \in DOMAIN q : i \in DOMAIN r /\ r[i] = q[i]
        /\ \A i \in DOMAIN r : i \in DOMAIN q \/ (i - Len(q) \in DOMAIN t /\ r[i] = t[i - Len(q)])
    BY <1>1, <1>2, ConcatFacts
  <1>4. \A i \in DOMAIN r : r[i].kind \in OfAccept => i \in DOMAIN q
    BY <1>2, <1>3
  <1>5. QED  BY <1>3, <1>4 DEF Single

\* The first handler leaves a queue that ends one accept at most.
LEMMA SingleTail ==
    ASSUME NEW q \in Seq(Handlers), q # <<>>, Single(q)
    PROVE  /\ Single(Tail(q))
           /\ Head(q).kind \in OfAccept => ~Ending(Tail(q))
           /\ \A K : Has(Tail(q), K) => Has(q, K)
           /\ \A K : Has(q, K) => Head(q).kind \in K \/ Has(Tail(q), K)
  <1>1. /\ DOMAIN q = 1 .. Len(q) /\ Len(q) \in Nat /\ 1 \in DOMAIN q /\ q[1] = Head(q)
        /\ DOMAIN Tail(q) = 1 .. Len(q) - 1
        /\ \A i \in DOMAIN Tail(q) : i + 1 \in DOMAIN q /\ Tail(q)[i] = q[i + 1]
    BY TailFacts
  <1>2. \A i \in DOMAIN q : i = 1 \/ (i - 1 \in DOMAIN Tail(q) /\ Tail(q)[i - 1] = q[i])
    BY <1>1
  <1>3. Single(Tail(q))
    BY <1>1 DEF Single
  <1>4. Head(q).kind \in OfAccept => ~Ending(Tail(q))
    BY <1>1 DEF Single, Ending
  <1>5. QED  BY <1>1, <1>2, <1>3, <1>4 DEF Has

\* An accept ends and no other has.
LEMMA SinglePost ==
    ASSUME NEW q \in Seq(Handlers), ~Ending(q), NEW x \in Handlers, x.kind \in OfAccept
    PROVE  Single(Append(q, x)) /\ Ending(Append(q, x))
  <1>1. /\ Len(q) \in Nat /\ DOMAIN q = 1 .. Len(q) /\ DOMAIN Append(q, x) = 1 .. Len(q) + 1
        /\ \A i \in DOMAIN q : Append(q, x)[i] = q[i]
        /\ Append(q, x)[Len(q) + 1] = x
    OBVIOUS
  <1>2. \A i \in DOMAIN Append(q, x) : Append(q, x)[i].kind \in OfAccept => i = Len(q) + 1
    BY <1>1 DEF Ending
  <1>3. Len(q) + 1 \in DOMAIN Append(q, x)
    BY <1>1
  <1>4. QED  BY <1>1, <1>2, <1>3 DEF Single, Ending

\* A finite set in some order.
LEMMA SetToSeqFacts ==
    ASSUME NEW S, IsFiniteSet(S)
    PROVE  SetToSeq(S) \in Seq(S)
  <1>1. Cardinality(S) \in Nat /\ ExistsBijection(1 .. Cardinality(S), S)
    BY FS_CardinalityType
  <1>2. PICK f : f \in Bijection(1 .. Cardinality(S), S)
    BY <1>1 DEF ExistsBijection
  <1>3. f \in [1 .. Cardinality(S) -> S] /\ \A a, b \in 1 .. Cardinality(S) : f[a] = f[b] => a = b
    BY <1>2 DEF Bijection, Injection, IsInjective
  <1>4. IsInjective(f)
    BY <1>3 DEF IsInjective
  <1>5. SetToSeq(S) \in [1 .. Cardinality(S) -> S]
    BY <1>3, <1>4 DEF SetToSeq
  <1>6. QED  BY <1>1, <1>5

\* Close for the registered connections of a loop.
LEMMA ClosesFacts ==
    ASSUME IndInv, NEW l \in Loops
    PROVE  /\ Closes(l) \in Seq({Handler("close", c) : c \in {d \in conns_ : conns[d].loop = l}})
           /\ {Handler("close", c) : c \in {d \in conns_ : conns[d].loop = l}} \in SUBSET Handlers
  <1> DEFINE C == {d \in conns_ : conns[d].loop = l}
             f == [c \in C |-> Handler("close", c)]
             S == {Handler("close", c) : c \in C}
  <1>1. C \in SUBSET (1 .. Len(conns)) /\ Len(conns) \in Nat /\ 1 \in Int /\ Len(conns) \in Int
    BY Bounds DEF IndInv, StateOK
  <1>2. IsFiniteSet(1 .. Len(conns))
    BY <1>1, FS_Interval
  <1>3. IsFiniteSet(C)
    BY <1>1, <1>2, FS_Subset
  <1>4. f \in Surjection(C, S)
    BY DEF Surjection
  <1>5. IsFiniteSet(S)
    BY <1>3, <1>4, FS_Surjection
  <1>6. S \in SUBSET Handlers
    <2>1. \A c \in C : c \in 0 .. MaxConns + thread_num
      BY <1>1, Bounds DEF IndInv, ConnInv
    <2>2. QED  BY <2>1 DEF Handler, Handlers, Kinds
  <1>7. Closes(l) = SetToSeq(S)
    BY DEF Closes, ToClose
  <1>8. QED  BY <1>5, <1>6, <1>7, SetToSeqFacts

-----------------------------------------------------------------------------
(* Steps of a loop.                                                        *)

\* What loop p, if it is one, has still to run once its first handler is taken.
Rest(l, p) == IF l = p THEN Tail(queue[l]) ELSE queue[l]

\* Loop p runs its first handler, unless p is no loop, and the handlers of
\* N[l] are posted to loop l.
Moves(p, N) ==
    /\ thread_num' = thread_num
    /\ N \in [Loops -> SUBSET Handlers]
    /\ p \in Loops => queue[p] # <<>>
    /\ queue' \in [Loops -> Seq(Handlers)]
    /\ \A l \in Loops : Follows(Rest(l, p), queue'[l], N[l])

\* What a step that has to do with no accept leaves alone of the server.
Frame == thread_num' = thread_num /\ acceptor_' = acceptor_ /\ closed_' = closed_ /\ told' = told

\* The same, and no accept ends or is handled.
Goes(p, N) ==
    /\ Frame /\ Moves(p, N)
    /\ p \in Loops => Head(queue[p]).kind \notin OfAccept
    /\ \A l \in Loops : \A h \in N[l] : h.kind \notin OfAccept

\* The sets that the types rest on.
Fixed == Loops' = Loops /\ Handlers' = Handlers /\ Places' = Places

\* They depend on thread_num alone, which never changes.
LEMMA FixedSets ==
    ASSUME thread_num' = thread_num
    PROVE  Fixed
  BY DEF Fixed, Loops, Handlers, Kinds, Places

\* What a loop has left.
LEMMA MovesRest ==
    ASSUME IndInv, NEW p, NEW N, Moves(p, N), NEW l \in Loops
    PROVE  /\ Rest(l, p) \in Seq(Handlers) /\ QueueOK(l, Rest(l, p), conns)
           /\ \A h : In(h, queue[l]) => In(h, Rest(l, p)) \/ (l = p /\ h = Head(queue[l]))
           /\ \A h : In(h, Rest(l, p)) => In(h, queue[l])
  <1>1. QueueOK(l, queue[l], conns) /\ queue[l] \in Seq(Handlers)
    BY DEF IndInv, QueueInv, QueueOK
  <1>2. CASE l = p
    <2>1. queue[l] # <<>> /\ Rest(l, p) = Tail(queue[l])
      BY <1>2 DEF Moves, Rest
    <2>2. QueueOK(l, Tail(queue[l]), conns)
      BY <1>1, <2>1, QueueTail
    <2>3. /\ \A h : In(h, Tail(queue[l])) => In(h, queue[l])
          /\ \A h : In(h, queue[l]) => h = Head(queue[l]) \/ In(h, Tail(queue[l]))
      BY <1>1, <2>1, TailFacts
    <2>4. QED  BY <1>2, <2>1, <2>2, <2>3 DEF QueueOK
  <1>3. CASE l # p
    BY <1>1, <1>3 DEF Rest
  <1>4. QED  BY <1>2, <1>3

\* What is where after such a step.
LEMMA MovesFacts ==
    ASSUME IndInv, NEW p, NEW N, Moves(p, N), NEW l \in Loops
    PROVE  /\ \A h : In(h, Rest(l, p)) => In(h, queue'[l])
           /\ \A h : In(h, queue[l]) => In(h, queue'[l]) \/ (l = p /\ h = Head(queue[l]))
           /\ \A h : In(h, queue'[l]) => In(h, queue[l]) \/ h \in N[l]
           /\ (l # p /\ queue[l] # <<>>) => (queue'[l] # <<>> /\ Head(queue'[l]) = Head(queue[l]))
  <1>1. /\ Rest(l, p) \in Seq(Handlers)
        /\ \A h : In(h, queue[l]) => In(h, Rest(l, p)) \/ (l = p /\ h = Head(queue[l]))
        /\ \A h : In(h, Rest(l, p)) => In(h, queue[l])
    BY MovesRest
  <1>2. N[l] \in SUBSET Handlers /\ Follows(Rest(l, p), queue'[l], N[l])
    BY DEF Moves
  <1>3. /\ \A h : In(h, Rest(l, p)) => In(h, queue'[l])
        /\ \A h : In(h, queue'[l]) => In(h, Rest(l, p)) \/ h \in N[l]
        /\ Rest(l, p) # <<>> => queue'[l] # <<>> /\ Head(queue'[l]) = Head(Rest(l, p))
    BY <1>1, <1>2, FollowsFacts
  <1>4. l # p => Rest(l, p) = queue[l]
    BY DEF Rest
  <1>5. QED  BY <1>1, <1>3, <1>4

\* A step without accepts is such a step.
LEMMA GoesMoves ==
    ASSUME NEW p, NEW N, Goes(p, N)
    PROVE  Moves(p, N)
  BY DEF Goes

\* No accept ends or begins.
LEMMA GoesAccepts ==
    ASSUME IndInv, NEW p, NEW N, Goes(p, N)
    PROVE  /\ Single(queue'[0])
           /\ Ending(queue'[0]) <=> Ending(queue[0])
           /\ Has(queue'[0], {"accepted"}) => Has(queue[0], {"accepted"})
  <1>1. 0 \in Loops
    BY Bounds
  <1>2. queue[0] \in Seq(Handlers) /\ Single(queue[0])
    BY <1>1 DEF IndInv, QueueInv, ChainInv
  <1> DEFINE r == Rest(0, p)
  <1>3. /\ r \in Seq(Handlers) /\ Single(r)
        /\ \A K : Has(r, K) => Has(queue[0], K)
        /\ Has(queue[0], OfAccept) => Has(r, OfAccept)
    <2>1. CASE p = 0
      <3>1. queue[0] # <<>> /\ Head(queue[0]).kind \notin OfAccept /\ r = Tail(queue[0])
        BY <1>1, <2>1 DEF Goes, Moves, Frame, Rest
      <3>2. Tail(queue[0]) \in Seq(Handlers)
        BY <1>2, <3>1
      <3>3. QED  BY <1>2, <3>1, <3>2, SingleTail
    <2>2. CASE p # 0
      BY <1>2, <2>2 DEF Rest
    <2>3. QED  BY <2>1, <2>2
  <1> HIDE DEF r
  <1>4. N[0] \in SUBSET Handlers /\ Follows(r, queue'[0], N[0]) /\ \A h \in N[0] : h.kind \notin OfAccept
    BY <1>1 DEF Goes, Moves, Frame, r
  <1>5. Single(queue'[0])
    BY <1>3, <1>4, SingleFollows
  <1>6. /\ \A K : Has(r, K) => Has(queue'[0], K)
        /\ \A K : Has(queue'[0], K) => Has(r, K) \/ \E h \in N[0] : h.kind \in K
    BY <1>3, <1>4, FollowsFacts
  <1>7. Has(queue'[0], OfAccept) <=> Has(queue[0], OfAccept)
    BY <1>3, <1>4, <1>6
  <1>8. Has(queue'[0], {"accepted"}) => Has(queue[0], {"accepted"})
    <2>1. \A h \in N[0] : h.kind \notin {"accepted"}
      BY <1>4 DEF OfAccept
    <2>2. QED  BY <1>3, <1>6, <2>1
  <1>9. QED  BY <1>5, <1>7, <1>8 DEF Has, Ending

\* The listening loop goes from pc to pc' within what such a step allows.
Same == /\ pc \in {"attach", "insert"} <=> pc' \in {"attach", "insert"}
        /\ pc \in {"new", "terminated"} <=> pc' \in {"new", "terminated"}
        /\ pc' = "new" => pc = "new"

\* The chain of accepts stays as it is.
LEMMA GoesChain ==
    ASSUME IndInv, NEW p, NEW N, Goes(p, N), Same, conns_' \subseteq conns_
    PROVE  ChainInv' /\ LateInv'
  <1>1. /\ Single(queue'[0])
        /\ Ending(queue'[0]) <=> Ending(queue[0])
        /\ Has(queue'[0], {"accepted"}) => Has(queue[0], {"accepted"})
    BY GoesAccepts
  <1>2. acceptor_' = acceptor_ /\ closed_' = closed_ /\ told' = told
    BY DEF Goes, Moves, Frame
  <1>3. ChainInv'
    BY <1>1, <1>2 DEF IndInv, ChainInv, Same
  <1>4. Arriving' => Arriving
    BY <1>1 DEF Arriving, Has, Same
  <1>5. LateInv'
    BY <1>2, <1>4 DEF IndInv, LateInv
  <1>6. QED  BY <1>3, <1>5

\* The queues suit the connections after the step.
LEMMA QueueNext ==
    ASSUME Fixed, queue' \in [Loops -> Seq(Handlers)], \A l \in Loops : QueueOK(l, queue'[l], conns')
    PROVE  QueueInv'
  BY DEF QueueInv, QueueOK, HandlerOK, Fixed

\* What is left and what is posted suit the connections.
LEMMA MovesQueue ==
    ASSUME IndInv, NEW p, NEW N, Moves(p, N),
           \A l \in Loops : QueueOK(l, Rest(l, p), conns'),
           \A l \in Loops : \A h \in N[l] : HandlerOK(l, h, conns') /\ h.kind # "attach"
    PROVE  QueueInv'
  <1>1. Fixed /\ queue' \in [Loops -> Seq(Handlers)]
    BY FixedSets DEF Moves
  <1>2. ASSUME NEW l \in Loops  PROVE QueueOK(l, queue'[l], conns')
    <2>1. N[l] \in SUBSET Handlers /\ Follows(Rest(l, p), queue'[l], N[l])
      BY DEF Moves
    <2>2. QED  BY <2>1, FollowsOK
  <1>3. QED  BY <1>1, <1>2, QueueNext

\* The new connection is left alone while it is only made, and a callback
\* that is under way keeps its place in the queue.
LEMMA MovesNew ==
    ASSUME IndInv, NEW p, NEW N, Moves(p, N), pc' = pc, p = 0 => pc # "down",
           Len(conns') = Len(conns), DOMAIN conns' = DOMAIN conns, conns_' \subseteq conns_,
           pc = "attach" => conns'[Newest] = conns[Newest],
           pc = "attach" => \A l \in Loops : \A h \in N[l] : h.kind \in OfConn => h.c # Newest,
           \A d \in DOMAIN conns : conns[d].stage = "down" => conns'[d].stage = "down"
    PROVE  NewInv'
  <1>1. Fixed /\ Newest' = Newest /\ 0 \in Loops
    BY FixedSets, Bounds DEF Moves, Newest
  <1>2. pc' \in {"attach", "insert"} => Newest' \in DOMAIN conns' /\ Newest' \notin conns_'
    BY <1>1 DEF IndInv, NewInv
  <1>3. ASSUME pc' = "attach"
        PROVE  /\ conns'[Newest'].stage = "accepted" /\ conns'[Newest'].open /\ conns'[Newest'].ops = 0
               /\ \A l \in Loops', h \in Handlers' : In(h, queue'[l]) /\ h.kind \in OfConn => h.c # Newest'
    <2>1. \A l \in Loops, h \in Handlers : In(h, queue'[l]) => In(h, queue[l]) \/ h \in N[l]
      BY MovesFacts
    <2>2. conns[Newest].stage = "accepted" /\ conns[Newest].open /\ conns[Newest].ops = 0
      BY <1>3 DEF IndInv, NewInv
    <2>3. \A l \in Loops, h \in Handlers : In(h, queue[l]) /\ h.kind \in OfConn => h.c # Newest
      BY <1>3 DEF IndInv, NewInv
    <2>4. \A l \in Loops, h \in Handlers : In(h, queue'[l]) /\ h.kind \in OfConn => h.c # Newest
      BY <1>3, <2>1, <2>3
    <2>5. QED  BY <1>1, <1>3, <2>2, <2>4 DEF Fixed
  <1>4. ASSUME pc' = "down"
        PROVE  queue'[0] # <<>> /\ Head(queue'[0]).kind = "failed" /\ conns'[Head(queue'[0]).c].stage = "down"
    <2>1. pc = "down" /\ p # 0
      BY <1>4
    <2>2. queue[0] # <<>> /\ Head(queue[0]).kind = "failed" /\ conns[Head(queue[0]).c].stage = "down"
      BY <2>1 DEF IndInv, NewInv
    <2>3. queue'[0] # <<>> /\ Head(queue'[0]) = Head(queue[0])
      BY <1>1, <2>1, <2>2, MovesFacts
    <2>4. QueueOK(0, queue[0], conns)
      BY <1>1 DEF IndInv, QueueInv
    <2>5. Head(queue[0]).c \in DOMAIN conns
      BY <2>2, <2>4, QueueTail DEF HandlerOK, OfConn
    <2>6. QED  BY <2>2, <2>3, <2>5
  <1>5. QED  BY <1>1, <1>2, <1>3, <1>4 DEF NewInv, Fixed, In, OfConn

\* What will release connection d still will.
LEMMA MovesRelease ==
    ASSUME IndInv, NEW p, NEW N, Moves(p, N), NEW d \in DOMAIN conns, Releasable(d, conns, queue),
           conns'[d].loop = conns[d].loop, conns'[d].ops = conns[d].ops,
           p \in Loops => (Head(queue[p]).kind \in OfConn => Head(queue[p]).c # d)
    PROVE  Releasable(d, conns', queue')
  <1>1. conns[d].loop \in Loops /\ 0 \in Loops
    BY Bounds DEF IndInv, ConnInv, ConnOK
  <1>2. \A l \in Loops : \A h : In(h, queue[l]) => In(h, queue'[l]) \/ (l = p /\ h = Head(queue[l]))
    BY MovesFacts
  <1>3. \A k \in OfConn : \A l \in Loops : In(Handler(k, d), queue[l]) => In(Handler(k, d), queue'[l])
    <2>1. SUFFICES ASSUME NEW k \in OfConn, NEW l \in Loops, In(Handler(k, d), queue[l])
                   PROVE  In(Handler(k, d), queue'[l])
      OBVIOUS
    <2>2. Handler(k, d).c = d /\ Handler(k, d).kind \in OfConn
      BY DEF Handler
    <2>3. QED  BY <1>2, <2>1, <2>2
  <1>4. QED  BY <1>1, <1>3 DEF Releasable, OfConn

\* Connection c becomes x, and all that is run or posted is about c.
Changes(c, x, p, N) ==
    /\ conns' = [conns EXCEPT ![c] = x] /\ conns_' = conns_
    /\ ConnOK(x) /\ x.loop = conns[c].loop
    /\ conns[c].stage # "accepted" => x.stage # "accepted"
    /\ conns[c].stage = "down" => x.stage = "down"
    /\ \A l \in Loops : ~In(Handler("attach", c), Rest(l, p))
    /\ p \in Loops => Head(queue[p]).c = c
    /\ \A l \in Loops : \A h \in N[l] : HandlerOK(l, h, conns') /\ h.kind # "attach" /\ h.c = c

\* The connections after such a change.
LEMMA ChangeFacts ==
    ASSUME IndInv, NEW p, NEW N, Goes(p, N), NEW c \in DOMAIN conns, NEW x, Changes(c, x, p, N)
    PROVE  /\ ConnInv' /\ Len(conns') = Len(conns) /\ DOMAIN conns' = DOMAIN conns
           /\ conns'[c] = x /\ \A d \in DOMAIN conns : d # c => conns'[d] = conns[d]
  <1>1. /\ DOMAIN conns = 1 .. Len(conns) /\ Len(conns) \in Nat /\ Len(conns) <= MaxConns
        /\ conns \in Seq(Conn) /\ \A d \in DOMAIN conns : ConnOK(conns[d])
    BY DEF IndInv, ConnInv
  <1>2. conns' = [conns EXCEPT ![c] = x] /\ ConnOK(x) /\ x \in Conn
    BY DEF Changes, ConnOK
  <1>3. /\ conns' \in Seq(Conn) /\ Len(conns') = Len(conns) /\ DOMAIN conns' = DOMAIN conns
        /\ conns'[c] = x /\ \A d \in DOMAIN conns : d # c => conns'[d] = conns[d]
    BY <1>1, <1>2
  <1>4. \A d \in DOMAIN conns' : ConnOK(conns'[d])
    BY <1>1, <1>2, <1>3
  <1>5. Fixed
    BY FixedSets DEF Goes, Moves, Frame
  <1>6. ConnInv'
    BY <1>1, <1>3, <1>4, <1>5 DEF ConnInv, ConnOK, Conn, Fixed
  <1>7. QED  BY <1>3, <1>6

\* What such a step leaves of the invariant.
LEMMA ChangeKeeps ==
    ASSUME IndInv, NEW p, NEW N, Goes(p, N), NEW c \in DOMAIN conns, NEW x, Changes(c, x, p, N), Same
    PROVE  /\ ConnInv' /\ QueueInv' /\ ChainInv' /\ LateInv'
           /\ \A d \in DOMAIN conns : (d # c /\ Releasable(d, conns, queue)) => Releasable(d, conns', queue')
  <1>1. /\ ConnInv' /\ Len(conns') = Len(conns) /\ DOMAIN conns' = DOMAIN conns
        /\ conns'[c] = x /\ \A d \in DOMAIN conns : d # c => conns'[d] = conns[d]
    BY ChangeFacts
  <1>2. QueueInv'
    <2>1. /\ conns \in Seq(Conn) /\ conns' = [conns EXCEPT ![c] = x] /\ x \in Conn /\ x.loop = conns[c].loop
          /\ conns[c].stage # "accepted" => x.stage # "accepted"
          /\ conns[c].stage = "down" => x.stage = "down"
      BY DEF IndInv, ConnInv, Changes, ConnOK
    <2>2. ASSUME NEW l \in Loops  PROVE QueueOK(l, Rest(l, p), conns')
      <3>1. QueueOK(l, Rest(l, p), conns) /\ ~In(Handler("attach", c), Rest(l, p))
        BY MovesRest, GoesMoves DEF Changes
      <3>2. QED  BY <2>1, <3>1, QueueConn
    <2>3. \A l \in Loops : \A h \in N[l] : HandlerOK(l, h, conns') /\ h.kind # "attach"
      BY DEF Changes
    <2>4. QED  BY <2>2, <2>3, MovesQueue, GoesMoves
  <1>3. ChainInv' /\ LateInv'
    BY GoesChain DEF Changes
  <1>4. \A d \in DOMAIN conns : (d # c /\ Releasable(d, conns, queue)) => Releasable(d, conns', queue')
    <2>1. p \in Loops => Head(queue[p]).c = c
      BY DEF Changes
    <2>2. QED  BY <1>1, <2>1, MovesRelease, GoesMoves
  <1>5. QED  BY <1>1, <1>2, <1>3, <1>4

\* A step of a connection while the listening loop stays where it is.
LEMMA ChangeStep ==
    ASSUME IndInv, NEW p, NEW N, Goes(p, N), NEW c \in DOMAIN conns, NEW x, Changes(c, x, p, N), StateOK',
           pc' = pc, p = 0 => pc # "down", pc = "attach" => c # Newest,
           Releasable(c, conns, queue) => Releasable(c, conns', queue')
    PROVE  IndInv'
  <1>1. /\ ConnInv' /\ QueueInv' /\ ChainInv' /\ LateInv'
        /\ \A d \in DOMAIN conns : (d # c /\ Releasable(d, conns, queue)) => Releasable(d, conns', queue')
    <2>1. Same
      BY DEF Same
    <2>2. QED  BY <2>1, ChangeKeeps
  <1>2. /\ Len(conns') = Len(conns) /\ DOMAIN conns' = DOMAIN conns
        /\ conns'[c] = x /\ \A d \in DOMAIN conns : d # c => conns'[d] = conns[d]
    BY ChangeFacts
  <1>3. conns_' = conns_ /\ conns_ \subseteq DOMAIN conns
    BY DEF Changes, IndInv, StateOK
  <1>4. NewInv'
    <2>1. pc = "attach" => Newest \in DOMAIN conns
      BY DEF IndInv, NewInv
    <2>2. pc = "attach" => conns'[Newest] = conns[Newest]
      BY <1>2, <2>1
    <2>3. pc = "attach" => \A l \in Loops : \A h \in N[l] : h.kind \in OfConn => h.c # Newest
      BY DEF Changes
    <2>4. \A d \in DOMAIN conns : conns[d].stage = "down" => conns'[d].stage = "down"
      BY <1>2 DEF Changes
    <2>5. QED  BY <1>2, <1>3, <2>2, <2>3, <2>4, MovesNew, GoesMoves
  <1>5. ReleaseInv'
    <2>1. \A d \in DOMAIN conns : Releasable(d, conns, queue) => Releasable(d, conns', queue')
      BY <1>1
    <2>2. Newest' = Newest /\ (pc = "insert" => Newest \in DOMAIN conns)
      BY <1>2 DEF Newest, IndInv, NewInv
    <2>3. QED  BY <1>3, <2>1, <2>2 DEF IndInv, ReleaseInv, Releasable
  <1>6. QED  BY <1>1, <1>4, <1>5 DEF IndInv

\* The handlers it posts: none, one, or several.
Adds(p, N) ==
    \A l \in Loops : \/ queue'[l] = Rest(l, p)
                     \/ \E h \in N[l] : queue'[l] = Append(Rest(l, p), h)
                     \/ \E t \in Seq(N[l]) : queue'[l] = Rest(l, p) \o t

\* Steps of this form.
LEMMA MovesBy ==
    ASSUME IndInv, thread_num' = thread_num, NEW p, NEW N \in [Loops -> SUBSET Handlers], Adds(p, N),
           p \in Loops => queue[p] # <<>>,
           DOMAIN queue' = Loops, queue' = [l \in Loops |-> queue'[l]]
    PROVE  Moves(p, N)
  <1>1. ASSUME NEW l \in Loops
        PROVE  Follows(Rest(l, p), queue'[l], N[l]) /\ queue'[l] \in Seq(Handlers)
    <2>1. queue[l] \in Seq(Handlers) /\ N[l] \in SUBSET Handlers
      BY DEF IndInv, QueueInv
    <2>2. Rest(l, p) \in Seq(Handlers)
      BY <2>1 DEF Rest
    <2>3. Follows(Rest(l, p), queue'[l], N[l])
      BY <2>1, <2>2, FollowsCases DEF Adds
    <2>4. QED  BY <2>1, <2>2, <2>3, FollowsFacts
  <1>2. QED  BY <1>1 DEF Moves

\* Steps of this form that have to do with no accept.
LEMMA GoesBy ==
    ASSUME IndInv, Frame, NEW p, NEW N \in [Loops -> SUBSET Handlers], Adds(p, N),
           p \in Loops => queue[p] # <<>> /\ Head(queue[p]).kind \notin OfAccept,
           \A l \in Loops : \A h \in N[l] : h.kind \notin OfAccept,
           DOMAIN queue' = Loops, queue' = [l \in Loops |-> queue'[l]]
    PROVE  Goes(p, N)
  <1>1. thread_num' = thread_num
    BY DEF Frame
  <1>2. Moves(p, N)
    BY <1>1, MovesBy
  <1>3. QED  BY <1>2 DEF Goes

\* No handlers, or handlers of S for loop l.
Only(l, S) == [k \in Loops |-> IF k = l THEN S ELSE {}]

\* The handler that loop l runs, of a kind that concerns a connection.
LEMMA RunFacts ==
    ASSUME IndInv, NEW l \in Loops, NEW k, Runs(l, k), k \in OfConn
    PROVE  /\ queue[l] # <<>> /\ Head(queue[l]) \in Handlers /\ Head(queue[l]) = Handler(k, Head(queue[l]).c)
           /\ Head(queue[l]).c \in DOMAIN conns /\ HandlerOK(l, Head(queue[l]), conns)
           /\ Head(queue[l]).kind = k /\ k \notin OfAccept /\ In(Head(queue[l]), queue[l])
           /\ l = 0 => pc = "idle"
           /\ pc \notin {"new", "terminated"}
  <1>1. queue[l] # <<>> /\ Head(queue[l]).kind = k /\ (l = 0 => pc = "idle") /\ pc \notin {"new", "terminated"}
    BY DEF Runs
  <1>2. QueueOK(l, queue[l], conns)
    BY DEF IndInv, QueueInv
  <1>3. HandlerOK(l, Head(queue[l]), conns) /\ Head(queue[l]) \in Handlers
    BY <1>1, <1>2, QueueTail
  <1>4. In(Head(queue[l]), queue[l])
    BY <1>1, <1>2, TailFacts DEF QueueOK
  <1>5. k \notin OfAccept
    BY DEF OfConn, OfAccept
  <1>6. Head(queue[l]).c \in DOMAIN conns
    BY <1>1, <1>3 DEF HandlerOK
  <1>7. Head(queue[l]) = Handler(k, Head(queue[l]).c)
    BY <1>1, <1>3 DEF Handlers, Handler
  <1>8. QED  BY <1>1, <1>3, <1>4, <1>5, <1>6, <1>7

\* Nothing attaches a connection of another loop, or one that was attached.
LEMMA NotAttached ==
    ASSUME IndInv, NEW l \in Loops, NEW c \in DOMAIN conns, conns[c].loop # l \/ conns[c].stage # "accepted"
    PROVE  ~In(Handler("attach", c), queue[l])
  <1>1. SUFFICES ASSUME In(Handler("attach", c), queue[l])  PROVE FALSE
    OBVIOUS
  <1>2. QueueOK(l, queue[l], conns)
    BY DEF IndInv, QueueInv
  <1>3. Handler("attach", c) \in Handlers
    <2>1. c \in 0 .. MaxConns + thread_num
      BY Bounds DEF IndInv, ConnInv
    <2>2. QED  BY <2>1 DEF Handler, Handlers, Kinds
  <1>4. HandlerOK(l, Handler("attach", c), conns)
    BY <1>1, <1>2, <1>3 DEF QueueOK
  <1>5. QED  BY <1>4 DEF HandlerOK, Handler, OfConn

\* Handlers about connections.
LEMMA ConnHandlers ==
    ASSUME IndInv, NEW c \in DOMAIN conns, NEW k \in OfConn
    PROVE  /\ Handler(k, c) \in Handlers /\ Handler(k, c).kind = k /\ Handler(k, c).c = c
           /\ Handler(k, c).kind \notin OfAccept
  <1>1. c \in 0 .. MaxConns + thread_num
    BY Bounds DEF IndInv, ConnInv
  <1>2. QED  BY <1>1 DEF Handler, Handlers, Kinds, OfConn, OfAccept

\* Nothing attaches a connection once it has been attached or closed.
LEMMA RestNotAttached ==
    ASSUME IndInv, NEW l \in Loops, queue[l] # <<>>, Head(queue[l]).kind \in {"attach", "close"}, NEW k \in Loops
    PROVE  ~In(Handler("attach", Head(queue[l]).c), Rest(k, l))
  <1> DEFINE c == Head(queue[l]).c
  <1>1. QueueOK(l, queue[l], conns)
    BY DEF IndInv, QueueInv
  <1>2. /\ HandlerOK(l, Head(queue[l]), conns) /\ Head(queue[l]) \in Handlers
        /\ \A h \in Handlers : In(h, Tail(queue[l])) /\ h.c = c => h.kind # "attach"
    BY <1>1, QueueTail
  <1>3. c \in DOMAIN conns /\ conns[c].loop = l
    BY <1>2 DEF HandlerOK, OfConn
  <1> HIDE DEF c
  <1>4. CASE k # l
    BY <1>3, <1>4, NotAttached DEF Rest, c
  <1>5. CASE k = l
    <2>1. Handler("attach", c).c = c /\ Handler("attach", c).kind = "attach"
      BY DEF Handler
    <2>2. Handler("attach", c) \in Handlers
      BY <1>3, ConnHandlers DEF OfConn
    <2>3. QED  BY <1>2, <1>5, <2>1, <2>2 DEF Rest, c
  <1>6. QED  BY <1>4, <1>5 DEF c

\* Connection r attached with o operations, closed, and with o operations left.
AttachedAs(r, o) == [r EXCEPT !.stage = "up", !.ops = o]
ClosedAs(r, s)   == [r EXCEPT !.open = FALSE, !.ops = 0, !.stage = s]
LeftWith(r, o)   == [r EXCEPT !.ops = o]

\* Their fields.
LEMMA ConnFields ==
    ASSUME NEW r \in Conn, NEW s \in {"accepted", "up", "down"}, NEW o \in 0 .. 2
    PROVE  /\ AttachedAs(r, o) \in Conn /\ AttachedAs(r, o).loop = r.loop
           /\ AttachedAs(r, o).stage = "up" /\ AttachedAs(r, o).ops = o
           /\ ClosedAs(r, s) \in Conn /\ ClosedAs(r, s).loop = r.loop
           /\ ClosedAs(r, s).stage = s /\ ClosedAs(r, s).ops = 0
           /\ LeftWith(r, o) \in Conn /\ LeftWith(r, o).loop = r.loop
           /\ LeftWith(r, o).stage = r.stage /\ LeftWith(r, o).ops = o
  <1>1. 0 \in 0 .. 2
    OBVIOUS
  <1>2. /\ AttachedAs(r, o).loop = r.loop /\ AttachedAs(r, o).stage = "up" /\ AttachedAs(r, o).ops = o
    BY DEF Conn, AttachedAs
  <1>3. AttachedAs(r, o) \in Conn
    BY DEF Conn, AttachedAs
  <1>4. ClosedAs(r, s).loop = r.loop /\ ClosedAs(r, s).stage = s /\ ClosedAs(r, s).ops = 0
    BY DEF Conn, ClosedAs
  <1>5. ClosedAs(r, s) \in Conn
    BY <1>1, Zenon DEF Conn, ClosedAs
  <1>6. /\ LeftWith(r, o) \in Conn /\ LeftWith(r, o).loop = r.loop
        /\ LeftWith(r, o).stage = r.stage /\ LeftWith(r, o).ops = o
    BY DEF Conn, LeftWith
  <1>7. QED  BY <1>2, <1>3, <1>4, <1>5, <1>6

\* OnAttachedToLoop in the loop of the connection.
LEMMA RunAttachKeeps ==
    ASSUME IndInv, NEW l \in Loops, RunAttach(l)
    PROVE  IndInv'
  <1> DEFINE c == Head(queue[l]).c
             N == Only(l, {})
  <1>0. "attach" \in OfConn /\ Runs(l, "attach")
    BY DEF OfConn, RunAttach
  <1>1. /\ queue[l] # <<>> /\ Head(queue[l]) = Handler("attach", c) /\ c \in DOMAIN conns
        /\ HandlerOK(l, Head(queue[l]), conns) /\ Head(queue[l]).kind = "attach" /\ "attach" \notin OfAccept
        /\ Head(queue[l]) \in Handlers /\ (l = 0 => pc = "idle") /\ In(Head(queue[l]), queue[l])
    BY <1>0, RunFacts
  <1>2. conns[c].loop = l /\ l # 0 /\ conns[c].stage = "accepted" /\ conns[c].open /\ conns[c].ops = 0
    BY <1>1 DEF HandlerOK, OfConn
  <1>3. PICK o \in {1, 2} : conns' = [conns EXCEPT ![c] = AttachedAs(conns[c], o)]
    BY <1>1, <1>2 DEF AttachedAs, RunAttach, Attached
  <1> DEFINE x == AttachedAs(conns[c], o)
  <1> HIDE DEF c, N
  <1>4. conns[c] \in Conn /\ conns[c].loop \in Places
    BY <1>1 DEF IndInv, ConnInv, ConnOK
  <1>5. x \in Conn /\ x.loop = conns[c].loop /\ x.stage = "up" /\ x.ops = o
    <2>1. "up" \in {"accepted", "up", "down"} /\ o \in 0 .. 2
      OBVIOUS
    <2>2. QED  BY ONLY <1>4, <2>1, ConnFields
  <1> HIDE DEF x
  <1>6. Goes(l, N)
    <2>1. queue \in [Loops -> Seq(Handlers)] /\ queue' = [queue EXCEPT ![l] = Tail(@)]
      BY DEF IndInv, QueueInv, RunAttach, Popped
    <2>2. DOMAIN queue' = Loops /\ queue' = [k \in Loops |-> queue'[k]]
      BY <2>1
    <2>3. Adds(l, N)
      BY <2>1 DEF Adds, Rest
    <2>4. Frame
      BY DEF RunAttach, server, Frame
    <2>5. N \in [Loops -> SUBSET Handlers] /\ \A k \in Loops : N[k] = {}
      BY DEF N, Only
    <2>6. QED  BY <1>1, <2>2, <2>3, <2>4, <2>5, GoesBy
  <1>7. \A k \in Loops : ~In(Handler("attach", c), Rest(k, l))
    BY <1>1, RestNotAttached DEF c
  <1>8. Changes(c, x, l, N)
    <2>1. ConnOK(x)
      BY <1>4, <1>5 DEF ConnOK
    <2>2. conns' = [conns EXCEPT ![c] = x] /\ conns_' = conns_
      BY <1>3 DEF x, RunAttach
    <2>3. \A k \in Loops : N[k] = {}
      BY DEF N, Only
    <2>4. Head(queue[l]).c = c
      BY DEF c
    <2>5. QED  BY <1>2, <1>5, <1>7, <2>1, <2>2, <2>3, <2>4 DEF Changes
  <1>9. conns'[c] = x /\ DOMAIN conns' = DOMAIN conns
    BY <1>1, <1>6, <1>8, ChangeFacts
  <1>10. StateOK'
    BY <1>9 DEF RunAttach, server, bounds, IndInv, StateOK
  <1>11. pc = "attach" => c # Newest
    BY <1>1 DEF IndInv, NewInv, OfConn, c
  <1>12. Releasable(c, conns', queue')
    BY <1>5, <1>9 DEF Releasable
  <1>13. pc' = pc
    BY DEF RunAttach
  <1>14. QED  BY <1>1, <1>2, <1>6, <1>8, <1>10, <1>11, <1>12, <1>13, ChangeStep

\* No loop has the number -1: no handler is run.
LEMMA NoLoop ==
    ASSUME IndInv
    PROVE  -1 \notin Loops /\ \A l \in Loops : Rest(l, -1) = queue[l]
  BY Bounds DEF Loops, Rest

\* Handler h is posted to loop l.
LEMMA GoesPosted ==
    ASSUME IndInv, Frame, NEW l \in Loops, NEW h \in Handlers, h.kind \notin OfAccept, queue' = Posted(l, h)
    PROVE  Goes(-1, Only(l, {h})) /\ In(h, queue'[l])
  <1>1. queue \in [Loops -> Seq(Handlers)] /\ queue' = [queue EXCEPT ![l] = Append(@, h)]
    BY DEF IndInv, QueueInv, Posted
  <1>2. DOMAIN queue' = Loops /\ queue' = [k \in Loops |-> queue'[k]]
    BY <1>1
  <1>3. Only(l, {h}) \in [Loops -> SUBSET Handlers] /\ Only(l, {h})[l] = {h}
    BY DEF Only
  <1>4. \A k \in Loops : \A g \in Only(l, {h})[k] : g.kind \notin OfAccept
    BY DEF Only
  <1>5. -1 \notin Loops /\ \A k \in Loops : Rest(k, -1) = queue[k]
    BY NoLoop
  <1>6. Adds(-1, Only(l, {h}))
    BY <1>1, <1>3, <1>5 DEF Adds
  <1>7. Goes(-1, Only(l, {h}))
    BY <1>2, <1>3, <1>4, <1>5, <1>6, GoesBy
  <1>8. queue[l] \in Seq(Handlers) /\ queue'[l] = Append(queue[l], h)
    BY <1>1
  <1>9. In(h, queue'[l])
    <2>1. Len(queue[l]) + 1 \in DOMAIN Append(queue[l], h) /\ Append(queue[l], h)[Len(queue[l]) + 1] = h
      BY <1>8
    <2>2. QED  BY <1>8, <2>1 DEF In
  <1>10. QED  BY <1>7, <1>9

\* An operation of the connection fails.
LEMMA PeerLostKeeps ==
    ASSUME IndInv, NEW c \in DOMAIN conns, PeerLost(c)
    PROVE  IndInv'
  <1> DEFINE l == conns[c].loop
             h == Handler("failed", c)
             x == LeftWith(conns[c], conns[c].ops - 1)
  <1>1. l \in Loops /\ conns[c] \in Conn /\ conns[c].loop \in Places /\ conns[c].stage # "accepted"
    BY Bounds DEF IndInv, ConnInv, ConnOK, PeerLost
  <1>2. conns' = [conns EXCEPT ![c] = x]
    BY DEF PeerLost, LeftWith
  <1>3. conns[c].ops - 1 \in 0 .. 2 /\ "up" \in {"accepted", "up", "down"}
    BY <1>1 DEF Conn, PeerLost
  <1>4. x \in Conn /\ x.loop = l /\ x.stage = conns[c].stage
    BY ONLY <1>1, <1>3, ConnFields
  <1>5. "failed" \in OfConn
    BY DEF OfConn
  <1>6. h \in Handlers /\ h.kind = "failed" /\ h.c = c /\ h.kind \notin OfAccept
    BY <1>5, ConnHandlers
  <1> HIDE DEF l, x, h
  <1>7. Goes(-1, Only(l, {h})) /\ In(h, queue'[l])
    <2>1. Frame /\ queue' = Posted(l, h)
      BY DEF PeerLost, server, Frame, l, h
    <2>2. QED  BY <1>1, <1>6, <2>1, GoesPosted
  <1>8. Changes(c, x, -1, Only(l, {h}))
    <2>1. -1 \notin Loops /\ \A k \in Loops : ~In(Handler("attach", c), Rest(k, -1))
      BY <1>1, NoLoop, NotAttached
    <2>2. conns_' = conns_ /\ ConnOK(x)
      BY <1>1, <1>4 DEF PeerLost, ConnOK, l
    <2>3. conns' \in Seq(Conn) /\ DOMAIN conns' = DOMAIN conns /\ conns'[c] = x
      BY <1>2, <1>4 DEF IndInv, ConnInv
    <2>4. HandlerOK(l, h, conns')
      BY <1>1, <1>4, <1>6, <2>3 DEF HandlerOK, OfConn
    <2>5. \A k \in Loops : \A g \in Only(l, {h})[k] : k = l /\ g = h
      BY DEF Only
    <2>6. x.loop = conns[c].loop
      BY <1>4 DEF l
    <2>7. QED  BY <1>1, <1>2, <1>4, <1>6, <2>1, <2>2, <2>4, <2>5, <2>6 DEF Changes
  <1>9. conns'[c] = x /\ DOMAIN conns' = DOMAIN conns
    BY <1>7, <1>8, ChangeFacts
  <1>10. StateOK'
    BY <1>9 DEF PeerLost, server, bounds, IndInv, StateOK
  <1>11. Releasable(c, conns', queue')
    BY <1>4, <1>7, <1>9 DEF Releasable, h
  <1>12. pc' = pc /\ (pc = "attach" => c # Newest) /\ 0 # -1
    BY <1>1 DEF PeerLost, IndInv, NewInv
  <1>13. QED  BY <1>7, <1>8, <1>10, <1>11, <1>12, ChangeStep

\* Calls are counted.
LEMMA CallBound ==
    ASSUME IndInv, Call
    PROVE  calls' \in 0 .. MaxCalls
  BY Bounds DEF Call, IndInv, StateOK

\* The application closes a connection.
LEMMA CloseKeeps ==
    ASSUME IndInv, NEW c \in DOMAIN conns, Close(c)
    PROVE  IndInv'
  <1> DEFINE l == conns[c].loop
             h == Handler("close", c)
             x == conns[c]
  <1>1. l \in Loops /\ conns[c] \in Conn /\ conns[c].loop \in Places /\ conns[c].stage # "accepted"
        /\ ConnOK(conns[c])
    BY Bounds DEF IndInv, ConnInv, ConnOK, Close
  <1>2. conns' = [conns EXCEPT ![c] = x] /\ conns' = conns
    BY DEF Close, IndInv, ConnInv
  <1>5. "close" \in OfConn
    BY DEF OfConn
  <1>6. h \in Handlers /\ h.kind = "close" /\ h.c = c /\ h.kind \notin OfAccept
    BY <1>5, ConnHandlers
  <1> HIDE DEF l, h
  <1>7. Goes(-1, Only(l, {h}))
    <2>1. Frame /\ queue' = Posted(l, h)
      BY DEF Close, server, Frame, l, h
    <2>2. QED  BY <1>1, <1>6, <2>1, GoesPosted
  <1>8. Changes(c, x, -1, Only(l, {h}))
    <2>1. -1 \notin Loops /\ \A k \in Loops : ~In(Handler("attach", c), Rest(k, -1))
      BY <1>1, NoLoop, NotAttached
    <2>2. conns_' = conns_
      BY DEF Close
    <2>4. HandlerOK(l, h, conns')
      BY <1>1, <1>2, <1>6 DEF HandlerOK, OfConn, l
    <2>5. \A k \in Loops : \A g \in Only(l, {h})[k] : k = l /\ g = h
      BY DEF Only
    <2>7. QED  BY <1>1, <1>2, <1>6, <2>1, <2>2, <2>4, <2>5 DEF Changes
  <1>10. StateOK'
    BY <1>2, CallBound DEF Close, server, IndInv, StateOK
  <1>11. Releasable(c, conns, queue) => Releasable(c, conns', queue')
    <2>1. -1 \notin Loops
      BY NoLoop
    <2>2. QED  BY <1>2, <1>7, <2>1, MovesRelease, GoesMoves
  <1>12. pc' = pc /\ (pc = "attach" => c # Newest) /\ 0 # -1
    BY <1>1 DEF Close, IndInv, NewInv
  <1>13. QED  BY <1>7, <1>8, <1>10, <1>11, <1>12, ChangeStep

\* The failures of the operations of c.
LEMMA AbortedFacts ==
    ASSUME IndInv, NEW c \in DOMAIN conns
    PROVE  /\ Aborted(c) \in Seq({Handler("failed", c)})
           /\ conns[c].ops = 0 => Aborted(c) \in Seq({})
           /\ conns[c].ops > 0 => In(Handler("failed", c), Aborted(c))
  <1> DEFINE n == conns[c].ops
             h == Handler("failed", c)
  <1>1. n \in 0 .. 2
    BY DEF IndInv, ConnInv, ConnOK, Conn
  <1>2. Aborted(c) = [i \in 1 .. n |-> h]
    BY DEF Aborted
  <1> HIDE DEF n, h
  <1>3. Aborted(c) \in Seq({h})
    BY <1>1, <1>2
  <1>4. n = 0 => Aborted(c) \in Seq({})
    BY <1>1, <1>2
  <1>5. n > 0 => In(h, Aborted(c))
    BY <1>1, <1>2 DEF In
  <1>6. QED  BY <1>3, <1>4, <1>5 DEF n, h

\* Close in the loop of the connection.
LEMMA RunCloseKeeps ==
    ASSUME IndInv, NEW l \in Loops, RunClose(l)
    PROVE  IndInv'
  <1> DEFINE c == Head(queue[l]).c
             h == Handler("failed", c)
             S == IF conns[c].ops > 0 THEN {h} ELSE {}
             N == Only(l, S)
             x == ClosedAs(conns[c], conns[c].stage)
  <1>0. "close" \in OfConn /\ "failed" \in OfConn /\ Runs(l, "close")
    BY DEF OfConn, RunClose
  <1>1. /\ queue[l] # <<>> /\ c \in DOMAIN conns /\ HandlerOK(l, Head(queue[l]), conns)
        /\ Head(queue[l]).kind = "close" /\ "close" \notin OfAccept
        /\ Head(queue[l]) \in Handlers /\ (l = 0 => pc = "idle") /\ In(Head(queue[l]), queue[l])
    BY <1>0, RunFacts
  <1>2. conns[c].loop = l
    BY <1>1 DEF HandlerOK, OfConn
  <1>3. conns' = [conns EXCEPT ![c] = x] /\ queue' = [queue EXCEPT ![l] = Tail(@) \o Aborted(c)] /\ conns_' = conns_
    BY DEF RunClose, Closed, ClosedAs
  <1> HIDE DEF c
  <1>4. conns[c] \in Conn /\ conns[c].loop \in Places /\ (conns[c].ops > 0 => conns[c].stage # "accepted")
    BY <1>1 DEF IndInv, ConnInv, ConnOK
  <1>5. x \in Conn /\ x.loop = conns[c].loop /\ x.stage = conns[c].stage /\ x.ops = 0
    <2>1. conns[c].stage \in {"accepted", "up", "down"} /\ 0 \in 0 .. 2
      BY <1>4 DEF Conn
    <2>2. QED  BY ONLY <1>4, <2>1, ConnFields
  <1>6. h \in Handlers /\ h.kind = "failed" /\ h.c = c /\ h.kind \notin OfAccept
    BY <1>0, <1>1, ConnHandlers
  <1>7. Aborted(c) \in Seq(S) /\ (conns[c].ops > 0 => In(h, Aborted(c)))
    <2>1. conns[c].ops > 0 \/ conns[c].ops = 0
      BY <1>4 DEF Conn
    <2>2. QED  BY <1>1, <2>1, AbortedFacts
  <1>8. S \in SUBSET Handlers /\ (\A g \in S : g = h) /\ (S # {} => conns[c].ops > 0)
    BY <1>6
  <1> HIDE DEF S, x, h
  <1>9. Goes(l, N)
    <2>1. queue \in [Loops -> Seq(Handlers)]
      BY DEF IndInv, QueueInv
    <2>2. DOMAIN queue' = Loops /\ queue' = [k \in Loops |-> queue'[k]]
      BY <1>3, <2>1
    <2>3. Adds(l, N)
      <3>1. queue'[l] = Rest(l, l) \o Aborted(c) /\ N[l] = S
        BY <1>3, <2>1 DEF Rest, Only
      <3>2. \A k \in Loops : k # l => queue'[k] = Rest(k, l)
        BY <1>3, <2>1 DEF Rest
      <3>3. QED  BY <1>7, <3>1, <3>2 DEF Adds
    <2>4. Frame
      BY DEF RunClose, server, Frame
    <2>5. N \in [Loops -> SUBSET Handlers] /\ \A k \in Loops : \A g \in N[k] : g.kind \notin OfAccept
      BY <1>6, <1>8 DEF Only
    <2>6. QED  BY <1>1, <2>2, <2>3, <2>4, <2>5, GoesBy
  <1>10. Changes(c, x, l, N)
    <2>1. \A k \in Loops : ~In(Handler("attach", c), Rest(k, l))
      BY <1>1, RestNotAttached DEF c
    <2>2. ConnOK(x)
      BY <1>4, <1>5 DEF ConnOK
    <2>3. DOMAIN conns' = DOMAIN conns /\ conns'[c] = x
      BY <1>1, <1>3, <1>5 DEF IndInv, ConnInv
    <2>4. conns[c].ops > 0 => HandlerOK(l, h, conns')
      BY <1>1, <1>2, <1>4, <1>5, <1>6, <2>3 DEF HandlerOK, OfConn
    <2>5. \A k \in Loops : \A g \in N[k] : HandlerOK(k, g, conns') /\ g.kind # "attach" /\ g.c = c
      BY <1>6, <1>8, <2>4 DEF Only
    <2>6. Head(queue[l]).c = c
      BY DEF c
    <2>7. QED  BY <1>3, <1>5, <2>1, <2>2, <2>5, <2>6 DEF Changes
  <1>11. conns'[c] = x /\ DOMAIN conns' = DOMAIN conns
    BY <1>1, <1>9, <1>10, ChangeFacts
  <1>12. StateOK'
    BY <1>11 DEF RunClose, server, bounds, IndInv, StateOK
  <1>13. pc' = pc /\ (pc = "attach" => c # Newest)
    BY <1>1 DEF IndInv, NewInv, OfConn, c, RunClose
  <1>14. Releasable(c, conns, queue) => Releasable(c, conns', queue')
    <2>1. CASE conns[c].ops > 0
      <3>1. queue[l] \in Seq(Handlers) /\ Tail(queue[l]) \in Seq(Handlers)
        BY <1>1 DEF IndInv, QueueInv
      <3>2. Aborted(c) \in Seq(Handlers)
        BY <1>7, <1>8
      <3>3. In(h, Tail(queue[l]) \o Aborted(c))
        BY <1>7, <2>1, <3>1, <3>2, ConcatFacts
      <3>4. queue'[l] = Tail(queue[l]) \o Aborted(c)
        BY <1>3 DEF IndInv, QueueInv
      <3>5. QED  BY <1>2, <1>5, <1>11, <3>3, <3>4 DEF Releasable, h
    <2>2. CASE ~(conns[c].ops > 0)
      <3>1. \A k \in Loops : \A g : In(g, queue[k]) => In(g, queue'[k]) \/ (k = l /\ g = Head(queue[k]))
        BY <1>9, MovesFacts, GoesMoves
      <3>2. \A k : k # "close" => Handler(k, c) # Head(queue[l])
        BY <1>1 DEF Handler
      <3>3. 0 \in Loops
        BY Bounds
      <3>4. QED  BY <1>2, <1>5, <1>11, <2>2, <3>1, <3>2, <3>3 DEF Releasable
    <2>3. QED  BY <2>1, <2>2
  <1>15. QED  BY <1>1, <1>9, <1>10, <1>12, <1>13, <1>14, ChangeStep

\* What HandleClose makes of the connection whose operation has failed.
LEMMA FailedFacts ==
    ASSUME IndInv, NEW l \in Loops, Runs(l, "failed"), NEW c, c = Head(queue[l]).c,
           conns' = Closed(c, "down")
    PROVE  /\ queue[l] # <<>> /\ Head(queue[l]).kind = "failed" /\ Head(queue[l]).kind \notin OfAccept
           /\ c \in DOMAIN conns /\ conns[c].loop = l /\ (l = 0 => pc = "idle")
           /\ pc \notin {"new", "terminated"} /\ Head(queue[l]) = Handler("failed", c)
           /\ \A k \in Loops : ~In(Handler("attach", c), queue[k])
           /\ LET x == ClosedAs(conns[c], "down")
              IN  /\ conns' = [conns EXCEPT ![c] = x] /\ x \in Conn /\ ConnOK(x) /\ x.loop = l /\ x.stage = "down"
                  /\ DOMAIN conns' = DOMAIN conns /\ conns'[c] = x
  <1>1. "failed" \in OfConn
    BY DEF OfConn
  <1>2. /\ queue[l] # <<>> /\ c \in DOMAIN conns /\ HandlerOK(l, Head(queue[l]), conns)
        /\ Head(queue[l]).kind = "failed" /\ "failed" \notin OfAccept
        /\ (l = 0 => pc = "idle") /\ pc \notin {"new", "terminated"} /\ Head(queue[l]) = Handler("failed", c)
    BY <1>1, RunFacts
  <1>3. conns[c].loop = l /\ conns[c].stage # "accepted"
    BY <1>2 DEF HandlerOK, OfConn
  <1>4. \A k \in Loops : ~In(Handler("attach", c), queue[k])
    BY <1>2, <1>3, NotAttached
  <1> DEFINE x == ClosedAs(conns[c], "down")
  <1>5. conns' = [conns EXCEPT ![c] = x]
    BY DEF Closed, ClosedAs
  <1>6. conns[c] \in Conn /\ conns[c].loop \in Places /\ "down" \in {"accepted", "up", "down"} /\ 0 \in 0 .. 2
    BY <1>2 DEF IndInv, ConnInv, ConnOK
  <1>7. x \in Conn /\ x.loop = conns[c].loop /\ x.stage = "down" /\ x.ops = 0
    BY ONLY <1>6, ConnFields
  <1>8. ConnOK(x)
    BY <1>6, <1>7 DEF ConnOK
  <1>9. DOMAIN conns' = DOMAIN conns /\ conns'[c] = x
    BY <1>2, <1>5, <1>7 DEF IndInv, ConnInv
  <1>10. QED  BY <1>2, <1>3, <1>4, <1>5, <1>7, <1>8, <1>9

\* HandleClose in a loop of the pool.
LEMMA RunFailedKeeps ==
    ASSUME IndInv, NEW l \in Loops, l # 0, RunFailed(l)
    PROVE  IndInv'
  <1> DEFINE c == Head(queue[l]).c
             h == Handler("failed", c)
             g == Handler("remove", c)
             N == [k \in Loops |-> IF k = l THEN {h} ELSE IF k = 0 THEN {g} ELSE {}]
             x == ClosedAs(conns[c], "down")
  <1>1. Runs(l, "failed") /\ conns' = Closed(c, "down") /\ 0 \in Loops
    BY Bounds DEF RunFailed
  <1>2. /\ queue[l] # <<>> /\ Head(queue[l]).kind = "failed" /\ Head(queue[l]).kind \notin OfAccept
        /\ c \in DOMAIN conns /\ conns[c].loop = l
        /\ \A k \in Loops : ~In(Handler("attach", c), queue[k])
        /\ conns' = [conns EXCEPT ![c] = x] /\ x \in Conn /\ ConnOK(x) /\ x.loop = l /\ x.stage = "down"
        /\ DOMAIN conns' = DOMAIN conns /\ conns'[c] = x /\ Head(queue[l]) = Handler("failed", c)
    BY <1>1, FailedFacts
  <1>3. /\ conns_' = conns_
        /\ queue' = [[queue EXCEPT ![l] = Tail(@) \o Aborted(c)] EXCEPT ![0] = Append(@, g)]
    BY <1>2 DEF RunFailed, RemoveConn
  <1> HIDE DEF c
  <1>4. "failed" \in OfConn /\ "remove" \in OfConn
    BY DEF OfConn
  <1>5. /\ h \in Handlers /\ h.kind = "failed" /\ h.c = c /\ h.kind \notin OfAccept
        /\ g \in Handlers /\ g.kind = "remove" /\ g.c = c /\ g.kind \notin OfAccept
    BY <1>2, <1>4, ConnHandlers
  <1>6. Aborted(c) \in Seq({h})
    BY <1>2, AbortedFacts
  <1> HIDE DEF x, h, g
  <1>7. \A k \in Loops : \A f \in N[k] : (k = l /\ f = h) \/ (k = 0 /\ f = g)
    OBVIOUS
  <1>8. N \in [Loops -> SUBSET Handlers] /\ N[l] = {h} /\ N[0] = {g}
    BY <1>1, <1>5
  <1> HIDE DEF N
  <1>9. queue \in [Loops -> Seq(Handlers)]
    BY DEF IndInv, QueueInv
  <1>10. Goes(l, N)
    <2>2. DOMAIN queue' = Loops /\ queue' = [k \in Loops |-> queue'[k]]
      BY <1>3, <1>9
    <2>3. Adds(l, N)
      <3>1. queue'[l] = Rest(l, l) \o Aborted(c) /\ queue'[0] = Append(Rest(0, l), g)
        BY <1>1, <1>3, <1>9 DEF Rest
      <3>2. \A k \in Loops : k \notin {l, 0} => queue'[k] = Rest(k, l)
        BY <1>3, <1>9 DEF Rest
      <3>3. QED  BY <1>6, <1>8, <3>1, <3>2 DEF Adds
    <2>4. Frame
      BY DEF RunFailed, server, Frame
    <2>5. \A k \in Loops : \A f \in N[k] : f.kind \notin OfAccept
      BY <1>5, <1>7
    <2>6. QED  BY <1>2, <1>8, <2>2, <2>3, <2>4, <2>5, GoesBy
  <1>11. Changes(c, x, l, N)
    <2>1. \A k \in Loops : ~In(Handler("attach", c), Rest(k, l))
      BY <1>2, <1>10, MovesRest, GoesMoves
    <2>2. HandlerOK(l, h, conns') /\ HandlerOK(0, g, conns')
      BY <1>2, <1>5 DEF HandlerOK, OfConn
    <2>3. \A k \in Loops : \A f \in N[k] : HandlerOK(k, f, conns') /\ f.kind # "attach" /\ f.c = c
      BY <1>5, <1>7, <2>2
    <2>4. Head(queue[l]).c = c
      BY DEF c
    <2>5. QED  BY <1>2, <1>3, <2>1, <2>3, <2>4 DEF Changes
  <1>12. StateOK'
    BY <1>2, <1>3 DEF RunFailed, server, bounds, IndInv, StateOK
  <1>13. pc' = pc
    BY DEF RunFailed
  <1>14. pc = "attach" => c # Newest
    <2>1. In(Head(queue[l]), queue[l]) /\ Head(queue[l]) \in Handlers
      BY <1>2, <1>9, TailFacts
    <2>2. QED  BY <1>2, <1>4, <2>1 DEF IndInv, NewInv, c
  <1>15. Releasable(c, conns', queue')
    <2>1. queue'[0] = Append(queue[0], g) /\ queue[0] \in Seq(Handlers)
      BY <1>1, <1>3, <1>9
    <2>2. In(g, queue'[0])
      <3>1. Len(queue[0]) + 1 \in DOMAIN Append(queue[0], g) /\ Append(queue[0], g)[Len(queue[0]) + 1] = g
        BY <2>1
      <3>2. QED  BY <2>1, <3>1 DEF In
    <2>3. QED  BY <2>2 DEF Releasable, g
  <1>16. QED  BY <1>2, <1>10, <1>11, <1>12, <1>13, <1>14, <1>15, ChangeStep

\* HandleClose in the listening loop, up to the callback.
LEMMA RunFailedHereKeeps ==
    ASSUME IndInv, RunFailed(0)
    PROVE  IndInv'
  <1> DEFINE c == Head(queue[0]).c
             h == Handler("failed", c)
             N == Only(0, {h})
             x == ClosedAs(conns[c], "down")
  <1>1. Runs(0, "failed") /\ conns' = Closed(c, "down") /\ 0 \in Loops
    BY Bounds DEF RunFailed
  <1>2. /\ queue[0] # <<>> /\ Head(queue[0]).kind = "failed"
        /\ c \in DOMAIN conns /\ conns[c].loop = 0 /\ pc = "idle"
        /\ \A k \in Loops : ~In(Handler("attach", c), queue[k])
        /\ conns' = [conns EXCEPT ![c] = x] /\ x \in Conn /\ ConnOK(x) /\ x.loop = 0 /\ x.stage = "down"
        /\ DOMAIN conns' = DOMAIN conns /\ conns'[c] = x /\ Head(queue[0]) = Handler("failed", c)
    BY <1>1, FailedFacts
  <1>3. conns_' = conns_ /\ pc' = "down" /\ queue' = [queue EXCEPT ![0] = @ \o Aborted(c)]
    BY DEF RunFailed
  <1> HIDE DEF c
  <1>4. "failed" \in OfConn
    BY DEF OfConn
  <1>5. h \in Handlers /\ h.kind = "failed" /\ h.c = c /\ h.kind \notin OfAccept
    BY <1>2, <1>4, ConnHandlers
  <1>6. Aborted(c) \in Seq({h})
    BY <1>2, AbortedFacts
  <1> HIDE DEF x, h
  <1>7. N \in [Loops -> SUBSET Handlers] /\ N[0] = {h} /\ \A k \in Loops : \A f \in N[k] : k = 0 /\ f = h
    BY <1>1, <1>5 DEF Only
  <1> HIDE DEF N
  <1>8. queue \in [Loops -> Seq(Handlers)]
    BY DEF IndInv, QueueInv
  <1>9. -1 \notin Loops /\ \A k \in Loops : Rest(k, -1) = queue[k]
    BY NoLoop
  <1>10. Goes(-1, N)
    <2>2. DOMAIN queue' = Loops /\ queue' = [k \in Loops |-> queue'[k]]
      BY <1>3, <1>8
    <2>3. Adds(-1, N)
      <3>1. queue'[0] = queue[0] \o Aborted(c) /\ \A k \in Loops : k # 0 => queue'[k] = queue[k]
        BY <1>1, <1>3, <1>8
      <3>2. QED  BY <1>6, <1>7, <1>9, <3>1 DEF Adds
    <2>4. Frame
      BY DEF RunFailed, server, Frame
    <2>5. \A k \in Loops : \A f \in N[k] : f.kind \notin OfAccept
      BY <1>5, <1>7
    <2>6. QED  BY <1>7, <1>9, <2>2, <2>3, <2>4, <2>5, GoesBy
  <1>11. Changes(c, x, -1, N)
    <2>1. HandlerOK(0, h, conns')
      BY <1>2, <1>5 DEF HandlerOK, OfConn
    <2>2. \A k \in Loops : \A f \in N[k] : HandlerOK(k, f, conns') /\ f.kind # "attach" /\ f.c = c
      BY <1>5, <1>7, <2>1
    <2>3. QED  BY <1>2, <1>3, <1>9, <2>2 DEF Changes
  <1>12. /\ ConnInv' /\ QueueInv' /\ ChainInv' /\ LateInv'
         /\ \A d \in DOMAIN conns : (d # c /\ Releasable(d, conns, queue)) => Releasable(d, conns', queue')
    <2>1. Same
      BY <1>2, <1>3 DEF Same
    <2>2. QED  BY <1>2, <1>10, <1>11, <2>1, ChangeKeeps
  <1>13. StateOK'
    BY <1>2, <1>3 DEF RunFailed, server, bounds, IndInv, StateOK
  <1>14. queue'[0] # <<>> /\ Head(queue'[0]) = h /\ In(h, queue'[0])
    <2>1. queue'[0] # <<>> /\ Head(queue'[0]) = Head(queue[0])
      BY <1>1, <1>2, <1>9, <1>10, MovesFacts, GoesMoves
    <2>2. In(Head(queue[0]), queue[0])
      BY <1>1, <1>2, <1>8, TailFacts
    <2>3. In(Head(queue[0]), queue'[0])
      BY <1>1, <1>9, <1>10, <2>2, MovesFacts, GoesMoves
    <2>4. QED  BY <1>2, <2>1, <2>3 DEF h
  <1>15. NewInv'
    BY <1>2, <1>3, <1>5, <1>14 DEF NewInv
  <1>16. ReleaseInv'
    <2>1. Releasable(c, conns', queue')
      BY <1>2, <1>14 DEF Releasable, h
    <2>2. \A d \in conns_ : d \in DOMAIN conns /\ Releasable(d, conns, queue)
      BY DEF IndInv, StateOK, ReleaseInv
    <2>3. \A d \in conns_' : Releasable(d, conns', queue')
      BY <1>3, <1>12, <2>1, <2>2
    <2>4. QED  BY <1>3, <2>3 DEF ReleaseInv, Releasable
  <1>17. QED  BY <1>12, <1>13, <1>15, <1>16 DEF IndInv

\* A step that changes no connection; it may take one out of conns_, or put
\* the new one into it.
LEMMA QuietKeeps ==
    ASSUME IndInv, NEW p, NEW N, Moves(p, N), conns' = conns,
           \A d \in conns_' : d \in conns_ \/ (pc = "insert" /\ pc' = "idle" /\ d = Newest),
           \A l \in Loops : \A h \in N[l] : HandlerOK(l, h, conns) /\ h.kind # "attach"
                                               /\ (h.kind \in OfConn => pc' # "attach"),
           p \in Loops => pc # "insert" /\ (Head(queue[p]).kind \in OfConn => Head(queue[p]).c \notin conns_'),
           (pc' = pc /\ p # 0) \/ pc' \in {"idle", "stuck"}
    PROVE  QueueInv' /\ ConnInv' /\ NewInv' /\ ReleaseInv'
  <1>1. QueueInv'
    <2>1. \A l \in Loops : \A h \in N[l] : HandlerOK(l, h, conns') /\ h.kind # "attach"
      OBVIOUS
    <2>2. \A l \in Loops : QueueOK(l, Rest(l, p), conns')
      BY MovesRest
    <2>3. QED  BY <2>1, <2>2, MovesQueue
  <1>2. ConnInv'
    <2>1. Fixed
      BY FixedSets DEF Moves
    <2>2. QED  BY <2>1 DEF IndInv, ConnInv, ConnOK, Fixed
  <1>3. NewInv'
    <2>1. CASE pc' = pc /\ p # 0 /\ pc' # "idle"
      <3>1. pc = "attach" => \A l \in Loops : \A h \in N[l] : h.kind \in OfConn => h.c # Newest
        BY <2>1
      <3>2. conns_' \subseteq conns_
        BY <2>1
      <3>3. QED  BY <2>1, <3>1, <3>2, MovesNew
    <2>2. CASE pc' \in {"idle", "stuck"}
      BY <2>2 DEF NewInv
    <2>3. QED  BY <2>1, <2>2
  <1>4. ReleaseInv'
    <2>1. \A d \in DOMAIN conns :
              (Releasable(d, conns, queue) /\ (p \in Loops => (Head(queue[p]).kind \in OfConn => Head(queue[p]).c # d)))
                  => Releasable(d, conns', queue')
      BY MovesRelease
    <2>2. pc = "insert" => Newest \in DOMAIN conns /\ Releasable(Newest, conns, queue)
      BY DEF IndInv, NewInv, ReleaseInv
    <2>3. \A d \in conns_ : d \in DOMAIN conns /\ Releasable(d, conns, queue)
      BY DEF IndInv, StateOK, ReleaseInv
    <2>4. \A d \in conns_' : d \in DOMAIN conns /\ Releasable(d, conns, queue)
      BY <2>2, <2>3
    <2>5. \A d \in conns_' : Releasable(d, conns', queue')
      BY <2>1, <2>4
    <2>6. pc' = "insert" => Releasable(Newest', conns', queue')
      <3>1. SUFFICES ASSUME pc' = "insert" PROVE Releasable(Newest', conns', queue')
        OBVIOUS
      <3>2. pc = "insert" /\ p \notin Loops /\ Newest' = Newest
        BY <3>1 DEF Newest
      <3>3. QED  BY <2>1, <2>2, <3>2
    <2>7. QED  BY <2>5, <2>6 DEF ReleaseInv, Releasable
  <1>5. QED  BY <1>1, <1>2, <1>3, <1>4

\* And it has to do with no accept.
LEMMA QuietStep ==
    ASSUME IndInv, NEW p, NEW N, Goes(p, N), conns' = conns, conns_' \subseteq conns_, StateOK',
           \A l \in Loops : \A h \in N[l] : HandlerOK(l, h, conns) /\ h.kind \notin OfConn,
           p \in Loops => Head(queue[p]).c \notin conns_' /\ pc # "insert",
           (pc' = pc /\ p # 0) \/ (pc' = "idle" /\ pc \in {"idle", "down"})
    PROVE  IndInv'
  <1>1. Moves(p, N)
    BY GoesMoves
  <1>2. \A l \in Loops : \A h \in N[l] : HandlerOK(l, h, conns) /\ h.kind # "attach"
                                            /\ (h.kind \in OfConn => pc' # "attach")
    BY DEF OfConn
  <1>3. QueueInv' /\ ConnInv' /\ NewInv' /\ ReleaseInv'
    BY <1>1, <1>2, QuietKeeps
  <1>4. ChainInv' /\ LateInv'
    <2>1. Same
      BY DEF Same
    <2>2. QED  BY <2>1, GoesChain
  <1>5. QED  BY <1>3, <1>4 DEF IndInv

\* The application stops the server.
LEMMA StopKeeps ==
    ASSUME IndInv, Stop
    PROVE  IndInv'
  <1> DEFINE h == Handler("stop", 0)
  <1>1. 0 \in Loops /\ h \in Handlers /\ h.kind = "stop" /\ h.kind \notin OfAccept /\ h.kind \notin OfConn
    BY Bounds DEF Handler, Handlers, Kinds, OfAccept, OfConn
  <1>2. HandlerOK(0, h, conns)
    BY <1>1 DEF HandlerOK, OfConn
  <1>3. Frame /\ queue' = Posted(0, h) /\ conns' = conns /\ conns_' = conns_ /\ pc' = pc
    BY DEF Stop, server, Frame
  <1> HIDE DEF h
  <1>4. Goes(-1, Only(0, {h}))
    BY <1>1, <1>3, GoesPosted
  <1>5. \A l \in Loops : \A g \in Only(0, {h})[l] : l = 0 /\ g = h
    BY DEF Only
  <1>6. StateOK'
    BY CallBound DEF Stop, server, IndInv, StateOK
  <1>7. -1 \notin Loops /\ -1 # 0
    BY NoLoop
  <1>8. \A l \in Loops : \A g \in Only(0, {h})[l] : HandlerOK(l, g, conns) /\ g.kind \notin OfConn
    BY <1>1, <1>2, <1>5
  <1>9. QED  BY <1>3, <1>4, <1>6, <1>7, <1>8, QuietStep

\* The listening loop is done with its first handler.
LEMMA GoesPopped ==
    ASSUME IndInv, Frame, queue[0] # <<>>, Head(queue[0]).kind \notin OfAccept, queue' = Popped(0)
    PROVE  Goes(0, Only(0, {}))
  <1>1. 0 \in Loops /\ queue \in [Loops -> Seq(Handlers)] /\ queue' = [queue EXCEPT ![0] = Tail(@)]
    BY Bounds DEF IndInv, QueueInv, Popped
  <1>2. DOMAIN queue' = Loops /\ queue' = [k \in Loops |-> queue'[k]]
    BY <1>1
  <1>3. Adds(0, Only(0, {}))
    BY <1>1 DEF Adds, Rest
  <1>4. Only(0, {}) \in [Loops -> SUBSET Handlers] /\ \A k \in Loops : Only(0, {})[k] = {}
    BY DEF Only
  <1>5. QED  BY <1>2, <1>3, <1>4, GoesBy

\* The connection is forgotten by the listening loop.
LEMMA RunRemoveKeeps ==
    ASSUME IndInv, RunRemove
    PROVE  IndInv'
  <1>1. "remove" \in OfConn /\ Runs(0, "remove") /\ 0 \in Loops
    BY Bounds DEF RunRemove, OfConn
  <1>2. queue[0] # <<>> /\ Head(queue[0]).kind \notin OfAccept /\ pc = "idle"
    BY <1>1, RunFacts
  <1>3. Frame /\ queue' = Popped(0) /\ conns' = conns /\ conns_' = conns_ \ {Head(queue[0]).c} /\ pc' = pc
    BY DEF RunRemove, server, Frame
  <1>4. Goes(0, Only(0, {}))
    BY <1>2, <1>3, GoesPopped
  <1>5. StateOK'
    BY <1>3 DEF RunRemove, server, bounds, IndInv, StateOK
  <1>6. \A l \in Loops : Only(0, {})[l] = {}
    BY DEF Only
  <1>7. Head(queue[0]).c \notin conns_' /\ conns_' \subseteq conns_
    BY <1>3
  <1>8. QED  BY <1>2, <1>3, <1>4, <1>5, <1>6, <1>7, QuietStep

\* Of a connection of the listening loop, after the callback.
LEMMA DownReturnsKeeps ==
    ASSUME IndInv, DownReturns
    PROVE  IndInv' /\ conns_' = conns_ \ {Head(queue[0]).c}
  <1> DEFINE c == Head(queue[0]).c
  <1>1. queue[0] # <<>> /\ Head(queue[0]).kind = "failed" /\ pc = "down" /\ pc' = "idle" /\ 0 \in Loops
    BY Bounds DEF DownReturns, IndInv, NewInv
  <1>2. QueueOK(0, queue[0], conns)
    BY <1>1 DEF IndInv, QueueInv
  <1>3. c \in DOMAIN conns /\ conns[c].loop = 0
    BY <1>1, <1>2, QueueTail, ZenonT(40) DEF HandlerOK, OfConn
  <1>4. Frame /\ queue' = Popped(0) /\ conns' = conns /\ conns_' = conns_ \ {c}
    BY <1>3 DEF DownReturns, RemoveConn, server, Frame
  <1>5. Head(queue[0]).kind \notin OfAccept
    BY <1>1 DEF OfAccept
  <1>6. Goes(0, Only(0, {}))
    BY <1>1, <1>4, <1>5, GoesPopped
  <1>7. StateOK'
    BY <1>1, <1>4 DEF DownReturns, server, bounds, IndInv, StateOK
  <1>8. \A l \in Loops : Only(0, {})[l] = {}
    BY DEF Only
  <1>9. Head(queue[0]).c \notin conns_' /\ conns_' \subseteq conns_
    BY <1>4
  <1>10. QED  BY <1>1, <1>4, <1>6, <1>7, <1>8, <1>9, QuietStep

\* The new connection is attached, or will be by its loop.
LEMMA HandleNewConnAttachesKeeps ==
    ASSUME IndInv, HandleNewConnAttaches
    PROVE  IndInv'
  <1> DEFINE c == Newest
             l == conns[c].loop
  <1>1. /\ pc = "attach" /\ pc' = "insert" /\ c \in DOMAIN conns /\ c \notin conns_
        /\ conns[c].stage = "accepted" /\ conns[c].open /\ conns[c].ops = 0
        /\ \A k \in Loops, h \in Handlers : In(h, queue[k]) /\ h.kind \in OfConn => h.c # c
    BY DEF HandleNewConnAttaches, IndInv, NewInv
  <1>2. conns[c] \in Conn /\ conns[c].loop \in Places /\ l \in Loops /\ ConnOK(conns[c])
    BY <1>1, Bounds DEF IndInv, ConnInv, ConnOK
  <1>3. Frame /\ conns_' = conns_ /\ Same
    BY <1>1 DEF HandleNewConnAttaches, server, Frame, Same
  <1>4. "attach" \in OfConn /\ 0 \in Loops
    BY Bounds DEF OfConn
  <1> HIDE DEF c
  <1>5. /\ Handler("attach", c) \in Handlers /\ Handler("attach", c).kind = "attach"
        /\ Handler("attach", c).c = c /\ Handler("attach", c).kind \notin OfAccept
    BY <1>1, <1>4, ConnHandlers
  <1>6. \A k \in Loops : ~In(Handler("attach", c), queue[k])
    BY <1>1, <1>4, <1>5
  <1>7. -1 \notin Loops /\ \A k \in Loops : Rest(k, -1) = queue[k]
    BY NoLoop
  <1>8. ASSUME ConnInv', QueueInv', ChainInv', LateInv', DOMAIN conns' = DOMAIN conns, Len(conns') = Len(conns),
               Releasable(c, conns', queue'), \A d \in conns_ : Releasable(d, conns', queue')
        PROVE  IndInv'
    <2>1. StateOK'
      BY <1>1, <1>3, <1>8 DEF HandleNewConnAttaches, server, bounds, IndInv, StateOK
    <2>2. Newest' = c
      BY <1>8 DEF Newest, c
    <2>3. NewInv'
      BY <1>1, <1>3, <1>8, <2>2 DEF NewInv
    <2>4. ReleaseInv'
      BY <1>3, <1>8, <2>2 DEF ReleaseInv, Releasable
    <2>5. QED  BY <1>8, <2>1, <2>3, <2>4 DEF IndInv
  <1>9. \A d \in conns_ : d \in DOMAIN conns /\ d # c /\ Releasable(d, conns, queue)
    BY <1>1 DEF IndInv, StateOK, ReleaseInv
  <1>10. CASE l = 0
    <2> DEFINE N == Only(0, {})
    <2>1. PICK o \in {1, 2} : conns' = [conns EXCEPT ![c] = AttachedAs(conns[c], o)]
      BY <1>1, <1>10 DEF HandleNewConnAttaches, Attached, AttachedAs, c
    <2> DEFINE x == AttachedAs(conns[c], o)
    <2>2. "up" \in {"accepted", "up", "down"} /\ o \in 0 .. 2
      OBVIOUS
    <2>3. x \in Conn /\ x.loop = conns[c].loop /\ x.stage = "up" /\ x.ops = o
      BY ONLY <1>2, <2>2, ConnFields
    <2> HIDE DEF x
    <2>4. queue' = queue /\ queue \in [Loops -> Seq(Handlers)]
      BY <1>10 DEF HandleNewConnAttaches, c, IndInv, QueueInv
    <2>5. N \in [Loops -> SUBSET Handlers] /\ \A k \in Loops : N[k] = {}
      BY DEF Only
    <2>6. Adds(-1, N)
      BY <1>7, <2>4 DEF Adds
    <2> HIDE DEF N
    <2>7. Goes(-1, N)
      BY <1>3, <1>7, <2>4, <2>5, <2>6, GoesBy
    <2>8. ConnOK(x)
      BY <1>2, <2>3 DEF ConnOK
    <2>9. Changes(c, x, -1, N)
      BY <1>1, <1>3, <1>6, <1>7, <2>1, <2>3, <2>5, <2>8 DEF Changes, x
    <2>10. /\ ConnInv' /\ QueueInv' /\ ChainInv' /\ LateInv'
           /\ \A d \in DOMAIN conns : (d # c /\ Releasable(d, conns, queue)) => Releasable(d, conns', queue')
      BY <1>1, <1>3, <2>7, <2>9, ChangeKeeps
    <2>11. conns'[c] = x /\ DOMAIN conns' = DOMAIN conns /\ Len(conns') = Len(conns)
      BY <1>1, <2>7, <2>9, ChangeFacts
    <2>12. Releasable(c, conns', queue')
      BY <2>3, <2>11 DEF Releasable
    <2>13. QED  BY <1>8, <1>9, <2>10, <2>11, <2>12
  <1>11. CASE l # 0
    <2> DEFINE h == Handler("attach", c)
               N == Only(l, {h})
    <2>1. queue' = Posted(l, h) /\ conns' = conns
      BY <1>11 DEF HandleNewConnAttaches, c
    <2> HIDE DEF h, l
    <2>2. h \in Handlers /\ h.kind = "attach" /\ h.c = c /\ h.kind \notin OfAccept
      BY <1>5 DEF h
    <2>3. Goes(-1, N) /\ In(h, queue'[l])
      BY <1>2, <1>3, <2>1, <2>2, GoesPosted
    <2>4. ChainInv' /\ LateInv'
      BY <1>3, <2>3, GoesChain
    <2>5. queue \in [Loops -> Seq(Handlers)] /\ queue' = [queue EXCEPT ![l] = Append(@, h)]
      BY <2>1 DEF IndInv, QueueInv, Posted
    <2>6. Fixed
      BY FixedSets, <1>3 DEF Frame
    <2>7. QueueInv'
      <3>1. \A k \in Loops : QueueOK(k, queue[k], conns)
        BY DEF IndInv, QueueInv
      <3>2. HandlerOK(l, h, conns)
        BY <1>1, <1>11, <2>2 DEF HandlerOK, OfConn, l
      <3>3. QueueOK(l, Append(queue[l], h), conns)
        BY <1>1, <1>2, <2>2, <3>1, <3>2, QueueAttach
      <3>4. \A k \in Loops : QueueOK(k, queue'[k], conns')
        BY <2>1, <2>5, <3>1, <3>3
      <3>5. queue' \in [Loops -> Seq(Handlers)]
        BY <2>3 DEF Goes, Moves, Frame
      <3>6. QED  BY <2>6, <3>4, <3>5, QueueNext
    <2>8. ConnInv'
      BY <2>1, <2>6 DEF IndInv, ConnInv, ConnOK, Fixed
    <2>9. \A d \in conns_ : Releasable(d, conns', queue')
      BY <1>7, <1>9, <2>1, <2>3, MovesRelease, GoesMoves
    <2>10. Releasable(c, conns', queue')
      BY <2>1, <2>3 DEF Releasable, h, l
    <2>11. QED  BY <1>8, <2>1, <2>4, <2>7, <2>8, <2>9, <2>10
  <1>12. QED  BY <1>10, <1>11

-----------------------------------------------------------------------------
(* Steps of the accept chain.                                              *)

\* Handlers that end an accept.
LEMMA AcceptHandlers ==
    ASSUME IndInv, NEW cs
    PROVE  /\ Accepting \in Places /\ 0 \in Loops
           /\ Handler("accepted", Accepting) \in Handlers /\ Handler("refused", 0) \in Handlers
           /\ HandlerOK(0, Handler("accepted", Accepting), cs) /\ HandlerOK(0, Handler("refused", 0), cs)
           /\ Handler("accepted", Accepting).kind = "accepted" /\ Handler("refused", 0).kind = "refused"
  <1>1. /\ thread_num \in Nat /\ MaxConns \in Nat /\ next_ \in Nat /\ 0 \in Loops
    BY Bounds DEF IndInv, StateOK
  <1>2. Accepting \in Places /\ Accepting \in 0 .. MaxConns + thread_num
    <2>1. CASE thread_num = 0
      BY <1>1, <2>1 DEF Accepting, Places
    <2>2. CASE thread_num # 0
      <3>1. (next_ - 1) % thread_num \in 0 .. thread_num - 1
        BY <1>1, <2>2
      <3>2. QED  BY <1>1, <2>2, <3>1 DEF Accepting, Places
    <2>3. QED  BY <2>1, <2>2
  <1> DEFINE a == Accepting
  <1> HIDE DEF a
  <1>3. a \in Places /\ a \in 0 .. MaxConns + thread_num
    BY <1>2 DEF a
  <1>4. /\ Handler("accepted", a) \in Handlers /\ Handler("refused", 0) \in Handlers
        /\ Handler("accepted", a).kind = "accepted" /\ Handler("accepted", a).c = a
        /\ Handler("refused", 0).kind = "refused"
    BY <1>1, <1>3 DEF Handler, Handlers, Kinds
  <1>5. HandlerOK(0, Handler("accepted", a), cs) /\ HandlerOK(0, Handler("refused", 0), cs)
    BY <1>3, <1>4 DEF HandlerOK, OfConn
  <1>6. QED  BY <1>1, <1>3, <1>4, <1>5 DEF a

\* Handlers for the listening loop.
LEMMA MovesPosted ==
    ASSUME IndInv, thread_num' = thread_num, NEW h \in Handlers, queue' = Posted(0, h)
    PROVE  Moves(-1, Only(0, {h})) /\ queue'[0] = Append(queue[0], h) /\ queue[0] \in Seq(Handlers)
  <1>1. queue \in [Loops -> Seq(Handlers)] /\ queue' = [queue EXCEPT ![0] = Append(@, h)] /\ 0 \in Loops
    BY Bounds DEF IndInv, QueueInv, Posted
  <1>2. DOMAIN queue' = Loops /\ queue' = [k \in Loops |-> queue'[k]]
    BY <1>1
  <1>3. Only(0, {h}) \in [Loops -> SUBSET Handlers] /\ Only(0, {h})[0] = {h}
    BY <1>1 DEF Only
  <1>4. -1 \notin Loops /\ \A k \in Loops : Rest(k, -1) = queue[k]
    BY NoLoop
  <1>5. Adds(-1, Only(0, {h}))
    BY <1>1, <1>3, <1>4 DEF Adds
  <1>6. QED  BY <1>1, <1>2, <1>3, <1>4, <1>5, MovesBy

\* An accept ends.
LEMMA Ends ==
    ASSUME IndInv, NEW h \in Handlers, h.kind \in OfAccept, HandlerOK(0, h, conns), acceptor_ = "accepting",
           acceptor_' = "open", queue' = Posted(0, h), StateOK',
           UNCHANGED <<thread_num, closed_, conns, conns_, pc, told>>
    PROVE  IndInv'
  <1>1. Moves(-1, Only(0, {h})) /\ queue'[0] = Append(queue[0], h) /\ queue[0] \in Seq(Handlers)
    BY MovesPosted
  <1>2. \A l \in Loops : \A g \in Only(0, {h})[l] : l = 0 /\ g = h
    BY DEF Only
  <1>3. \A l \in Loops : \A g \in Only(0, {h})[l] : HandlerOK(l, g, conns) /\ g.kind # "attach"
                                                       /\ (g.kind \in OfConn => pc' # "attach")
    BY <1>2 DEF OfAccept, OfConn
  <1>4. QueueInv' /\ ConnInv' /\ NewInv' /\ ReleaseInv'
    <2>1. -1 \notin Loops /\ -1 # 0 /\ pc' = pc /\ conns' = conns /\ \A d \in conns_' : d \in conns_
      BY NoLoop
    <2>2. QED  BY <1>1, <1>3, <2>1, QuietKeeps
  <1>5. ~Ending(queue[0]) /\ pc \notin {"attach", "insert", "new"} /\ ~closed_
    BY DEF IndInv, ChainInv, LateInv
  <1>6. Single(queue'[0]) /\ Ending(queue'[0])
    BY <1>1, <1>5, SinglePost
  <1>7. ChainInv'
    BY <1>5, <1>6 DEF ChainInv
  <1>8. LateInv'
    BY <1>5 DEF LateInv
  <1>9. QED  BY <1>4, <1>7, <1>8 DEF IndInv

\* A peer connects.
LEMMA ConnectsKeeps ==
    ASSUME IndInv, Connects
    PROVE  IndInv'
  <1> DEFINE h == Handler("accepted", Accepting)
  <1>1. h \in Handlers /\ HandlerOK(0, h, conns) /\ h.kind \in OfAccept
    BY AcceptHandlers DEF OfAccept
  <1>2. queue' = Posted(0, h) /\ acceptor_ = "accepting" /\ acceptor_' = "open"
    BY DEF Connects
  <1> HIDE DEF h
  <1>3. StateOK'
    BY DEF Connects, IndInv, StateOK, bounds
  <1>4. UNCHANGED <<thread_num, closed_, conns, conns_, pc, told>>
    BY DEF Connects
  <1>5. QED  BY <1>1, <1>2, <1>3, <1>4, Ends

\* The kernel refuses.
LEMMA AcceptFailsKeeps ==
    ASSUME IndInv, AcceptFails
    PROVE  IndInv'
  <1> DEFINE h == Handler("refused", 0)
  <1>1. h \in Handlers /\ HandlerOK(0, h, conns) /\ h.kind \in OfAccept
    BY AcceptHandlers DEF OfAccept
  <1>2. queue' = Posted(0, h) /\ acceptor_ = "accepting" /\ acceptor_' = "open"
    BY DEF AcceptFails
  <1> HIDE DEF h
  <1>3. StateOK'
    <2>1. fails' \in 0 .. MaxFails
      BY Bounds DEF AcceptFails, IndInv, StateOK
    <2>2. QED  BY <2>1 DEF AcceptFails, IndInv, StateOK
  <1>4. UNCHANGED <<thread_num, closed_, conns, conns_, pc, told>>
    BY DEF AcceptFails
  <1>5. QED  BY <1>1, <1>2, <1>3, <1>4, Ends

\* The accept that was handled is followed by another, unless the server is
\* closed, and then the acceptor is.
LEMMA NextAcceptKeeps ==
    ASSUME IndInv, NEW p \in {-1, 0}, p = 0 => queue[0] # <<>>, NEW ok, NEW q,
           q = [l \in Loops |-> Rest(l, p)], NextAccept(ok, q), ~Ending(Rest(0, p)), acceptor_ # "accepting",
           UNCHANGED <<thread_num, closed_>>, pc' = "idle"
    PROVE  /\ Moves(p, Only(0, {Handler("refused", 0)})) /\ ChainInv' /\ ~Arriving'
           /\ next_' \in Nat /\ acceptor_' \in {"open", "accepting", "closed"} /\ (closed_ => acceptor_' = "closed")
  <1> DEFINE h == Handler("refused", 0)
             N == Only(0, {h})
             r == Rest(0, p)
  <1>1. h \in Handlers /\ h.kind = "refused" /\ 0 \in Loops /\ h.kind \in OfAccept
    BY AcceptHandlers DEF OfAccept
  <1>2. queue \in [Loops -> Seq(Handlers)] /\ next_ \in Nat /\ acceptor_ \in {"open", "accepting", "closed"}
        /\ (closed_ => acceptor_ = "closed")
    BY DEF IndInv, QueueInv, StateOK, LateInv
  <1>3. r \in Seq(Handlers) /\ q[0] = r
    BY <1>1, <1>2 DEF Rest
  <1>4. N \in [Loops -> SUBSET Handlers] /\ N[0] = {h}
    BY <1>1 DEF Only
  <1>5. next_' \in Nat
    BY <1>2 DEF NextAccept, AsyncAccept
  <1> HIDE DEF N, r
  <1>6. \/ queue' = q /\ ((~closed_ /\ acceptor_' = "accepting") \/ (closed_ /\ acceptor_' = acceptor_))
        \/ queue' = [q EXCEPT ![0] = Append(@, h)] /\ acceptor_ = "closed" /\ acceptor_' = acceptor_
    BY DEF NextAccept, AsyncAccept, AcceptsAgain
  <1> HIDE DEF h
  <1>7. ASSUME queue' = q, acceptor_' = "accepting" \/ (closed_ /\ acceptor_' = acceptor_)
        PROVE  Adds(p, N) /\ ChainInv' /\ ~Arriving'
    <2>1. queue'[0] = r
      BY <1>3, <1>7
    <2>2. Adds(p, N)
      BY <1>7 DEF Adds
    <2>3. Single(r)
      BY DEF Single, Ending, r
    <2>4. ChainInv'
      BY <1>2, <1>7, <2>1, <2>3 DEF ChainInv, r
    <2>5. ~Arriving'
      BY <2>1 DEF Arriving, Ending, OfAccept, r
    <2>6. QED  BY <2>2, <2>4, <2>5
  <1>8. ASSUME queue' = [q EXCEPT ![0] = Append(@, h)], acceptor_ = "closed", acceptor_' = acceptor_
        PROVE  Adds(p, N) /\ ChainInv' /\ ~Arriving'
    <2>1. queue'[0] = Append(r, h) /\ \A l \in Loops : l # 0 => queue'[l] = Rest(l, p)
      BY <1>1, <1>3, <1>8
    <2>2. Adds(p, N)
      BY <1>4, <2>1 DEF Adds, r
    <2>3. Single(queue'[0])
      BY <1>1, <1>3, <2>1, SinglePost DEF r
    <2>4. ChainInv'
      BY <1>8, <2>3 DEF ChainInv
    <2>5. \A i \in DOMAIN Append(r, h) : (i \in DOMAIN r /\ Append(r, h)[i] = r[i]) \/ Append(r, h)[i] = h
      BY <1>1, <1>3
    <2>6. ~Arriving'
      BY <1>1, <2>1, <2>5 DEF Arriving, Ending, OfAccept, r
    <2>7. QED  BY <2>2, <2>4, <2>6
  <1>9. Adds(p, N) /\ ChainInv' /\ ~Arriving'
    BY <1>6, <1>7, <1>8
  <1>10. DOMAIN queue' = Loops /\ queue' = [l \in Loops |-> queue'[l]]
    BY <1>6
  <1>11. Moves(p, N)
    <2>1. p \in Loops => queue[p] # <<>>
      BY NoLoop
    <2>2. QED  BY <1>4, <1>9, <1>10, <2>1, MovesBy
  <1>12. QED  BY <1>2, <1>5, <1>6, <1>9, <1>11 DEF N, h

\* Start.
LEMMA StartKeeps ==
    ASSUME IndInv, Start
    PROVE  IndInv'
  <1>1. pc = "new" /\ pc' = "idle" /\ acceptor_ = "open" /\ ~Ending(queue[0]) /\ ~closed_
    BY DEF Start, IndInv, ChainInv, LateInv
  <1>2. /\ acceptor_' = "accepting" /\ queue' = queue /\ next_' = IF thread_num = 0 THEN next_ ELSE next_ + 1
        /\ UNCHANGED <<thread_num, closed_, conns, conns_, told, fails, calls>>
    BY <1>1 DEF Start, AsyncAccept, bounds
  <1>3. StateOK'
    BY <1>1, <1>2 DEF IndInv, StateOK
  <1>4. -1 \notin Loops /\ \A k \in Loops : Rest(k, -1) = queue[k]
    BY NoLoop
  <1>5. Moves(-1, Only(0, {}))
    <2>1. DOMAIN queue' = Loops /\ queue' = [k \in Loops |-> queue'[k]]
      BY <1>2 DEF IndInv, QueueInv
    <2>2. Only(0, {}) \in [Loops -> SUBSET Handlers]
      BY DEF Only
    <2>3. Adds(-1, Only(0, {}))
      BY <1>2, <1>4 DEF Adds
    <2>4. QED  BY <1>2, <1>4, <2>1, <2>2, <2>3, MovesBy
  <1>6. QueueInv' /\ ConnInv' /\ NewInv' /\ ReleaseInv'
    <2>1. \A l \in Loops : Only(0, {})[l] = {}
      BY DEF Only
    <2>2. conns' = conns /\ \A d \in conns_' : d \in conns_
      BY <1>2
    <2>3. QED  BY <1>1, <1>4, <1>5, <2>1, <2>2, QuietKeeps
  <1>7. ChainInv'
    BY <1>1, <1>2 DEF IndInv, ChainInv
  <1>8. LateInv'
    BY <1>1, <1>2 DEF LateInv
  <1>9. QED  BY <1>3, <1>6, <1>7, <1>8 DEF IndInv

\* The handlers NextAccept posts, for QuietKeeps.
LEMMA RefusedOnly ==
    ASSUME IndInv, NEW l \in Loops, NEW h \in Only(0, {Handler("refused", 0)})[l]
    PROVE  HandlerOK(l, h, conns) /\ h.kind # "attach" /\ h.kind \notin OfConn
  <1>1. l = 0 /\ h = Handler("refused", 0)
    BY DEF Only
  <1>2. QED  BY <1>1, AcceptHandlers DEF OfConn

\* The handler of a failed accept.
LEMMA RunRefusedKeeps ==
    ASSUME IndInv, RunRefused
    PROVE  IndInv'
  <1>1. /\ pc = "idle" /\ queue[0] # <<>> /\ Head(queue[0]).kind = "refused" /\ 0 \in Loops
        /\ NextAccept(FALSE, Popped(0))
        /\ UNCHANGED <<thread_num, closed_, conns, conns_, pc, told, fails, calls>>
    BY Bounds DEF RunRefused, Runs, bounds
  <1>2. queue \in [Loops -> Seq(Handlers)] /\ queue[0] \in Seq(Handlers) /\ Single(queue[0])
    BY <1>1 DEF IndInv, QueueInv, ChainInv
  <1>3. Popped(0) = [l \in Loops |-> Rest(l, 0)] /\ Rest(0, 0) = Tail(queue[0])
    BY <1>2 DEF Popped, Rest
  <1>4. Head(queue[0]).kind \in OfAccept /\ Head(queue[0]).kind \notin OfConn
    BY <1>1 DEF OfAccept, OfConn
  <1>5. ~Ending(Rest(0, 0))
    BY <1>1, <1>2, <1>3, <1>4, SingleTail
  <1>6. acceptor_ # "accepting"
    <2>1. 1 \in DOMAIN queue[0] /\ queue[0][1] = Head(queue[0])
      BY <1>1, <1>2, TailFacts
    <2>2. Ending(queue[0])
      BY <1>4, <2>1 DEF Ending
    <2>3. QED  BY <2>2 DEF IndInv, ChainInv
  <1>7. /\ Moves(0, Only(0, {Handler("refused", 0)})) /\ ChainInv' /\ ~Arriving'
        /\ next_' \in Nat /\ acceptor_' \in {"open", "accepting", "closed"} /\ (closed_ => acceptor_' = "closed")
    <2>1. 0 \in {-1, 0} /\ pc' = "idle" /\ UNCHANGED <<thread_num, closed_>>
      BY <1>1
    <2>2. QED  BY <1>1, <1>3, <1>5, <1>6, <2>1, NextAcceptKeeps
  <1>8. StateOK'
    BY <1>1, <1>7 DEF IndInv, StateOK
  <1>9. QueueInv' /\ ConnInv' /\ NewInv' /\ ReleaseInv'
    <2>1. conns' = conns /\ (\A d \in conns_' : d \in conns_) /\ pc' = "idle" /\ pc # "insert"
      BY <1>1
    <2>2. \A l \in Loops : \A h \in Only(0, {Handler("refused", 0)})[l] :
              HandlerOK(l, h, conns) /\ h.kind # "attach" /\ (h.kind \in OfConn => pc' # "attach")
      BY RefusedOnly
    <2>3. QED  BY <1>4, <1>7, <2>1, <2>2, QuietKeeps
  <1>10. LateInv'
    BY <1>1, <1>7 DEF IndInv, LateInv
  <1>11. QED  BY <1>7, <1>8, <1>9, <1>10 DEF IndInv

\* The end of HandleNewConn.
LEMMA HandleNewConnInsertsKeeps ==
    ASSUME IndInv, HandleNewConnInserts
    PROVE  IndInv'
  <1>1. /\ pc = "insert" /\ pc' = "idle" /\ conns_' = conns_ \cup {Newest}
        /\ NextAccept(TRUE, queue)
        /\ UNCHANGED <<thread_num, closed_, conns, told, fails, calls>>
    BY DEF HandleNewConnInserts, bounds
  <1>2. queue \in [Loops -> Seq(Handlers)] /\ 0 \in Loops /\ Newest \in DOMAIN conns
    BY <1>1, Bounds DEF IndInv, QueueInv, NewInv
  <1>3. -1 \notin Loops /\ \A k \in Loops : Rest(k, -1) = queue[k]
    BY NoLoop
  <1>4. queue = [l \in Loops |-> Rest(l, -1)]
    BY <1>2, <1>3
  <1>5. ~Ending(Rest(0, -1)) /\ acceptor_ # "accepting"
    BY <1>1, <1>2, <1>3 DEF IndInv, ChainInv
  <1>6. /\ Moves(-1, Only(0, {Handler("refused", 0)})) /\ ChainInv' /\ ~Arriving'
        /\ next_' \in Nat /\ acceptor_' \in {"open", "accepting", "closed"} /\ (closed_ => acceptor_' = "closed")
    <2>1. -1 \in {-1, 0} /\ -1 # 0 /\ UNCHANGED <<thread_num, closed_>>
      BY <1>1
    <2>2. QED  BY <1>1, <1>4, <1>5, <2>1, NextAcceptKeeps
  <1>7. StateOK'
    BY <1>1, <1>2, <1>6 DEF IndInv, StateOK
  <1>8. QueueInv' /\ ConnInv' /\ NewInv' /\ ReleaseInv'
    <2>1. conns' = conns /\ \A d \in conns_' : d \in conns_ \/ (pc = "insert" /\ pc' = "idle" /\ d = Newest)
      BY <1>1
    <2>2. \A l \in Loops : \A h \in Only(0, {Handler("refused", 0)})[l] :
              HandlerOK(l, h, conns) /\ h.kind # "attach" /\ (h.kind \in OfConn => pc' # "attach")
      BY RefusedOnly
    <2>3. QED  BY <1>1, <1>3, <1>6, <2>1, <2>2, QuietKeeps
  <1>9. LateInv'
    BY <1>1, <1>6 DEF IndInv, LateInv, Arriving
  <1>10. QED  BY <1>6, <1>7, <1>8, <1>9 DEF IndInv

\* The start of HandleNewConn: the connection is made, or its constructor throws.
LEMMA RunAcceptedKeeps ==
    ASSUME IndInv, NEW reset \in BOOLEAN, RunAccepted(reset)
    PROVE  IndInv'
  <1> DEFINE c == Head(queue[0]).c
             n == Len(conns) + 1
  <1>1. /\ pc = "idle" /\ queue[0] # <<>> /\ Head(queue[0]).kind = "accepted" /\ 0 \in Loops
        /\ Len(conns) < MaxConns /\ Len(conns) \in Nat /\ DOMAIN conns = 1 .. Len(conns) /\ conns \in Seq(Conn)
        /\ queue' = [queue EXCEPT ![0] = Tail(@)]
        /\ UNCHANGED <<thread_num, acceptor_, next_, closed_, conns_, told, fails, calls>>
    BY Bounds DEF RunAccepted, Runs, Popped, server, bounds, IndInv, ConnInv
  <1>2. /\ queue \in [Loops -> Seq(Handlers)] /\ queue[0] \in Seq(Handlers) /\ Single(queue[0])
        /\ \A l \in Loops : QueueOK(l, queue[l], conns)
    BY <1>1 DEF IndInv, QueueInv, ChainInv
  <1>3. queue'[0] = Tail(queue[0]) /\ \A l \in Loops : l # 0 => queue'[l] = queue[l]
    BY <1>1, <1>2
  <1>4. c \in Places /\ Head(queue[0]).kind \in OfAccept /\ Head(queue[0]).kind \notin OfConn
    BY <1>1, <1>2, QueueTail DEF HandlerOK, OfAccept, OfConn
  <1> HIDE DEF c
  <1>5. Fixed
    BY <1>1, FixedSets
  <1>6. /\ Single(queue'[0]) /\ ~Ending(queue'[0]) /\ Ending(queue[0])
    <2>1. 1 \in DOMAIN queue[0] /\ queue[0][1] = Head(queue[0])
      BY <1>1, <1>2, TailFacts
    <2>2. Ending(queue[0])
      BY <1>4, <2>1 DEF Ending
    <2>3. QED  BY <1>1, <1>2, <1>3, <1>4, <2>2, SingleTail
  <1>7. acceptor_ # "accepting" /\ Arriving
    <2>1. 1 \in DOMAIN queue[0] /\ queue[0][1] = Head(queue[0])
      BY <1>1, <1>2, TailFacts
    <2>2. QED  BY <1>1, <1>6, <2>1 DEF IndInv, ChainInv, Arriving
  <1>8. \A l \in Loops : QueueOK(l, queue'[l], conns) /\ queue'[l] \in Seq(Handlers)
    <2>1. QueueOK(0, Tail(queue[0]), conns)
      BY <1>1, <1>2, QueueTail
    <2>2. QED  BY <1>2, <1>3, <2>1 DEF QueueOK
  <1>9. queue' \in [Loops -> Seq(Handlers)]
    BY <1>1, <1>2, <1>8
  <1>10. LateInv'
    <2>1. CASE closed_
      <3>1. conns_ \subseteq told /\ acceptor_ = "closed"
        BY <1>7, <2>1 DEF IndInv, LateInv
      <3>2. QED  BY <1>1, <3>1 DEF LateInv
    <2>2. CASE ~closed_
      BY <1>1, <2>2 DEF LateInv
    <2>3. QED  BY <2>1, <2>2
  <1>11. \A d \in DOMAIN conns : Releasable(d, conns, queue) => Releasable(d, conns, queue')
    <2>1. \A h : In(h, queue[0]) => h = Head(queue[0]) \/ In(h, Tail(queue[0]))
      BY <1>1, <1>2, TailFacts
    <2>2. \A k \in OfConn, d \in DOMAIN conns : Handler(k, d) # Head(queue[0])
      BY <1>4 DEF Handler
    <2>3. \A k \in OfConn, d \in DOMAIN conns, l \in Loops :
              In(Handler(k, d), queue[l]) => In(Handler(k, d), queue'[l])
      BY <1>3, <2>1, <2>2
    <2>4. \A d \in DOMAIN conns : conns[d].loop \in Loops
      BY Bounds DEF IndInv, ConnInv, ConnOK
    <2>5. QED  BY <1>1, <2>3, <2>4 DEF Releasable, OfConn
  <1>12. \A d \in conns_ : d \in DOMAIN conns /\ Releasable(d, conns, queue')
    BY <1>11 DEF IndInv, StateOK, ReleaseInv
  <1>13. CASE reset
    <2>1. pc' = "terminated" /\ conns' = conns
      BY <1>13 DEF RunAccepted
    <2>2. StateOK'
      BY <1>1, <2>1 DEF IndInv, StateOK
    <2>3. ConnInv'
      BY <1>5, <2>1 DEF IndInv, ConnInv, ConnOK, Fixed
    <2>4. QueueInv'
      BY <1>5, <1>8, <1>9, <2>1, QueueNext
    <2>5. NewInv' /\ ChainInv'
      BY <1>6, <2>1 DEF NewInv, ChainInv
    <2>6. ReleaseInv'
      BY <1>1, <1>12, <2>1 DEF ReleaseInv, Releasable
    <2>7. QED  BY <1>10, <2>2, <2>3, <2>4, <2>5, <2>6 DEF IndInv
  <1>14. CASE ~reset
    <2> DEFINE x == [loop |-> c, stage |-> "accepted", open |-> TRUE, ops |-> 0]
    <2>1. pc' = "attach" /\ conns' = Append(conns, x)
      BY <1>14 DEF RunAccepted, c
    <2>2. c \in Nat
      BY <1>4, Bounds
    <2>3. x \in Conn /\ x.loop = c /\ x.stage = "accepted" /\ x.open /\ x.ops = 0
      <3>1. 0 \in 0 .. 2 /\ TRUE \in BOOLEAN /\ "accepted" \in {"accepted", "up", "down"}
        OBVIOUS
      <3>2. x \in Conn
        BY <2>2, <3>1, Zenon DEF Conn
      <3>3. QED  BY <3>2
    <2> HIDE DEF x
    <2>4. /\ conns' \in Seq(Conn) /\ Len(conns') = n /\ n <= MaxConns /\ DOMAIN conns' = 1 .. n /\ conns'[n] = x
          /\ \A d \in DOMAIN conns : d \in DOMAIN conns' /\ conns'[d] = conns[d]
          /\ n \notin DOMAIN conns /\ n \in DOMAIN conns'
      BY <1>1, <2>1, <2>3, Bounds
    <2>5. \A d \in DOMAIN conns' : d = n \/ d \in DOMAIN conns
      BY <1>1, <2>4
    <2> HIDE DEF n
    <2>6. StateOK'
      BY <1>1, <2>1, <2>4 DEF IndInv, StateOK
    <2>7. ConnInv'
      <3>1. ConnOK(x)
        BY <1>4, <2>3 DEF ConnOK
      <3>2. \A d \in DOMAIN conns : ConnOK(conns[d])
        BY DEF IndInv, ConnInv
      <3>3. \A d \in DOMAIN conns' : ConnOK(conns'[d])
        BY <2>4, <2>5, <3>1, <3>2
      <3>4. QED  BY <1>5, <2>4, <3>3 DEF ConnInv, ConnOK, Conn, Fixed
    <2>8. QueueInv'
      <3>1. \A l \in Loops : QueueOK(l, queue'[l], Append(conns, x))
        BY <1>1, <1>8, <2>3, QueueNew
      <3>2. QED  BY <1>5, <1>9, <2>1, <3>1, QueueNext
    <2>9. Newest' = n
      BY <2>4 DEF Newest
    <2>10. NewInv'
      <3>1. \A l \in Loops, h \in Handlers : In(h, queue'[l]) /\ h.kind \in OfConn => h.c # n
        BY <1>8, <2>4 DEF QueueOK, HandlerOK
      <3>2. n \notin conns_
        BY <2>4 DEF IndInv, StateOK
      <3>3. QED  BY <1>1, <1>5, <2>1, <2>3, <2>4, <2>9, <3>1, <3>2 DEF NewInv, Fixed, In
    <2>11. ReleaseInv'
      <3>1. \A d \in conns_ : Releasable(d, conns', queue')
        BY <1>12, <2>4 DEF Releasable
      <3>2. QED  BY <1>1, <2>1, <3>1 DEF ReleaseInv, Releasable
    <2>12. ChainInv'
      BY <1>1, <1>6, <1>7, <2>1 DEF ChainInv
    <2>13. QED  BY <1>10, <2>6, <2>7, <2>8, <2>10, <2>11, <2>12 DEF IndInv
  <1>15. QED  BY <1>13, <1>14

-----------------------------------------------------------------------------
(* StopInLoop.                                                             *)

\* Posting twice.
LEMMA FollowsTwice ==
    ASSUME NEW q \in Seq(Handlers), NEW N \in SUBSET Handlers, NEW t \in Seq(N), NEW u \in Seq(N)
    PROVE  Follows(q, q \o t \o u, N)
  <1>1. t \o u \in Seq(N)
    OBVIOUS
  <1>2. t \in Seq(Handlers) /\ u \in Seq(Handlers)
    OBVIOUS
  <1>3. q \o t \o u = q \o (t \o u)
    BY <1>2
  <1>4. QED  BY <1>1, <1>3 DEF Follows

\* The connections StopInLoop closes in loop l, and the accept it cancels.
CloseSet(l) == {Handler("close", c) : c \in {d \in conns_ : conns[d].loop = l}}
Cancel(l)   == IF l = 0 /\ acceptor_ = "accepting" THEN {Handler("refused", 0)} ELSE {}

\* StopInLoop, from a handler of its own or from a callback.
LEMMA StopInLoopKeeps ==
    ASSUME IndInv, NEW p \in {-1, 0}, p = 0 => queue[0] # <<>> /\ Head(queue[0]).kind = "stop" /\ pc = "idle",
           NEW q, q = [l \in Loops |-> Rest(l, p)], StopInLoop(q), pc # "new",
           (pc' = pc /\ pc' # "attach" /\ p # 0) \/ pc' \in {"idle", "stuck"},
           pc \in {"attach", "insert"} <=> pc' \in {"attach", "insert"},
           closed_' \in BOOLEAN, calls' \in 0 .. MaxCalls
    PROVE  IndInv'
  <1> DEFINE N == [l \in Loops |-> CloseSet(l) \cup Cancel(l)]
             R(l) == IF l = 0 /\ acceptor_ = "accepting" THEN <<Handler("refused", 0)>> ELSE <<>>
  <1>1. /\ acceptor_' = "closed" /\ told' = told \cup conns_ /\ conns_' = conns_
        /\ UNCHANGED <<thread_num, next_, conns, fails>>
        /\ queue' = [l \in Loops |-> q[l] \o R(l) \o Closes(l)]
    BY DEF StopInLoop, ToClose, Kept
  <1>2. /\ Handler("refused", 0) \in Handlers /\ Handler("refused", 0).kind = "refused"
        /\ HandlerOK(0, Handler("refused", 0), conns) /\ 0 \in Loops
    BY AcceptHandlers
  <1>3. \A l \in Loops : Closes(l) \in Seq(CloseSet(l)) /\ CloseSet(l) \in SUBSET Handlers
    BY ClosesFacts DEF CloseSet
  <1>4. \A l \in Loops : R(l) \in Seq(Cancel(l)) /\ Cancel(l) \in SUBSET Handlers
    <2>1. <<Handler("refused", 0)>> \in Seq({Handler("refused", 0)}) /\ <<>> \in Seq({})
      OBVIOUS
    <2>2. SUFFICES ASSUME NEW l \in Loops PROVE R(l) \in Seq(Cancel(l)) /\ Cancel(l) \in SUBSET Handlers
      OBVIOUS
    <2>3. CASE l = 0 /\ acceptor_ = "accepting"
      BY <1>2, <2>1, <2>3 DEF Cancel
    <2>4. CASE ~(l = 0 /\ acceptor_ = "accepting")
      <3>1. R(l) = <<>> /\ Cancel(l) = {}
        BY <2>4 DEF Cancel
      <3>2. QED  BY <2>1, <3>1
    <2>5. QED  BY <2>3, <2>4
  <1>5. N \in [Loops -> SUBSET Handlers] /\ \A l \in Loops : N[l] = CloseSet(l) \cup Cancel(l)
    BY <1>3, <1>4
  <1>6. queue \in [Loops -> Seq(Handlers)] /\ \A l \in Loops : q[l] = Rest(l, p)
    BY DEF IndInv, QueueInv
  <1>7. \A l \in Loops : Rest(l, p) \in Seq(Handlers)
    <2>1. \A l \in Loops : l = p => queue[l] # <<>>
      BY NoLoop
    <2>2. \A l \in Loops : queue[l] # <<>> => Tail(queue[l]) \in Seq(Handlers)
      BY <1>6
    <2>3. QED  BY <1>6, <2>1, <2>2 DEF Rest
  <1>8. \A l \in Loops : queue'[l] = Rest(l, p) \o R(l) \o Closes(l)
    BY <1>1, <1>6
  <1> HIDE DEF N, R
  <1>9. Moves(p, N)
    <2>1. ASSUME NEW l \in Loops
          PROVE  Follows(Rest(l, p), queue'[l], N[l]) /\ queue'[l] \in Seq(Handlers)
      <3>1. R(l) \in Seq(N[l]) /\ Closes(l) \in Seq(N[l]) /\ N[l] \in SUBSET Handlers
        BY <1>3, <1>4, <1>5
      <3>2. Follows(Rest(l, p), queue'[l], N[l])
        BY <1>7, <1>8, <3>1, FollowsTwice
      <3>3. QED  BY <1>7, <3>1, <3>2, FollowsFacts
    <2>2. p \in Loops => queue[p] # <<>>
      BY NoLoop
    <2>3. queue' \in [Loops -> Seq(Handlers)]
      BY <1>1, <2>1
    <2>4. QED  BY <1>1, <1>5, <2>1, <2>2, <2>3 DEF Moves
  <1>10. \A l \in Loops : \A h \in CloseSet(l) : HandlerOK(l, h, conns) /\ h.kind = "close"
    <2>1. ASSUME NEW l \in Loops, NEW c \in conns_, conns[c].loop = l
          PROVE  HandlerOK(l, Handler("close", c), conns) /\ Handler("close", c).kind = "close"
      <3>1. c \in DOMAIN conns
        BY DEF IndInv, StateOK
      <3>2. Handler("close", c).kind = "close" /\ Handler("close", c).c = c
        BY DEF Handler
      <3>3. QED  BY <2>1, <3>1, <3>2 DEF HandlerOK, OfConn
    <2>2. QED  BY <2>1 DEF CloseSet
  <1>11. \A l \in Loops : \A h \in N[l] : HandlerOK(l, h, conns) /\ h.kind # "attach"
                                             /\ (h.kind \in OfConn => pc' # "attach")
    BY <1>2, <1>5, <1>10 DEF Cancel
  <1>12. QueueInv' /\ ConnInv' /\ NewInv' /\ ReleaseInv'
    <2>1. conns' = conns /\ \A d \in conns_' : d \in conns_
      BY <1>1
    <2>2. p \in Loops => pc # "insert" /\ (Head(queue[p]).kind \in OfConn => Head(queue[p]).c \notin conns_')
      BY NoLoop DEF OfConn
    <2>3. QED  BY <1>9, <1>11, <2>1, <2>2, QuietKeeps
  <1>13. StateOK'
    BY <1>1 DEF IndInv, StateOK
  <1>14. LateInv'
    BY <1>1 DEF LateInv
  <1>15. ChainInv'
    <2> DEFINE r == Rest(0, p)
               m == r \o R(0)
    <2>1. r \in Seq(Handlers) /\ Single(r) /\ (Ending(r) => Ending(queue[0]))
      <3>1. Single(queue[0]) /\ queue[0] \in Seq(Handlers)
        BY <1>2, <1>6 DEF IndInv, ChainInv
      <3>2. CASE p = 0
        <4>1. Rest(0, p) = Tail(queue[0]) /\ queue[0] # <<>>
          BY <3>2 DEF Rest
        <4>2. QED  BY <1>2, <1>7, <3>1, <4>1, SingleTail DEF Ending, Has
      <3>3. CASE p # 0
        BY <3>1, <3>3 DEF Rest
      <3>4. QED  BY <3>2, <3>3
    <2> HIDE DEF r
    <2>2. m \in Seq(Handlers) /\ Single(m) /\ (Ending(m) => Ending(queue[0]) \/ acceptor_ = "accepting")
      <3>1. CASE acceptor_ = "accepting"
        <4>1. m = Append(r, Handler("refused", 0))
          BY <2>1, <3>1 DEF R
        <4>2. ~Ending(r)
          BY <2>1, <3>1 DEF IndInv, ChainInv
        <4>3. PICK x \in Handlers : x = Handler("refused", 0) /\ x.kind \in OfAccept
          BY <1>2 DEF OfAccept
        <4>4. Append(r, x) \in Seq(Handlers) /\ Single(Append(r, x))
          <5>1. Append(r, x) \in Seq(Handlers)
            BY ONLY <2>1, <4>3
          <5>2. Single(Append(r, x))
            BY ONLY <2>1, <4>2, <4>3, SinglePost, Zenon
          <5>3. QED  BY ONLY <5>1, <5>2
        <4>5. m = Append(r, x)
          BY ONLY <4>1, <4>3
        <4>6. QED  BY ONLY <3>1, <4>4, <4>5
      <3>2. CASE acceptor_ # "accepting"
        <4>1. m = r
          BY <2>1, <3>2 DEF R
        <4>2. QED  BY <2>1, <4>1
      <3>3. QED  BY <3>1, <3>2
    <2>3. queue'[0] = m \o Closes(0)
      BY <1>2, <1>8 DEF r
    <2> HIDE DEF m
    <2>4. Follows(m, queue'[0], CloseSet(0)) /\ CloseSet(0) \in SUBSET Handlers
      BY <1>2, <1>3, <2>2, <2>3, FollowsCases
    <2>5. \A h \in CloseSet(0) : h.kind \notin OfAccept
      BY <1>2, <1>10 DEF OfAccept
    <2>6. Single(queue'[0])
      BY <2>2, <2>4, <2>5, SingleFollows
    <2>7. Ending(queue'[0]) => Ending(m)
      BY <2>2, <2>4, <2>5, FollowsFacts DEF Ending, Has
    <2>8. Ending(queue'[0]) => pc' \notin {"attach", "insert"}
      BY <2>2, <2>7 DEF IndInv, ChainInv
    <2>9. pc' # "new"
      OBVIOUS
    <2>10. QED  BY <1>1, <2>6, <2>8, <2>9 DEF ChainInv
  <1>16. QED  BY <1>12, <1>13, <1>14, <1>15 DEF IndInv

\* Of its own.
LEMMA RunStopKeeps ==
    ASSUME IndInv, RunStop
    PROVE  IndInv'
  <1>1. pc = "idle" /\ queue[0] # <<>> /\ Head(queue[0]).kind = "stop" /\ StopInLoop(Popped(0))
    BY DEF RunStop, Runs
  <1>2. Popped(0) = [l \in Loops |-> Rest(l, 0)]
    BY DEF Popped, Rest, IndInv, QueueInv
  <1>3. /\ pc' \in {"idle", "stuck"} /\ closed_' \in BOOLEAN /\ calls' \in 0 .. MaxCalls /\ 0 \in {-1, 0}
    BY <1>1 DEF RunStop, IndInv, StateOK
  <1>4. /\ pc \in {"attach", "insert"} <=> pc' \in {"attach", "insert"}
        /\ pc # "new"
    BY <1>1, <1>3
  <1>5. QED  BY <1>1, <1>2, <1>3, <1>4, StopInLoopKeeps

\* From a callback.
LEMMA StopFromCallbackKeeps ==
    ASSUME IndInv, StopFromCallback
    PROVE  IndInv'
  <1>1. pc \in {"insert", "down"} /\ pc' = pc /\ StopInLoop(queue) /\ closed_' = TRUE
    BY DEF StopFromCallback
  <1>2. queue = [l \in Loops |-> Rest(l, -1)]
    <2>1. queue = [l \in Loops |-> queue[l]] /\ \A l \in Loops : Rest(l, -1) = queue[l]
      BY NoLoop DEF IndInv, QueueInv
    <2>2. QED  BY <2>1
  <1>3. calls' \in 0 .. MaxCalls /\ -1 \in {-1, 0} /\ -1 # 0 /\ closed_' \in BOOLEAN
    BY <1>1, CallBound DEF StopFromCallback
  <1>4. /\ pc \in {"attach", "insert"} <=> pc' \in {"attach", "insert"}
        /\ pc # "new" /\ pc' # "attach"
    BY <1>1
  <1>5. QED  BY <1>1, <1>2, <1>3, <1>4, StopInLoopKeeps

-----------------------------------------------------------------------------
(* The theorems.                                                           *)

\* The invariant holds at first.
LEMMA InitInv ==
    ASSUME Init
    PROVE  IndInv
  <1>1. thread_num \in Nat /\ MaxConns \in Nat /\ MaxFails \in Nat /\ MaxCalls \in Nat
    BY BoundAssumption DEF Init
  <1>2. 0 \in Loops /\ \A l \in Loops : queue[l] = <<>>
    BY <1>1 DEF Init, Loops
  <1>3. StateOK
    <2>1. closed_ \in BOOLEAN /\ conns_ \subseteq DOMAIN conns /\ told \subseteq DOMAIN conns
      BY DEF Init
    <2>2. fails \in 0 .. MaxFails /\ calls \in 0 .. MaxCalls /\ next_ \in Nat
      BY <1>1 DEF Init
    <2>3. QED  BY <2>1, <2>2 DEF Init, StateOK
  <1>4. ConnInv
    BY <1>1 DEF Init, ConnInv
  <1>5. QueueInv
    <2>1. queue \in [Loops -> Seq(Handlers)]
      BY DEF Init
    <2>2. \A l \in Loops : QueueOK(l, <<>>, conns)
      BY DEF QueueOK, Ordered, In
    <2>3. QED  BY <1>2, <2>1, <2>2 DEF QueueInv
  <1>6. NewInv /\ ReleaseInv
    BY DEF Init, NewInv, ReleaseInv
  <1>7. ChainInv
    BY <1>2 DEF Init, ChainInv, Single, Ending
  <1>8. LateInv
    BY DEF Init, LateInv
  <1>9. QED  BY <1>3, <1>4, <1>5, <1>6, <1>7, <1>8 DEF IndInv

\* Every step keeps the invariant.
LEMMA StepInv ==
    ASSUME IndInv, [Next]_vars
    PROVE  IndInv'
  <1>1. CASE UNCHANGED vars
    <2>1. /\ UNCHANGED <<thread_num, acceptor_, next_, closed_, conns, conns_, queue, pc, told, fails, calls>>
      BY <1>1 DEF vars, server, bounds
    <2>2. Fixed
      BY <2>1, FixedSets
    <2>3. StateOK' /\ NewInv' /\ ReleaseInv' /\ ChainInv' /\ LateInv'
      BY <2>1, <2>2 DEF IndInv, StateOK, NewInv, ReleaseInv, ChainInv, LateInv, Fixed, Newest, Releasable, Arriving
    <2>4. ConnInv'
      BY <2>1, <2>2 DEF IndInv, ConnInv, ConnOK, Fixed
    <2>5. QueueInv'
      BY <2>1, <2>2, QueueNext DEF IndInv, QueueInv
    <2>6. QED  BY <2>3, <2>4, <2>5 DEF IndInv
  <1>2. ASSUME Listening  PROVE IndInv'
    BY <1>2, RunRefusedKeeps, RunAcceptedKeeps, HandleNewConnAttachesKeeps, HandleNewConnInsertsKeeps,
       RunRemoveKeeps, DownReturnsKeeps, RunStopKeeps DEF Listening
  <1>3. ASSUME Outside  PROVE IndInv'
    BY <1>3, StartKeeps, ConnectsKeeps, AcceptFailsKeeps, StopKeeps, StopFromCallbackKeeps,
       PeerLostKeeps, CloseKeeps DEF Outside
  <1>4. ASSUME NEW l \in Loops, Serving(l)  PROVE IndInv'
    BY <1>4, RunAttachKeeps, RunCloseKeeps, RunFailedKeeps, RunFailedHereKeeps DEF Serving
  <1>5. QED  BY <1>1, <1>2, <1>3, <1>4 DEF Next

\* Whatever is registered will be taken out again when it ends.
LEMMA IndInvReleased ==
    ASSUME IndInv
    PROVE  RegisteredIsReleased
  BY DEF IndInv, ReleaseInv, Releasable, RegisteredIsReleased, Queued, In

\* RegisteredIsReleased holds in every state: tcp_server.cc never keeps a
\* connection in conns_ that no callback will remove.
THEOREM ReleasedTheorem == Spec => []RegisteredIsReleased
  <1>1. Init => IndInv
    BY InitInv
  <1>2. IndInv /\ [Next]_vars => IndInv'
    BY StepInv
  <1>3. IndInv => RegisteredIsReleased
    BY IndInvReleased
  <1>4. QED  BY <1>1, <1>2, <1>3, PTL DEF Spec

\* The types.
LEMMA IndInvTypes ==
    ASSUME IndInv
    PROVE  TypeOK
  <1>1. Handlers = [kind : {"accepted", "refused", "stop", "remove", "attach", "close", "failed"},
                    c : 0 .. MaxConns + thread_num]
    BY DEF Handlers, Kinds
  <1>2. queue \in [Loops -> Seq(Handlers)]
    BY DEF IndInv, QueueInv
  <1>3. conns \in Seq(Conn) /\ \A c \in DOMAIN conns : conns[c].loop \in Places
    BY DEF IndInv, ConnInv, ConnOK
  <1>4. QED  BY <1>1, <1>2, <1>3 DEF IndInv, StateOK, TypeOK, Places

\* One accept at a time.
LEMMA IndInvChain ==
    ASSUME IndInv
    PROVE  AcceptChain
  <1> DEFINE E == {i \in DOMAIN queue[0] : queue[0][i].kind \in {"accepted", "refused"}}
  <1>1. E = {} \/ \E i : E = {i}
    <2>1. \A i, j \in E : i = j
      BY DEF IndInv, ChainInv, Single, OfAccept
    <2> HIDE DEF E
    <2>2. QED  BY <2>1
  <1>2. E = {} <=> ~Ending(queue[0])
    BY DEF Ending, OfAccept
  <1> HIDE DEF E
  <1>3. E = {} => Cardinality(E) = 0
    BY FS_EmptySet
  <1>4. E # {} => Cardinality(E) = 1
    BY <1>1, FS_Singleton
  <1>5. Accepts = Cardinality(E) + (IF acceptor_ = "accepting" THEN 1 ELSE 0)
                     + (IF pc \in {"attach", "insert"} THEN 1 ELSE 0)
    BY DEF Accepts, E
  <1>6. ASSUME Ending(queue[0])  PROVE Accepts = 1
    BY <1>2, <1>4, <1>5, <1>6 DEF IndInv, ChainInv
  <1>7. ASSUME ~Ending(queue[0])  PROVE /\ Accepts <= 1
                                        /\ acceptor_ # "closed" /\ pc \notin {"new", "terminated"} => Accepts = 1
    BY <1>2, <1>3, <1>5, <1>7 DEF IndInv, ChainInv
  <1>8. QED  BY <1>6, <1>7, IndInvTypes DEF AcceptChain

\* AcceptChain holds in every state: async_accept is never outstanding twice,
\* and no failure ends the accepting before Stop does.
THEOREM ChainTheorem == Spec => []AcceptChain
  <1>1. Init => IndInv
    BY InitInv
  <1>2. IndInv /\ [Next]_vars => IndInv'
    BY StepInv
  <1>3. IndInv => AcceptChain
    BY IndInvChain
  <1>4. QED  BY <1>1, <1>2, <1>3, PTL DEF Spec

\* At most one connection escapes StopInLoop.
LEMMA IndInvLate ==
    ASSUME IndInv
    PROVE  OneLate
  <1>1. SUFFICES ASSUME closed_ PROVE Cardinality(conns_ \ told) <= 1
    BY DEF OneLate
  <1>2. \A c, d \in conns_ \ told : c = d
    BY <1>1 DEF IndInv, LateInv
  <1>3. CASE conns_ \ told = {}
    BY <1>3, FS_EmptySet
  <1>4. CASE conns_ \ told # {}
    <2>1. PICK c : conns_ \ told = {c}
      BY <1>2, <1>4
    <2>2. QED  BY <2>1, FS_Singleton
  <1>5. QED  BY <1>3, <1>4

\* OneLate holds in every state: what is still registered once the server is
\* closed, and StopInLoop did not close, is one late connection at most.
THEOREM OneLateTheorem == Spec => []OneLate
  <1>1. Init => IndInv
    BY InitInv
  <1>2. IndInv /\ [Next]_vars => IndInv'
    BY StepInv
  <1>3. IndInv => OneLate
    BY IndInvLate
  <1>4. QED  BY <1>1, <1>2, <1>3, PTL DEF Spec

-----------------------------------------------------------------------------
(* Lifecycle.                                                              *)

\* What Lifecycle sees.
View == [c \in Ids |-> StageOf(c)]

\* The connections HandleNewConn has made and the server has not forgotten.
Visible(c) == c \in conns_ \/ (pc \in {"attach", "insert"} /\ c = Newest)

\* The stages of connections.
LEMMA StageFacts ==
    ASSUME Len(conns) \in Nat, NEW c \in Ids
    PROVE  /\ c > Len(conns) => StageOf(c) = "none"
           /\ (c <= Len(conns) /\ Visible(c)) => StageOf(c) = conns[c].stage
           /\ (c <= Len(conns) /\ ~Visible(c)) => StageOf(c) = "gone"
  <1>1. c \in Int
    BY DEF Ids
  <1>2. QED  BY <1>1 DEF StageOf, Visible

\* The same, after a step.
LEMMA StageFactsNext ==
    ASSUME Len(conns') \in Nat, NEW c \in Ids
    PROVE  /\ c > Len(conns') => StageOf(c)' = "none"
           /\ (c <= Len(conns') /\ Visible(c)') => StageOf(c)' = conns'[c].stage
           /\ (c <= Len(conns') /\ ~Visible(c)') => StageOf(c)' = "gone"
  <1>1. c \in Int
    BY DEF Ids
  <1>2. QED  BY <1>1 DEF StageOf, Visible

\* A step that Lifecycle does not see.
LEMMA ViewSame ==
    ASSUME \A d \in Ids : StageOf(d)' = StageOf(d)
    PROVE  [Abstract!Next]_View
  <1>1. Ids' = Ids
    BY DEF Ids
  <1>2. View' = View
    BY <1>1 DEF View
  <1>3. QED  BY <1>2

\* A step of one connection to its next stage.
LEMMA ViewAdvance ==
    ASSUME NEW c \in Ids, NEW i \in 1 .. 4, StageOf(c) = Abstract!Stages[i], StageOf(c)' = Abstract!Stages[i + 1],
           \A d \in Ids : d # c => StageOf(d)' = StageOf(d)
    PROVE  [Abstract!Next]_View
  <1>1. Ids' = Ids
    BY DEF Ids
  <1>2. View[c] = Abstract!Stages[i] /\ View' = [View EXCEPT ![c] = Abstract!Stages[i + 1]]
    BY <1>1 DEF View
  <1>3. Abstract!Advance(c, i)
    BY <1>2 DEF Abstract!Advance, View
  <1>4. QED  BY <1>3 DEF Abstract!Next

\* Connection c may change, and no other.
Others(c) ==
    /\ Len(conns') = Len(conns) /\ DOMAIN conns' = DOMAIN conns
    /\ \A d \in DOMAIN conns : d # c => (Visible(d)' <=> Visible(d)) /\ conns'[d].stage = conns[d].stage

\* It goes one stage on, or is forgotten after the last, or nothing changes.
Onward(c) ==
    \/ (Visible(c)' <=> Visible(c)) /\ conns'[c].stage = conns[c].stage
    \/ (Visible(c)' <=> Visible(c)) /\ conns[c].stage = "accepted" /\ conns'[c].stage = "up"
    \/ (Visible(c)' <=> Visible(c)) /\ conns[c].stage = "up" /\ conns'[c].stage = "down"
    \/ conns[c].stage = "down" /\ conns'[c].stage = "down" /\ ~Visible(c)'

\* Steps of this form.
LEMMA ViewStep ==
    ASSUME IndInv, NEW c \in DOMAIN conns, Others(c), Onward(c)
    PROVE  [Abstract!Next]_View
  <1>1. /\ Len(conns) \in Nat /\ Len(conns') = Len(conns) /\ DOMAIN conns = 1 .. Len(conns)
        /\ Len(conns) <= MaxConns /\ MaxConns \in Nat
    BY Bounds DEF Others, IndInv, ConnInv
  <1>2. c \in Ids /\ c <= Len(conns)
    BY <1>1 DEF Ids
  <1>3. ASSUME NEW d \in Ids, d # c  PROVE StageOf(d)' = StageOf(d)
    <2>1. CASE d \in DOMAIN conns
      <3>1. (Visible(d)' <=> Visible(d)) /\ conns'[d].stage = conns[d].stage /\ d <= Len(conns)
        BY <1>1, <1>3, <2>1 DEF Others
      <3>2. QED  BY <1>1, <3>1, StageFacts, StageFactsNext
    <2>2. CASE d \notin DOMAIN conns
      <3>1. d > Len(conns)
        BY <1>1, <2>2 DEF Ids
      <3>2. QED  BY <1>1, <3>1, StageFacts, StageFactsNext
    <2>3. QED  BY <2>1, <2>2
  <1>4. /\ Visible(c) => StageOf(c) = conns[c].stage
        /\ ~Visible(c) => StageOf(c) = "gone"
        /\ Visible(c)' => StageOf(c)' = conns'[c].stage
        /\ ~Visible(c)' => StageOf(c)' = "gone"
    BY <1>1, <1>2, StageFacts, StageFactsNext
  <1>5. ASSUME StageOf(c)' = StageOf(c)  PROVE [Abstract!Next]_View
    BY <1>3, <1>5, ViewSame
  <1>6. CASE Visible(c) /\ Visible(c)' /\ conns[c].stage = "accepted" /\ conns'[c].stage = "up"
    <2>1. StageOf(c) = Abstract!Stages[2] /\ StageOf(c)' = Abstract!Stages[2 + 1]
      BY <1>4, <1>6 DEF Abstract!Stages
    <2>2. QED  BY <1>2, <1>3, <2>1, ViewAdvance
  <1>7. CASE Visible(c) /\ Visible(c)' /\ conns[c].stage = "up" /\ conns'[c].stage = "down"
    <2>1. StageOf(c) = Abstract!Stages[3] /\ StageOf(c)' = Abstract!Stages[3 + 1]
      BY <1>4, <1>7 DEF Abstract!Stages
    <2>2. QED  BY <1>2, <1>3, <2>1, ViewAdvance
  <1>8. CASE Visible(c) /\ ~Visible(c)' /\ conns[c].stage = "down"
    <2>1. StageOf(c) = Abstract!Stages[4] /\ StageOf(c)' = Abstract!Stages[4 + 1]
      BY <1>4, <1>8 DEF Abstract!Stages
    <2>2. QED  BY <1>2, <1>3, <2>1, ViewAdvance
  <1>9. CASE ~Visible(c) /\ ~Visible(c)'
    BY <1>4, <1>5, <1>9
  <1>10. CASE (Visible(c)' <=> Visible(c)) /\ conns'[c].stage = conns[c].stage
    BY <1>4, <1>5, <1>10
  <1>11. QED  BY <1>6, <1>7, <1>8, <1>9, <1>10 DEF Onward

\* Steps that change no stage and forget nothing.
LEMMA ViewQuiet ==
    ASSUME IndInv, Len(conns') = Len(conns),
           \A d \in DOMAIN conns : (Visible(d)' <=> Visible(d)) /\ conns'[d].stage = conns[d].stage
    PROVE  [Abstract!Next]_View
  <1>1. /\ Len(conns) \in Nat /\ DOMAIN conns = 1 .. Len(conns)
    BY Bounds
  <1>2. ASSUME NEW d \in Ids  PROVE StageOf(d)' = StageOf(d)
    <2>1. CASE d \in DOMAIN conns
      <3>1. (Visible(d)' <=> Visible(d)) /\ conns'[d].stage = conns[d].stage /\ d <= Len(conns)
        BY <1>1, <2>1
      <3>2. QED  BY <1>1, <3>1, StageFacts, StageFactsNext
    <2>2. CASE d \notin DOMAIN conns
      <3>1. d > Len(conns)
        BY <1>1, <2>2 DEF Ids
      <3>2. QED  BY <1>1, <3>1, StageFacts, StageFactsNext
    <2>3. QED  BY <2>1, <2>2
  <1>3. QED  BY <1>2, ViewSame

\* Nothing happens to any connection, or the new one gets into conns_.
LEMMA ViewIdle ==
    ASSUME IndInv, conns' = conns,
           \/ conns_' = conns_ /\ (pc \in {"attach", "insert"} <=> pc' \in {"attach", "insert"})
           \/ pc = "insert" /\ pc' = "idle" /\ conns_' = conns_ \cup {Newest}
    PROVE  [Abstract!Next]_View
  <1>1. Newest' = Newest
    BY DEF Newest
  <1>2. \A d \in DOMAIN conns : Visible(d)' <=> Visible(d)
    BY <1>1 DEF Visible
  <1>3. QED  BY <1>2, ViewQuiet

\* One connection changes while the listening loop is where it is.
LEMMA ViewChange ==
    ASSUME IndInv, NEW c \in DOMAIN conns, NEW x, conns' = [conns EXCEPT ![c] = x], conns_' = conns_,
           pc \in {"attach", "insert"} <=> pc' \in {"attach", "insert"},
           \/ x.stage = conns[c].stage
           \/ conns[c].stage = "accepted" /\ x.stage = "up"
           \/ conns[c].stage = "up" /\ x.stage = "down"
    PROVE  [Abstract!Next]_View
  <1>1. conns \in Seq(Conn)
    BY DEF IndInv, ConnInv
  <1>2. /\ Len(conns') = Len(conns) /\ DOMAIN conns' = DOMAIN conns
        /\ conns'[c] = x /\ \A d \in DOMAIN conns : d # c => conns'[d] = conns[d]
    BY <1>1
  <1>3. \A d : Visible(d)' <=> Visible(d)
    BY <1>2 DEF Visible, Newest
  <1>4. Others(c) /\ Onward(c)
    BY <1>2, <1>3 DEF Others, Onward
  <1>5. QED  BY <1>4, ViewStep

\* The server forgets a connection that is down.
LEMMA ViewForget ==
    ASSUME IndInv, NEW c \in DOMAIN conns, conns[c].stage = "down", conns' = conns, conns_' = conns_ \ {c},
           pc \notin {"attach", "insert"}, pc' \notin {"attach", "insert"}
    PROVE  [Abstract!Next]_View
  <1>1. \A d \in DOMAIN conns : d # c => (Visible(d)' <=> Visible(d))
    BY DEF Visible
  <1>2. ~Visible(c)'
    BY DEF Visible
  <1>3. Others(c) /\ Onward(c)
    BY <1>1, <1>2 DEF Others, Onward
  <1>4. QED  BY <1>3, ViewStep

\* A connection is made.
LEMMA ViewNew ==
    ASSUME IndInv, NEW x \in Conn, x.stage = "accepted", conns' = Append(conns, x), conns_' = conns_,
           Len(conns) < MaxConns, pc = "idle", pc' = "attach"
    PROVE  [Abstract!Next]_View
  <1>1. /\ Len(conns) \in Nat /\ DOMAIN conns = 1 .. Len(conns) /\ conns \in Seq(Conn) /\ MaxConns \in Nat
    BY Bounds DEF IndInv, ConnInv
  <1>2. PICK n \in Nat : n = Len(conns) + 1
    BY <1>1
  <1>3. /\ Len(conns') = n /\ conns'[n] = x /\ \A d \in DOMAIN conns : conns'[d] = conns[d]
    BY <1>2, <1>1
  <1>4. n \in Ids /\ n > Len(conns) /\ n \in Nat /\ n <= n
    BY <1>2, <1>1 DEF Ids
  <1>5. Newest' = n /\ Visible(n)'
    BY <1>3 DEF Newest, Visible
  <1>6. StageOf(n) = "none" /\ StageOf(n)' = "accepted"
    <2>1. StageOf(n) = "none"
      BY <1>1, <1>4, StageFacts
    <2>2. StageOf(n)' = conns'[n].stage
      BY <1>3, <1>4, <1>5, StageFactsNext
    <2>3. QED  BY <1>3, <2>1, <2>2
  <1>7. ASSUME NEW d \in Ids, d # n  PROVE StageOf(d)' = StageOf(d)
    <2>1. CASE d \in DOMAIN conns
      <3>1. (Visible(d)' <=> Visible(d)) /\ d <= Len(conns) /\ d <= Len(conns') /\ conns'[d] = conns[d]
        BY <1>2, <1>1, <1>3, <1>5, <1>7, <2>1 DEF Visible
      <3>2. QED  BY <1>1, <1>3, <1>4, <3>1, StageFacts, StageFactsNext
    <2>2. CASE d \notin DOMAIN conns
      <3>1. d > Len(conns) /\ d > Len(conns')
        BY <1>2, <1>1, <1>3, <1>7, <2>2 DEF Ids
      <3>2. QED  BY <1>1, <1>3, <1>4, <3>1, StageFacts, StageFactsNext
    <2>3. QED  BY <2>1, <2>2
  <1>8. StageOf(n) = Abstract!Stages[1] /\ StageOf(n)' = Abstract!Stages[1 + 1] /\ 1 \in 1 .. 4
    BY <1>6 DEF Abstract!Stages
  <1>9. QED  BY <1>4, <1>7, <1>8, ViewAdvance

\* The listening loop's steps.
LEMMA ViewListening ==
    ASSUME IndInv, Listening
    PROVE  [Abstract!Next]_View
  <1>1. ASSUME RunRefused  PROVE [Abstract!Next]_View
    BY <1>1, ViewIdle DEF RunRefused
  <1>2. ASSUME NEW reset \in BOOLEAN, RunAccepted(reset)  PROVE [Abstract!Next]_View
    <2>1. /\ pc = "idle" /\ queue[0] # <<>> /\ Head(queue[0]).kind = "accepted" /\ conns_' = conns_
          /\ Len(conns) < MaxConns
      BY <1>2 DEF RunAccepted, Runs
    <2>2. CASE reset
      <3>1. pc' = "terminated" /\ conns' = conns
        BY <1>2, <2>2 DEF RunAccepted
      <3>2. QED  BY <2>1, <3>1, ViewIdle
    <2>3. CASE ~reset
      <3> DEFINE c == Head(queue[0]).c
                 x == [loop |-> c, stage |-> "accepted", open |-> TRUE, ops |-> 0]
      <3>1. pc' = "attach" /\ conns' = Append(conns, x)
        BY <1>2, <2>3 DEF RunAccepted
      <3>2. c \in Nat
        <4>1. QueueOK(0, queue[0], conns)
          BY Bounds DEF IndInv, QueueInv
        <4>2. HandlerOK(0, Head(queue[0]), conns)
          BY <2>1, <4>1, QueueTail
        <4>3. c \in Places
          BY <2>1, <4>2 DEF HandlerOK
        <4>4. QED  BY <4>3, Bounds
      <3> HIDE DEF c
      <3>3. x.stage = "accepted" /\ 0 \in 0 .. 2 /\ TRUE \in BOOLEAN /\ "accepted" \in {"accepted", "up", "down"}
        OBVIOUS
      <3>4. x \in Conn
        BY <3>2, <3>3, Zenon DEF Conn
      <3> HIDE DEF x
      <3>5. QED  BY <2>1, <3>1, <3>3, <3>4, ViewNew
    <2>4. QED  BY <2>2, <2>3
  <1>3. ASSUME HandleNewConnAttaches  PROVE [Abstract!Next]_View
    <2> DEFINE c == Newest
    <2>1. /\ pc = "attach" /\ pc' = "insert" /\ conns_' = conns_ /\ c \in DOMAIN conns
          /\ conns[c].stage = "accepted" /\ conns[c].open
      BY <1>3 DEF HandleNewConnAttaches, IndInv, NewInv
    <2>2. CASE conns[c].loop = 0
      <3>1. PICK o \in {1, 2} : conns' = [conns EXCEPT ![c] = AttachedAs(conns[c], o)]
        BY <1>3, <2>1, <2>2 DEF HandleNewConnAttaches, Attached, AttachedAs
      <3> HIDE DEF c
      <3>2. conns[c] \in Conn /\ o \in 0 .. 2 /\ "up" \in {"accepted", "up", "down"}
        BY <2>1 DEF IndInv, ConnInv, ConnOK
      <3>3. AttachedAs(conns[c], o).stage = "up"
        BY ONLY <3>2, ConnFields
      <3>4. QED  BY <2>1, <3>1, <3>3, ViewChange
    <2>3. CASE conns[c].loop # 0
      <3>1. conns' = conns
        BY <1>3, <2>3 DEF HandleNewConnAttaches
      <3>2. QED  BY <2>1, <3>1, ViewIdle
    <2>4. QED  BY <2>2, <2>3
  <1>4. ASSUME HandleNewConnInserts  PROVE [Abstract!Next]_View
    BY <1>4, ViewIdle DEF HandleNewConnInserts
  <1>5. ASSUME RunRemove  PROVE [Abstract!Next]_View
    <2> DEFINE c == Head(queue[0]).c
    <2>1. "remove" \in OfConn /\ Runs(0, "remove") /\ 0 \in Loops
      BY <1>5, Bounds DEF RunRemove, OfConn
    <2>2. c \in DOMAIN conns /\ HandlerOK(0, Head(queue[0]), conns) /\ Head(queue[0]).kind = "remove" /\ pc = "idle"
      BY <2>1, RunFacts
    <2>3. conns[c].stage = "down"
      BY <2>2 DEF HandlerOK
    <2>4. conns' = conns /\ conns_' = conns_ \ {c} /\ pc' = pc
      BY <1>5 DEF RunRemove
    <2> HIDE DEF c
    <2>5. QED  BY <2>2, <2>3, <2>4, ViewForget
  <1>6. ASSUME DownReturns  PROVE [Abstract!Next]_View
    <2> DEFINE c == Head(queue[0]).c
    <2>1. /\ queue[0] # <<>> /\ Head(queue[0]).kind = "failed" /\ conns[c].stage = "down"
          /\ pc = "down" /\ pc' = "idle" /\ conns' = conns
      BY <1>6 DEF DownReturns, IndInv, NewInv
    <2>2. QueueOK(0, queue[0], conns)
      BY Bounds DEF IndInv, QueueInv
    <2>3. c \in DOMAIN conns
      BY <2>1, <2>2, QueueTail DEF HandlerOK, OfConn
    <2>4. conns_' = conns_ \ {c}
      BY <1>6, DownReturnsKeeps
    <2> HIDE DEF c
    <2>5. QED  BY <2>1, <2>3, <2>4, ViewForget
  <1>7. ASSUME RunStop  PROVE [Abstract!Next]_View
    <2>1. conns' = conns /\ conns_' = conns_ /\ pc = "idle" /\ pc' \in {"idle", "stuck"}
      BY <1>7 DEF RunStop, StopInLoop, Kept, Runs
    <2>2. QED  BY <2>1, ViewIdle
  <1>8. QED  BY <1>1, <1>2, <1>3, <1>4, <1>5, <1>6, <1>7 DEF Listening

\* The connections' steps.
LEMMA ViewServing ==
    ASSUME IndInv, NEW l \in Loops, Serving(l)
    PROVE  [Abstract!Next]_View
  <1> DEFINE c == Head(queue[l]).c
  <1>1. ASSUME RunAttach(l)  PROVE [Abstract!Next]_View
    <2>1. "attach" \in OfConn /\ Runs(l, "attach")
      BY <1>1 DEF RunAttach, OfConn
    <2>2. c \in DOMAIN conns /\ HandlerOK(l, Head(queue[l]), conns) /\ Head(queue[l]).kind = "attach"
      BY <2>1, RunFacts
    <2>3. conns[c].stage = "accepted" /\ conns[c].open
      BY <2>2 DEF HandlerOK
    <2>4. PICK o \in {1, 2} : conns' = [conns EXCEPT ![c] = AttachedAs(conns[c], o)]
      BY <1>1, <2>3 DEF RunAttach, Attached, AttachedAs
    <2>5. conns_' = conns_ /\ pc' = pc
      BY <1>1 DEF RunAttach
    <2> HIDE DEF c
    <2>6. conns[c] \in Conn /\ o \in 0 .. 2 /\ "up" \in {"accepted", "up", "down"}
      BY <2>2 DEF IndInv, ConnInv, ConnOK
    <2>7. AttachedAs(conns[c], o).stage = "up"
      BY ONLY <2>6, ConnFields
    <2>8. QED  BY <2>2, <2>3, <2>4, <2>5, <2>7, ViewChange
  <1>2. ASSUME RunClose(l)  PROVE [Abstract!Next]_View
    <2>1. "close" \in OfConn /\ Runs(l, "close")
      BY <1>2 DEF RunClose, OfConn
    <2>2. c \in DOMAIN conns
      BY <2>1, RunFacts
    <2>3. conns' = [conns EXCEPT ![c] = ClosedAs(conns[c], conns[c].stage)] /\ conns_' = conns_ /\ pc' = pc
      BY <1>2 DEF RunClose, Closed, ClosedAs
    <2> HIDE DEF c
    <2>4. conns[c] \in Conn /\ 0 \in 0 .. 2
      BY <2>2 DEF IndInv, ConnInv, ConnOK
    <2>5. conns[c].stage \in {"accepted", "up", "down"}
      BY <2>4 DEF Conn
    <2>6. ClosedAs(conns[c], conns[c].stage).stage = conns[c].stage
      BY ONLY <2>4, <2>5, ConnFields
    <2>7. QED  BY <2>2, <2>3, <2>6, ViewChange
  <1>3. ASSUME RunFailed(l)  PROVE [Abstract!Next]_View
    <2>1. "failed" \in OfConn /\ Runs(l, "failed") /\ conns' = Closed(c, "down")
      BY <1>3 DEF RunFailed, OfConn
    <2>2. c \in DOMAIN conns /\ HandlerOK(l, Head(queue[l]), conns) /\ Head(queue[l]).kind = "failed"
      BY <2>1, RunFacts
    <2>3. conns[c] \in Conn /\ conns[c].loop = l /\ conns[c].stage # "accepted"
      BY <2>2 DEF HandlerOK, OfConn, IndInv, ConnInv, ConnOK
    <2>4. /\ conns' = [conns EXCEPT ![c] = ClosedAs(conns[c], "down")]
          /\ ClosedAs(conns[c], "down").stage = "down"
      BY <2>1, FailedFacts
    <2>5. conns_' = conns_ /\ (pc \in {"attach", "insert"} <=> pc' \in {"attach", "insert"})
      BY <1>3, <2>1, <2>3 DEF RunFailed, RemoveConn, Runs
    <2>6. conns[c].stage \in {"up", "down"}
      BY <2>3 DEF Conn
    <2> HIDE DEF c
    <2>7. QED  BY <2>2, <2>4, <2>5, <2>6, ViewChange
  <1>4. QED  BY <1>1, <1>2, <1>3 DEF Serving

\* The other steps.
LEMMA ViewOutside ==
    ASSUME IndInv, Outside
    PROVE  [Abstract!Next]_View
  <1>1. ASSUME Start \/ Connects \/ AcceptFails \/ Stop  PROVE [Abstract!Next]_View
    BY <1>1, ViewIdle DEF Start, Connects, AcceptFails, Stop
  <1>2. ASSUME StopFromCallback  PROVE [Abstract!Next]_View
    BY <1>2, ViewIdle DEF StopFromCallback, StopInLoop, Kept
  <1>3. ASSUME NEW c \in DOMAIN conns, Close(c)  PROVE [Abstract!Next]_View
    BY <1>3, ViewIdle DEF Close
  <1>4. ASSUME NEW c \in DOMAIN conns, PeerLost(c)  PROVE [Abstract!Next]_View
    <2>1. conns' = [conns EXCEPT ![c] = LeftWith(conns[c], conns[c].ops - 1)] /\ conns_' = conns_ /\ pc' = pc
      BY <1>4 DEF PeerLost, LeftWith
    <2>2. conns[c] \in Conn /\ conns[c].ops > 0
      BY <1>4 DEF IndInv, ConnInv, ConnOK, PeerLost
    <2>3. conns[c].ops - 1 \in 0 .. 2 /\ "up" \in {"accepted", "up", "down"}
      BY <2>2 DEF Conn
    <2>4. LeftWith(conns[c], conns[c].ops - 1).stage = conns[c].stage
      BY ONLY <2>2, <2>3, ConnFields
    <2>5. QED  BY <2>1, <2>4, ViewChange
  <1>5. QED  BY <1>1, <1>2, <1>3, <1>4 DEF Outside

\* TCPServer implements Lifecycle: every connection the listening loop of
\* tcp_server.cc makes is reported up, then down, and then erased from conns_,
\* never in another order; HandleClose's second report of one loss is a stutter.
THEOREM LifecycleTheorem == Spec => ImplementsLifecycle
  <1>1. Init => Abstract!Init
    <2>1. SUFFICES ASSUME Init PROVE Abstract!Init
      OBVIOUS
    <2>2. conns = <<>> /\ Len(conns) = 0
      BY <2>1 DEF Init
    <2>3. \A c \in Ids : c > Len(conns)
      BY <2>2 DEF Ids
    <2>4. Len(conns) \in Nat
      BY <2>2
    <2>5. \A c \in Ids : StageOf(c) = "none"
      BY <2>3, <2>4, StageFacts
    <2>6. QED  BY <2>5 DEF Abstract!Init, Abstract!Stages
  <1>2. IndInv /\ [Next]_vars => [Abstract!Next]_View
    <2>1. SUFFICES ASSUME IndInv, [Next]_vars PROVE [Abstract!Next]_View
      OBVIOUS
    <2>2. CASE UNCHANGED vars
      <3>1. conns' = conns /\ conns_' = conns_ /\ pc' = pc
        BY <2>2 DEF vars
      <3>2. QED  BY <2>1, <3>1, ViewIdle
    <2>3. CASE Next
      BY <2>1, <2>3, ViewListening, ViewServing, ViewOutside DEF Next
    <2>4. QED  BY <2>1, <2>2, <2>3
  <1>3. Init => IndInv
    BY InitInv
  <1>4. IndInv /\ [Next]_vars => IndInv'
    BY StepInv
  <1>5. QED  BY <1>1, <1>2, <1>3, <1>4, PTL DEF Spec, ImplementsLifecycle, Abstract!Spec, View
=============================================================================
