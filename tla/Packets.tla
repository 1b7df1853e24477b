------------------------------ MODULE Packets -------------------------------
(***************************************************************************)
(* TcpClientImpl and TcpServerImpl under the SimpleClient and SimpleServer *)
(* of the tcp_cereal_packet example: packets are serialized onto a TCP     *)
(* connection and every read is taken for one packet.  The client logs in  *)
(* on each connection and then sends keep-alives from a timer; TCPClient   *)
(* dials again whenever a connection ends.                                 *)
(*                                                                         *)
(* A packet travels as Parts cells, of which a read brings any number.     *)
(* Handlers of the client's loop run in the order they were posted.  Of a  *)
(* TCPConn there is what these classes see: one outstanding read, a write  *)
(* that the kernel takes at once or refuses, and HandleClose for every     *)
(* operation that failed.  Time is not modelled: a wait may end at any     *)
(* moment.                                                                 *)
(***************************************************************************)
EXTENDS Integers, Sequences, FiniteSets

CONSTANTS Parts,       \* cells of a serialized packet
          Ones,        \* the cells after the first that begin with byte 1
          MaxConns,    \* bound: connections dialled
          MaxPackets   \* bound: packets the client sends on a connection

ASSUME PartsAssumption ==
    /\ Parts \in Nat \ {0} /\ Ones \subseteq 2 .. Parts
    /\ MaxConns \in Nat /\ MaxPackets \in Nat \ {0}

VARIABLES
    is_login_, conn_,  \* of SimpleClient; conn_ = 0 is the null pointer
    waits,             \* waits outstanding on keepalive_timer_
    held, dialing,     \* of TCPClient: conn_, and whether async_connect is outstanding
    queue,             \* the handlers of the client's loop
    dials,             \* connections so far: 1 .. dials
    open, broken, reading,  \* sets of connections: the client's socket is open, its write
                            \* was refused, its read is outstanding
    wire,              \* of a connection and a side: the cells on their way to that side
    recv,              \* likewise: the content of the reading side's ByteBuffer
    sent, handled,     \* likewise: packets that side sent, packets it handled
    pc                 \* of a side: whether its process runs

session == <<is_login_, conn_, waits, held, dialing>>
sockets == <<dials, open, broken, reading>>
streams == <<wire, recv, sent, handled>>
vars    == <<session, queue, sockets, streams, pc>>

Ids    == 1 .. MaxConns
Sides  == {"client", "server"}
Types  == {"LOGIN", "LOGIN_ACK", "KEEPALIVE", "KEEPALIVE_ACK"}
Packet == [type : Types, n : 1 .. MaxPackets]   \* n: its place among those sent
Cell   == [pkt : Packet, part : 1 .. Parts]

Handler(k, c, cells) == [kind |-> k, c |-> c, cells |-> cells]
Failed(c) == Handler("failed", c, <<>>)

\* Types.
TypeOK ==
    /\ is_login_ \in BOOLEAN /\ dialing \in BOOLEAN
    /\ {conn_, held} \subseteq 0 .. dials /\ dials \in 0 .. MaxConns
    /\ waits \in 0 .. 1
    /\ queue \in Seq([kind : {"connected", "read", "failed", "timer"}, c : 0 .. dials, cells : Seq(Cell)])
    /\ open \cup broken \cup reading \subseteq 1 .. dials
    /\ \A c \in Ids, s \in Sides :
          /\ wire[c][s] \in Seq(Cell) /\ recv[c][s] \in Seq(Cell)
          /\ sent[c][s] \in 0 .. MaxPackets /\ handled[c][s] \in Seq(Packet)
    /\ pc \in [Sides -> {"runs", "ended"}]

\* The client dials when it is constructed, before its loop runs.
Init ==
    /\ is_login_ = FALSE /\ conn_ = 0 /\ waits = 0 /\ held = 0 /\ dialing = TRUE
    /\ queue = <<>> /\ dials = 0 /\ open = {} /\ broken = {} /\ reading = {}
    /\ wire = [c \in Ids |-> [s \in Sides |-> <<>>]] /\ recv = wire /\ handled = wire
    /\ sent = [c \in Ids |-> [s \in Sides |-> 0]]
    /\ pc = [s \in Sides |-> "runs"]

-----------------------------------------------------------------------------
(* Packets and reads.                                                      *)

cereal_serialize(p) == [i \in 1 .. Parts |-> [pkt |-> p, part |-> i]]

\* Whether the bytes begin with the 1 that OnRecvData_ looks for: cereal begins
\* with it, but a read may begin inside a packet.
BeginsWithOne(ss) == Head(ss).part \in Ones \cup {1}

\* cereal reads one packet from the front; anything else makes it throw.
Whole(ss) == Len(ss) >= Parts /\ Head(ss).part = 1

\* Mutant of Left: the bytes stay in the buffer.
LeftAll(ss) == ss

\* What OnRecvData_ leaves in the buffer, whatever it makes of the bytes.
Left(ss) == <<>>

\* What OnRecvData_ does with the bytes of a read: "ignore", "throw" or "handle".
OnRecvData_(ss) ==
    IF ~BeginsWithOne(ss) THEN "ignore" ELSE IF Whole(ss) THEN "handle" ELSE "throw"

\* Side s of connection c takes the bytes ss out of its buffer and handles the
\* packet at the front, or throws out of its loop.
Receives(c, s, ss) ==
    /\ recv' = [recv EXCEPT ![c][s] = Left(ss)]
    /\ handled' = IF OnRecvData_(ss) = "handle"
                  THEN [handled EXCEPT ![c][s] = Append(@, Head(ss).pkt)] ELSE handled
    /\ pc' = IF OnRecvData_(ss) = "throw" THEN [pc EXCEPT ![s] = "ended"] ELSE pc

\* SendPkt on the client: nothing on a closed socket, or when the write before
\* it was refused; otherwise the kernel takes it or refuses.
SendPkt(c, type, q) ==
    \/ /\ c \notin open \/ c \in broken
       /\ queue' = q /\ UNCHANGED <<broken, wire, sent>>
    \/ /\ c \in open \ broken
       /\ sent' = [sent EXCEPT ![c]["client"] = @ + 1]
       /\ wire' = [wire EXCEPT ![c]["server"] =
                      @ \o cereal_serialize([type |-> type, n |-> sent'[c]["client"]])]
       /\ queue' = q /\ UNCHANGED broken
    \/ /\ c \in open \ broken
       /\ broken' = broken \cup {c} /\ queue' = Append(q, Failed(c))
       /\ UNCHANGED <<wire, sent>>

-----------------------------------------------------------------------------
(* The network and the timer.                                              *)

Dialed ==
    /\ dialing /\ pc["server"] = "runs" /\ pc["client"] = "runs" /\ dials < MaxConns
    /\ dialing' = FALSE /\ dials' = dials + 1 /\ open' = open \cup {dials'}
    /\ queue' = Append(queue, Handler("connected", dials', <<>>))
    /\ UNCHANGED <<is_login_, conn_, waits, held, broken, reading, streams, pc>>

\* A read of the client completes with any number of the cells that arrived.
Delivers(c) ==
    /\ pc["client"] = "runs" /\ c \in reading /\ reading' = reading \ {c}
    /\ \E n \in 1 .. Len(wire[c]["client"]) :
          /\ queue' = Append(queue, Handler("read", c, SubSeq(wire[c]["client"], 1, n)))
          /\ wire' = [wire EXCEPT ![c]["client"] = SubSeq(@, n + 1, Len(@))]
    /\ UNCHANGED <<session, dials, open, broken, recv, sent, handled, pc>>

\* The peer or the network ends the connection: the read fails.
Breaks(c) ==
    /\ pc["client"] = "runs" /\ c \in reading /\ reading' = reading \ {c}
    /\ queue' = Append(queue, Failed(c))
    /\ UNCHANGED <<session, dials, open, broken, streams, pc>>

TimerFires ==
    /\ pc["client"] = "runs" /\ waits > 0 /\ waits' = waits - 1
    /\ queue' = Append(queue, Handler("timer", 0, <<>>))
    /\ UNCHANGED <<is_login_, conn_, held, dialing, sockets, streams, pc>>

-----------------------------------------------------------------------------
(* The client.                                                             *)

Runs(kind) == pc["client"] = "runs" /\ queue # <<>> /\ Head(queue).kind = kind

\* expires_at and expires_from_now cancel the wait there is: its handler runs
\* all the same, for DoKeepAlve does not look at the error.
Cancelled == [i \in 1 .. waits |-> Handler("timer", 0, <<>>)]

\* HandleConn: OnAttachedToLoop, OnConnect with a connection that is up, and
\* the first read.
RunConnected ==
    /\ Runs("connected")
    /\ LET c == Head(queue).c
       IN /\ held' = c /\ conn_' = c
          /\ SendPkt(c, "LOGIN", Tail(queue))
          /\ reading' = reading \cup {c}
    /\ UNCHANGED <<is_login_, waits, dialing, dials, open, recv, handled, pc>>

\* Mutant of LoginAfterLoss: the branch for a connection that went down is missing.
LoginAfterLossKept == is_login_

\* is_login_ after OnConnect with a connection that went down.
LoginAfterLoss == FALSE

\* HandleClose for an operation of connection c that failed: OnConnect, then
\* OnRemoveConn, which asserts that a connection it holds is this one.
RunFailed ==
    /\ Runs("failed")
    /\ LET c == Head(queue).c
       IN /\ open' = open \ {c} /\ reading' = reading \ {c}
          /\ queue' = Tail(queue) \o (IF c \in reading THEN <<Failed(c)>> ELSE <<>>)
          /\ is_login_' = LoginAfterLoss
          /\ held' = IF held = c THEN 0 ELSE held
          /\ dialing' = (dialing \/ held = c)
          /\ pc' = IF held \in {0, c} THEN pc ELSE [pc EXCEPT !["client"] = "ended"]
    /\ UNCHANGED <<conn_, waits, dials, broken, streams>>

\* Mutant of Arms: every answer arms the timer.
ArmsAtAnyAck(type) == type \in {"LOGIN_ACK", "KEEPALIVE_ACK"}

\* The packets whose handler arms keepalive_timer_: OnLoginAck.
Arms(type) == type = "LOGIN_ACK"

\* OnRecvData: OnLoginAck, with the Ack of 0 SimpleServer sends, or
\* OnKeepAliveAck, which only logs.
OnRecvData(type) ==
    /\ is_login_' = (is_login_ \/ type = "LOGIN_ACK")
    /\ waits' = IF Arms(type) THEN 1 ELSE waits

\* HandleRead: OnRecvData_ and the next read, which fails on a closed socket.
\* Nothing comes after an exception.
RunRead ==
    /\ Runs("read")
    /\ LET c    == Head(queue).c
           ss   == recv[c]["client"] \o Head(queue).cells
           next == IF c \in open THEN <<>> ELSE <<Failed(c)>>
       IN /\ Receives(c, "client", ss)
          /\ \/ /\ OnRecvData_(ss) = "handle" /\ OnRecvData(Head(ss).pkt.type)
                /\ queue' = Tail(queue) \o (IF Arms(Head(ss).pkt.type) THEN Cancelled ELSE <<>>) \o next
             \/ /\ OnRecvData_(ss) # "handle" /\ UNCHANGED <<is_login_, waits>>
                /\ queue' = Tail(queue) \o next
          /\ reading' = IF c \in open /\ pc'["client"] = "runs" THEN reading \cup {c} ELSE reading
    /\ UNCHANGED <<conn_, held, dialing, dials, open, broken, wire, sent>>

\* The waits outstanding after DoKeepAlve.
Rearmed == 1

\* DoKeepAlve.
RunTimer ==
    /\ Runs("timer")
    /\ \/ /\ ~is_login_ /\ queue' = Tail(queue) /\ UNCHANGED <<waits, broken, wire, sent>>
       \/ /\ is_login_ /\ sent[conn_]["client"] < MaxPackets
          /\ waits' = Rearmed
          /\ SendPkt(conn_, "KEEPALIVE", Tail(queue) \o Cancelled)
    /\ UNCHANGED <<is_login_, conn_, held, dialing, dials, open, reading, recv, handled, pc>>

-----------------------------------------------------------------------------
(* The server: it keeps nothing between two packets.                       *)

\* Mutant of Answer: the case of the Login packet is missing.
AnswerKeepAlive(type) == IF type = "KEEPALIVE" THEN <<"KEEPALIVE_ACK">> ELSE <<>>

\* OnRecvData: the types of the packets OnKeepAlive or OnLogin sends back.
Answer(type) ==
    IF type = "KEEPALIVE" THEN <<"KEEPALIVE_ACK">>
    ELSE IF type = "LOGIN" THEN <<"LOGIN_ACK">> ELSE <<>>

\* HandleRead on the server's end of connection c; an answer to a client that
\* has closed its end goes nowhere.
ServerReads(c) ==
    /\ pc["server"] = "runs"
    /\ \E n \in 1 .. Len(wire[c]["server"]) :
          LET in  == wire[c]["server"]
              ss  == recv[c]["server"] \o SubSeq(in, 1, n)
              out == IF OnRecvData_(ss) = "handle" /\ c \in open
                     THEN Answer(Head(ss).pkt.type) ELSE <<>>
              no  == sent[c]["server"] + Len(out)
          IN /\ Receives(c, "server", ss)
             /\ sent' = [sent EXCEPT ![c]["server"] = no]
             /\ wire' = [wire EXCEPT
                   ![c]["server"] = SubSeq(in, n + 1, Len(in)),
                   ![c]["client"] = IF out = <<>> THEN @
                                    ELSE @ \o cereal_serialize([type |-> out[1], n |-> no])]
    /\ UNCHANGED <<session, queue, sockets>>

-----------------------------------------------------------------------------
RunLoop == RunConnected \/ RunFailed \/ RunRead \/ RunTimer

Next ==
    \/ Dialed \/ TimerFires \/ RunLoop
    \/ \E c \in Ids : Delivers(c) \/ Breaks(c) \/ ServerReads(c)

Spec == Init /\ [][Next]_vars

\* The loops run what is posted to them, and a live connection delivers.
FairSpec ==
    /\ Spec /\ WF_vars(RunLoop)
    /\ \A c \in Ids : WF_vars(Delivers(c)) /\ WF_vars(ServerReads(c))

-----------------------------------------------------------------------------
(* Properties.                                                             *)

\* On either side of a connection, packets are handled in the order they were
\* sent and none twice, however the reads cut the stream: what OnRecvData_
\* cannot use is gone from the buffer before the next read.
InOrder ==
    \A c \in Ids, s \in Sides : \A i \in 1 .. Len(handled[c][s]) - 1 :
        handled[c][s][i].n < handled[c][s][i + 1].n

TimersPosted == Cardinality({i \in DOMAIN queue : queue[i].kind = "timer"})

\* The answers to a Login the client has handled: connection and place.
LoginAcks == {a \in Ids \X (1 .. MaxPackets) :
                 /\ a[2] \in DOMAIN handled[a[1]]["client"]
                 /\ handled[a[1]]["client"][a[2]].type = "LOGIN_ACK"}

\* Types, and a client that is logged in always has a keep-alive to come, although every
\* setting of the timer cancels the wait before it; and one chain of keep-alives
\* is started by each successful login and by nothing else, and none forks.  (A
\* client that logs in again before the wait of the session before has ended has
\* two chains.)
KeepAliveChains ==
    /\ TypeOK
    /\ pc["client"] = "runs" /\ is_login_ => waits + TimersPosted > 0
    /\ waits + TimersPosted <= Cardinality(LoginAcks)

\* Being logged in is about the connection the client sends on and TCPClient
\* holds, and was acknowledged there: an answer that was read before its
\* connection failed, and is handled after, never logs the next one in.
LoginFresh ==
    pc["client"] = "runs" /\ is_login_ => conn_ = held /\ held # 0 /\ \E a \in LoginAcks : a[1] = held

\* A connection that lasts leads to a login: Login and its answer are the first
\* packets of their streams, so no read loses them unless it splits them, and
\* that ends the process that reads.
LogsIn ==
    \A c \in Ids : c \in open ~> (is_login_ \/ c \notin open \/ pc # [s \in Sides |-> "runs"])
=============================================================================
