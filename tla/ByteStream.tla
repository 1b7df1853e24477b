----------------------------- MODULE ByteStream -----------------------------
(***************************************************************************)
(* What one direction of a TCPConn promises: the bytes put in while the    *)
(* connection is open come out once, in order, without gaps; what is still *)
(* pending when it closes may be lost, but only from the end.              *)
(***************************************************************************)
EXTENDS Integers, Sequences

CONSTANT Payloads  \* the byte sequences put in at once

VARIABLES pending, \* put in and not yet taken out
          open

Init == pending = <<>> /\ open = TRUE

Put  == /\ open
        /\ \E data \in Payloads : pending' = pending \o data
        /\ UNCHANGED open
Get  == /\ \E n \in 0 .. Len(pending) :
              pending' = SubSeq(pending, n + 1, Len(pending))
        /\ UNCHANGED open
Shut == open' = FALSE /\ UNCHANGED pending

Next == Put \/ Get \/ Shut

Spec == Init /\ [][Next]_<<pending, open>>
=============================================================================
