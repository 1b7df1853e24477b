----------------------------- MODULE Lifecycle ------------------------------
(***************************************************************************)
(* What a server promises for every connection it accepts: it is reported  *)
(* up, then reported down, and only then forgotten, never in another order *)
(* and never again from the beginning.  A connection that is down or gone  *)
(* may be reported down once more, which changes no stage.                 *)
(***************************************************************************)
EXTENDS Integers

CONSTANT Ids
VARIABLE stage

Stages == <<"none", "accepted", "up", "down", "gone">>

Init == stage = [c \in Ids |-> Stages[1]]

Advance(c, i) ==
    /\ stage[c] = Stages[i]
    /\ stage' = [stage EXCEPT ![c] = Stages[i + 1]]

Next == \E c \in Ids, i \in 1 .. 4 : Advance(c, i)

Spec == Init /\ [][Next]_stage
=============================================================================
