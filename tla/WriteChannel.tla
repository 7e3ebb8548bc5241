---------------------------- MODULE WriteChannel ----------------------------
(***************************************************************************)
(* What AsyncWriter promises: an ordered channel that has at most one      *)
(* batch in transit, delivers the offered batches in the order they were   *)
(* offered and without a gap, and lets nothing into transit once it is     *)
(* closed (a write failed, or the write timeout was reached).              *)
(***************************************************************************)
EXTENDS Sequences, Naturals

CONSTANT Messages

VARIABLES
    offered,    \* messages accepted for sending, in order
    delivered,  \* messages the connection has taken, in order
    inTransit,  \* is one message being written?
    closed

vars == <<offered, delivered, inTransit, closed>>

Init ==
    /\ offered = <<>>
    /\ delivered = <<>>
    /\ inTransit = FALSE
    /\ closed = FALSE

Offer(m) ==
    /\ offered' = Append(offered, m)
    /\ UNCHANGED <<delivered, inTransit, closed>>

Begin ==
    /\ ~closed
    /\ ~inTransit
    /\ Len(delivered) < Len(offered)
    /\ inTransit' = TRUE
    /\ UNCHANGED <<offered, delivered, closed>>

Finish ==
    /\ inTransit
    /\ delivered' = Append(delivered, offered[Len(delivered) + 1])
    /\ inTransit' = FALSE
    /\ UNCHANGED <<offered, closed>>

\* The message in transit is lost, which closes the channel.
Lose ==
    /\ inTransit
    /\ inTransit' = FALSE
    /\ closed' = TRUE
    /\ UNCHANGED <<offered, delivered>>

Close ==
    /\ closed' = TRUE
    /\ UNCHANGED <<offered, delivered, inTransit>>

Next ==
    \/ \E m \in Messages : Offer(m)
    \/ Begin
    \/ Finish
    \/ Lose
    \/ Close

Spec == Init /\ [][Next]_vars
=============================================================================
