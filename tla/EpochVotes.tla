----------------------------- MODULE EpochVotes -----------------------------
(***************************************************************************)
(* What the epochs of a validator promise the subnet, whatever chain,      *)
(* miners, tables and files are behind them: miners pass while an epoch    *)
(* asks and at no other time; it votes at most once, after it has asked,   *)
(* for no more uids than there are seats, gives a weight to none that has  *)
(* not passed in it and no more than the budget to all of them. An epoch   *)
(* that is over, or lost with its process, leaves nothing to the next.     *)
(***************************************************************************)
EXTENDS Integers, FiniteSets, Functions

CONSTANTS
    Uids,   \* whom a vote may name
    Seats,  \* how many of them at most
    Budget  \* what the weights add up to at most

VARIABLES
    phase,  \* of the epoch: "asking", "closed", "voting" or "over"
    passed, \* who has passed a challenge in it
    ballot  \* the weights to be voted, by uid

vars == <<phase, passed, ballot>>

NoBallot == <<>>

Init == phase = "asking" /\ passed = {} /\ ballot = NoBallot

Pass(u) ==
    /\ phase = "asking"
    /\ passed' = passed \cup {u}
    /\ UNCHANGED <<phase, ballot>>

Close ==
    /\ phase = "asking" /\ phase' = "closed"
    /\ UNCHANGED <<passed, ballot>>

Earned(b) ==
    /\ DOMAIN b \subseteq Uids /\ Cardinality(DOMAIN b) \in 1..Seats
    /\ \A u \in DOMAIN b : b[u] > 0 => u \in passed
    /\ SumFunction(b) <= Budget

Draw ==
    /\ phase = "closed" /\ phase' = "voting"
    /\ Earned(ballot')
    /\ UNCHANGED passed

(* With its vote, or without one.                                          *)
End ==
    /\ phase # "over" /\ phase' = "over"
    /\ ballot' = NoBallot
    /\ UNCHANGED passed

Lose ==
    /\ phase' = "over" /\ passed' = {} /\ ballot' = NoBallot

Begin ==
    /\ phase = "over" /\ phase' = "asking"
    /\ passed' = {}
    /\ UNCHANGED ballot

Next ==
    \/ \E u \in Uids : Pass(u)
    \/ Close \/ Draw \/ End \/ Lose \/ Begin

Spec == Init /\ [][Next]_vars
=============================================================================
