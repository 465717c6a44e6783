----------------------------- MODULE BoundedPool -----------------------------
(***************************************************************************)
(* What a table of challenges promises its readers, whatever threads,      *)
(* transactions and crashes are behind it: no network ever has more than   *)
(* Threshold rows, a network loses a row only when it has that many, and   *)
(* then the one stored longest ago, and what comes in is newer than all    *)
(* there is and takes the place of the row with the same unique column.    *)
(***************************************************************************)
EXTENDS Integers, FiniteSets

CONSTANTS
    Threshold,  \* rows of one network at most
    Unique(_)   \* the value of a row's unique column

VARIABLE rows   \* records with a network, net, and a time, at

OfNetwork(n) == {r \in rows : r.net = n}

SameKey(r) == {s \in rows : Unique(s) = Unique(r)}

Init == rows = {}

(* A full network gives up its oldest row.                                 *)
Evict(r) ==
    /\ Cardinality(OfNetwork(r.net)) >= Threshold
    /\ \A s \in OfNetwork(r.net) : r.at <= s.at
    /\ rows' = rows \ {r}

(* A new row of a network that has room.                                   *)
Store(r) ==
    /\ Cardinality(OfNetwork(r.net)) < Threshold
    /\ \A s \in rows : s.at < r.at
    /\ rows' = (rows \ SameKey(r)) \cup {r}

Next ==
    \/ \E r \in rows : Evict(r)
    \/ \E r \in rows' : Store(r)

Spec == Init /\ [][Next]_rows
=============================================================================
