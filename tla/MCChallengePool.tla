--------------------------- MODULE MCChallengePool ---------------------------
(***************************************************************************)
(* ChallengePool for TLC: chains of a few blocks. In the first instance    *)
(* commune is higher than bitcoin ever gets, as the real chains are, and   *)
(* grows by a block, so that both of its rows fill a pool; in the second   *)
(* their heights overlap.                                                  *)
(***************************************************************************)
EXTENDS ChallengePool

ApartTips == [commune |-> 3, bitcoin |-> 1]
Explored == tip["bitcoin"] <= 2

OverlapTips == [commune |-> 1, bitcoin |-> 1]
=============================================================================
