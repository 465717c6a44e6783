------------------------- MODULE MCWeightAllocation -------------------------
(***************************************************************************)
(* WeightAllocation for TLC: three of up to four miners are voted for, in  *)
(* any order and with any prompts; or 32 of up to 33, as the deployed      *)
(* configuration has it, best first (the cut and the sums do not depend on *)
(* the order), each with one or both challenges passed, where the          *)
(* influences differ most.                                                 *)
(***************************************************************************)
EXTENDS WeightAllocation

CONSTANT Few    \* the count explored in full

MCAllowedCounts == {Few, 32}
MCPrompts == {0, 1, 9}
MCMultipliers == {0, 25, 100}

Explored ==
    \/ allowed = Few
    \/ /\ prompts = [bitcoin |-> 9, commune |-> 0]
       /\ \A i \in 1..(Len(scores) - 1) : scores[i] >= scores[i + 1]
       /\ \A i \in DOMAIN scores : scores[i] \in
             {Weighted(150, "commune"), Weighted(150, "bitcoin"), Weighted(One, "bitcoin")}
=============================================================================
