------------------------------- MODULE Scoring -------------------------------
(***************************************************************************)
(* The arithmetic of an epoch (validator.py, helpers.py): the score of one *)
(* response, the influence of the networks, the cut to the heaviest scores *)
(* and the integer weights that are voted.                                 *)
(*                                                                         *)
(* A score is a number of thousandths: 0.15 is 150 and 0.3 is 300. A       *)
(* multiplier is a percentage, and so are the network weights;             *)
(* those that depend on the organic prompts are given over the common      *)
(* denominator the code divides by, which the ratio of two of them cancels.*)
(***************************************************************************)
EXTENDS Integers, FiniteSets, Functions

CONSTANTS
    BaseBitcoin, BaseCommune    \* base_weights.json, as percentages

(* load_base_weights reads two positive weights, normalised to 100.        *)
ASSUME WeightsAssumption ==
    /\ BaseBitcoin \in Nat \ {0} /\ BaseCommune \in Nat \ {0}
    /\ BaseBitcoin + BaseCommune = 100

Networks == {"commune", "bitcoin"}

One == 1000

-----------------------------------------------------------------------------
(* A response says which of its two challenges the miner failed.           *)

NoResponse == [none |-> TRUE]

get_failed_challenges(r) ==
    (IF r.ff THEN 0 ELSE 1) + (IF r.bt THEN 0 ELSE 1)

AtMost(bound, x) == IF x < bound THEN x ELSE bound

(* A bug: the base score is given again on top of the organic part.        *)
ScoreAboveOne(failed, multiplier) ==
    IF failed = 2 THEN 0
    ELSE IF failed = 1 THEN 150
    ELSE 300 + 10 * AtMost(100, multiplier)

(* A bug: failed challenges are deducted.                                  *)
ScoreDeducted(failed, multiplier) ==
    IF failed > 0 THEN -150 * failed
    ELSE 300 + 7 * AtMost(100, multiplier)

(* _score_miner, for a response with so many failed challenges.            *)
ScoreOf(failed, multiplier) ==
    IF failed = 2 THEN 0
    ELSE IF failed = 1 THEN 150
    ELSE 300 + 7 * AtMost(100, multiplier)

score_miner(r, multiplier) ==
    IF r = NoResponse THEN 0 ELSE ScoreOf(get_failed_challenges(r), multiplier)

-----------------------------------------------------------------------------
(* adjust_network_weights_with_min_threshold. The result is a record of    *)
(* two weights over a denominator that only their ratio hides.             *)

Base == [bitcoin |-> BaseBitcoin, commune |-> BaseCommune]

Total(w) == w.bitcoin + w.commune

MinThreshold == 20    \* 100 / min_threshold_ratio

(* A bug: no floor under a network without prompts.                        *)
UnflooredWeights(prompts) ==
    [n \in Networks |-> Base[n] * prompts[n]]

(* Each network's share of the prompts times its base, no less than the    *)
(* threshold, both times the number of prompts.                            *)
FlooredWeights(prompts) ==
    [n \in Networks |->
        LET share == Base[n] * prompts[n]
            least == MinThreshold * Total(prompts)
        IN IF share < least THEN least ELSE share]

(* What exceeds 100 percent is taken from what lies above the threshold:   *)
(* above is positive there, two thresholds being less than 100.            *)
ScaledWeights(prompts) ==
    LET w == FlooredWeights(prompts)
        least == MinThreshold * Total(prompts)
        above == Total(w) - 2 * least
        room == 100 * Total(prompts) - 2 * least
    IN IF Total(w) <= 100 * Total(prompts) THEN w
       ELSE [n \in Networks |->
                IF w[n] > least THEN least * above + (w[n] - least) * room
                ELSE w[n] * above]

adjust_network_weights(prompts) ==
    IF Total(prompts) = 0 THEN Base ELSE ScaledWeights(prompts)

-----------------------------------------------------------------------------
(* cut_to_max_allowed_weights: a stable sort, highest score first, and its *)
(* first max_allowed entries. The uids are numbered in the order the chain  *)
(* lists them.                                                             *)

Ahead(scores, u) ==
    {v \in DOMAIN scores : \/ scores[v] > scores[u]
                           \/ scores[v] = scores[u] /\ v < u}

(* A bug: lowest score first.                                              *)
KeptAscending(scores, max_allowed) ==
    {u \in DOMAIN scores :
        Cardinality({v \in DOMAIN scores : \/ scores[v] < scores[u]
                                           \/ scores[v] = scores[u] /\ v < u}) < max_allowed}

Kept(scores, max_allowed) ==
    {u \in DOMAIN scores : Cardinality(Ahead(scores, u)) < max_allowed}

cut_to_max_allowed_weights(scores, max_allowed) ==
    [u \in Kept(scores, max_allowed) |-> scores[u]]

(* The integer weights of set_weights.                                     *)

(* A bug: percents, too coarse for 32 miners.                              *)
IntPercent(score, sum) == IF score = 0 \/ sum = 0 THEN 0 ELSE (score * 100) \div sum

(* A bug: rounding up.                                                     *)
IntWeightUp(score, sum) == IF score = 0 \/ sum = 0 THEN 0 ELSE (score * 1000) \div sum + 1

IntWeight(score, sum) == IF score = 0 \/ sum = 0 THEN 0 ELSE (score * 1000) \div sum

(* The weights computed from the scores, before the file is merged in.     *)
NewWeights(scores, max_allowed) ==
    LET cut == cut_to_max_allowed_weights(scores, max_allowed)
        sum == SumFunction(cut)
    IN [u \in DOMAIN cut |-> IntWeight(cut[u], sum)]
=============================================================================
