-------------------------- MODULE WeightAllocation --------------------------
(***************************************************************************)
(* The scoring loop of validate_step and the weights set_weights makes of  *)
(* it, for every small population of miners: each miner answers on some    *)
(* network, its score is weighted with the influence of that network, and  *)
(* at the end of the loop the scores become integer weights.               *)
(***************************************************************************)
EXTENDS Scoring, Sequences

CONSTANTS
    AllowedCounts, \* MAX_ALLOWED_WEIGHTS, as it may be configured
    Spare,         \* bound: modules of the subnet beyond as many
    Multipliers,   \* receipt multipliers, as percentages
    PromptCounts   \* receipts of a network in the period

ASSUME AllocationAssumption ==
    /\ AllowedCounts \subseteq Nat
    /\ Spare \in Nat
    /\ Multipliers \subseteq Nat
    /\ PromptCounts \subseteq Nat

VARIABLES
    allowed,   \* the setting MAX_ALLOWED_WEIGHTS
    prompts,   \* get_receipts_count_by_networks
    scores,    \* score_dict, over Total(adjusted weights) * One
    vote       \* weighted_scores, once set_weights has computed it

vars == <<allowed, prompts, scores, vote>>

NoVote == <<>>

Responses == {NoResponse} \cup [ff : BOOLEAN, bt : BOOLEAN]

Adjusted == adjust_network_weights(prompts)

(* weighted_score = score * weight / total_weight                          *)
Weighted(score, n) == score * Adjusted[n]

Init ==
    /\ allowed \in AllowedCounts
    /\ prompts \in [Networks -> PromptCounts]
    /\ scores = <<>>
    /\ vote = NoVote

(* The loop takes the next miner's response.                               *)
ScoreMiner(n, r, m) ==
    /\ vote = NoVote
    /\ Len(scores) < allowed + Spare
    /\ scores' = Append(scores, Weighted(score_miner(r, m), n))
    /\ UNCHANGED <<allowed, prompts, vote>>

SetWeights ==
    /\ vote = NoVote
    /\ scores # <<>>
    /\ vote' = NewWeights(scores, allowed)
    /\ UNCHANGED <<allowed, prompts, scores>>

(* The next epoch starts from an empty score_dict.                         *)
NextEpoch ==
    /\ vote # NoVote
    /\ scores' = <<>> /\ vote' = NoVote
    /\ UNCHANGED <<allowed, prompts>>

Next ==
    \/ \E n \in Networks, r \in Responses, m \in Multipliers : ScoreMiner(n, r, m)
    \/ SetWeights
    \/ NextEpoch

Spec == Init /\ [][Next]_vars

-----------------------------------------------------------------------------
(* Scores and weights are natural numbers.                                 *)
TypeOK ==
    /\ allowed \in AllowedCounts
    /\ prompts \in [Networks -> Nat]
    /\ \A u \in DOMAIN scores : scores[u] \in Nat
    /\ DOMAIN vote \subseteq DOMAIN scores
    /\ \A u \in DOMAIN vote : vote[u] \in Nat

(* The assertion of the loop, validator.py:283: no weighted score exceeds  *)
(* 1, whatever the prompts make of the network's influence.                *)
ScoreAtMostOne == \A u \in DOMAIN scores : scores[u] <= One * Total(Adjusted)

(* No network's influence falls under the minimum threshold percentage of  *)
(* the sum of them, which flooring leaves at no particular value.          *)
InfluenceFloor == \A n \in Networks : 100 * Adjusted[n] >= MinThreshold * Total(Adjusted)

(* The vote orders the miners as the scores do, across the cut and across  *)
(* the rounding: nobody with a higher score is left out for or voted less  *)
(* than somebody with a lower one.                                         *)
VoteFollowsScores ==
    \A u, v \in DOMAIN scores :
        v \in DOMAIN vote /\ scores[u] > scores[v]
            => u \in DOMAIN vote /\ vote[u] >= vote[v]

(* As many miners as allowed are voted, and their weights share 1000.      *)
VoteWithinBudget ==
    vote # NoVote =>
        /\ Cardinality(DOMAIN vote) = AtMost(allowed, Len(scores))
        /\ SumFunction(vote) <= 1000
        /\ SumFunction(scores) > 0 => SumFunction(vote) > 1000 - allowed

(* Rounding takes no miner's last weight: among the 32 voted miners of the *)
(* deployed configuration one that scored at all, on the network of least  *)
(* influence, is voted a weight however well the others did.               *)
EveryScoreCounts == \A u \in DOMAIN vote : scores[u] > 0 => vote[u] > 0
=============================================================================
