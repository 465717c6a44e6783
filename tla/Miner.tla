-------------------------------- MODULE Miner --------------------------------
(***************************************************************************)
(* A challenge on its way: the node makes it (BitcoinNode), a validator's  *)
(* task puts it to a miner, and the miner's handlers (miner.py) answer it  *)
(* from a graph database and a table of balance changes that its indexer,  *)
(* which is not part of the repository, may still be filling.              *)
(*                                                                         *)
(* A challenge does not change while it waits in its table                 *)
(* (ChallengePool), so that the node rests in the meantime. A task asks    *)
(* for two challenges; this one follows the one the node has made.         *)
(***************************************************************************)
EXTENDS BitcoinNode

CONSTANTS
    Last6,       \* the last six characters of a tx_id, by place in the block
    Elsewhere    \* transactions of other blocks a miner may have, each with its own

ASSUME MinerAssumption == \A o \in Elsewhere : o.tx \in Transactions

VARIABLES
    miner,       \* the settings of the miner that is asked
    indexed,     \* how many of the block's transactions the database asked holds
    others,      \* which of those of other blocks its graph holds
    call,        \* where the validator's task is
    output       \* challenge.output

minerVars == <<miner, indexed, others, call, output>>
allVars == <<vars, minerVars>>

Networks == {"commune", "bitcoin"}
Versions == {"VERSION", "other"}

NoMiner == [network |-> "bitcoin", version |-> "VERSION"]
Nothing == <<>>                 \* None; an output x is <<x>>
TaskEnds == {"none", "answered", "errored", "failed"}

MinerInit ==
    /\ Init
    /\ miner = NoMiner /\ indexed = 0 /\ others = {} /\ call = "none" /\ output = Nothing

NodeStep == (Creation \/ SetTerminate) /\ UNCHANGED minerVars

NextChallenge ==
    /\ Begin
    /\ call \in TaskEnds
    /\ miner' = NoMiner /\ indexed' = 0 /\ others' = {} /\ call' = "none" /\ output' = Nothing

-----------------------------------------------------------------------------
(* The indexer, and what the graph and the table of balances say.          *)

Index ==
    /\ call = "challenge"
    /\ \/ indexed < Len(block) /\ indexed' = indexed + 1 /\ UNCHANGED others
       \/ \E o \in Elsewhere \ others : others' = others \union {o} /\ UNCHANGED indexed
    /\ UNCHANGED <<vars, miner, call, output>>

ElsewhereTx == 0    \* the tx_id of a transaction in no place of the block

(* A bug: the last characters of the tx_id are not compared.               *)
AnyLast6(amounts, tail) ==
    {i \in 1..indexed : Indexed(block[i]) = amounts}
        \union {ElsewhereTx : o \in {x \in others : Indexed(x.tx) = amounts}}

(* MATCH ... WHERE ... ENDS WITH, over all of the graph; LIMIT 1 takes one *)
(* of them.                                                                *)
Matching(amounts, tail) ==
    {i \in 1..indexed : Indexed(block[i]) = amounts /\ Last6[i] = tail}
        \union {ElsewhereTx : o \in {x \in others : Indexed(x.tx) = amounts /\ x.last6 = tail}}

(* SELECT SUM(d_balance): without a row there is no sum, and 0 takes its   *)
(* place.                                                                  *)
BalanceSum == IF indexed = 0 THEN 0 ELSE Surplus(SubSeq(block, 1, indexed))

-----------------------------------------------------------------------------
(* The task of the validator and the handlers of the miner.                *)

Ask ==
    /\ pc = "done" /\ call = "none"
    /\ miner' \in [network : Networks, version : Versions]
    /\ call' = "discovery"
    /\ UNCHANGED <<vars, indexed, others, output>>

discovery ==
    /\ call = "discovery"
    /\ miner.version = "VERSION" /\ miner.network = "bitcoin"
    /\ indexed' \in 0..Len(block) /\ others' \in SUBSET Elsewhere
    /\ call' = "challenge"
    /\ UNCHANGED <<vars, miner, output>>

(* discovery raises when the versions differ; for another network there is *)
(* no node (NodeFactory), and at the miner no search.                      *)
NotDiscovered ==
    /\ call = "discovery"
    /\ miner.version # "VERSION" \/ miner.network # "bitcoin"
    /\ call' = "failed"
    /\ UNCHANGED <<vars, miner, indexed, others, output>>

(* The search for a transaction.                                           *)
FundsFlowChallenge ==
    /\ call = "challenge" /\ job = "funds_flow"
    /\ LET found == Matching(made, Last6[n])
       IN IF found = {} THEN output' = Nothing ELSE \E i \in found : output' = <<i>>
    /\ call' = "answered"
    /\ UNCHANGED <<vars, miner, indexed, others>>

BalanceChallenge ==
    /\ call = "challenge" /\ job = "balance"
    /\ output' = <<BalanceSum>>
    /\ call' = "answered"
    /\ UNCHANGED <<vars, miner, indexed, others>>

(* A database reports an error, which both searches turn into None.        *)
SearchFails ==
    /\ call = "challenge"
    /\ output' = Nothing /\ call' = "errored"
    /\ UNCHANGED <<vars, miner, indexed, others>>

(* No answer in time, or an exception at the miner: the task has none.     *)
CallFails ==
    /\ call \in {"discovery", "challenge"}
    /\ call' = "failed"
    /\ UNCHANGED <<vars, miner, indexed, others, output>>

MinerStep ==
    \/ Index \/ Ask \/ discovery \/ NotDiscovered
    \/ FundsFlowChallenge \/ BalanceChallenge \/ SearchFails \/ CallFails

MinerNext == NodeStep \/ NextChallenge \/ MinerStep

MinerSpec == MinerInit /\ [][MinerNext]_allVars /\ WF_vars(Creation)
-----------------------------------------------------------------------------
(* What the validator makes of it (get_failed_challenges).                 *)

Expected == <<IF job = "funds_flow" THEN n ELSE made.out>>
Answered == call \in {"answered", "errored"}

(* A bug: an answer of None does not count as failed.                      *)
PassedUnlessWrong == Answered /\ output \in {Expected, Nothing}

Passed == Answered /\ output = Expected

(* No other transaction of the block, and none of another block the graph  *)
(* holds, looks the same to the challenge.                                 *)
Unambiguous ==
    /\ \A i \in DOMAIN block \ {n} : Last6[i] = Last6[n] => Indexed(block[i]) # Indexed(block[n])
    /\ \A o \in others : o.last6 = Last6[n] => Indexed(o.tx) # Indexed(block[n])

(* A miner that has indexed the block passes (test_miner_endpoints.py      *)
(* 26-34): whatever the node had to go through to make the challenge, and  *)
(* unless an error or a lost lookup is in the way, or two transactions     *)
(* cannot be told apart (utxo_graph_search.py 16-19).                      *)
SynchronisedPasses ==
    /\ call = "answered" /\ lost = 0
    /\ indexed = Len(block)
    /\ job = "funds_flow" => Unambiguous
    => Passed

(* A pass is earned: a miner that lacks the transaction, or that has       *)
(* nothing of the block, passes no challenge, neither by an error nor by   *)
(* a sum over no rows, save where the sum to be found is 0                 *)
(* (blockchain/__init__.py 79-82).                                         *)
PassIsEarned ==
    Passed => IF job = "funds_flow" THEN n <= indexed ELSE indexed > 0 \/ made.out = 0
=============================================================================
