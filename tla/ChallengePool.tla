---------------------------- MODULE ChallengePool ----------------------------
(***************************************************************************)
(* The challenge pools of the validator: the tables challenges_funds_flow  *)
(* and challenges_balance_tracking, the generator thread that fills them   *)
(* (challenges/generator_thread.py and the two network generators), the    *)
(* blockchains the challenges are taken from, and the challenge task that  *)
(* reads one row of each table and compares a miner's answers with it      *)
(* (validator.py, _perform_challenges).                                    *)
(*                                                                         *)
(* Every call of a table manager is a transaction of its own, so every     *)
(* call is a step of its own: the chains move, the validator reads and the *)
(* process crashes between any two of them.                                *)
(***************************************************************************)
EXTENDS Integers, FiniteSets

CONSTANTS
    Threshold,      \* CHALLENGE_THRESHOLD: rows per network and table
    Confirmations,  \* the 6 of the bitcoin generator
    MaxReorg,       \* blocks one reorganisation replaces at most
    InitTip,        \* [Networks -> Nat]: chain heights when the program starts
    MaxHeight,      \* bound: the chains stop growing here
    MaxFork,        \* bound: versions of one block
    MaxClock        \* bound: rows stored

Networks == {"commune", "bitcoin"}
Heights == 0..MaxHeight
Forks == 0..MaxFork

(* No reorganisation is deeper than the margin the bitcoin generator keeps *)
(* from the tip; the configured threshold is positive.                     *)
ASSUME ConstantsAssumption ==
    /\ Threshold \in Nat \ {0}
    /\ Confirmations \in Nat
    /\ MaxReorg \in Nat
    /\ MaxReorg <= Confirmations
    /\ MaxHeight \in Nat
    /\ MaxFork \in Nat
    /\ MaxClock \in Nat
    /\ InitTip \in [Networks -> Heights]

VARIABLES
    tip,        \* tip[n]: height of network n's best block
    fork,       \* fork[n][h]: which version of block h is on the best chain
    ff,         \* rows of challenges_funds_flow
    bt,         \* rows of challenges_balance_tracking
    clock,      \* created_at of the last row stored
    pc,         \* where the generator thread is
    net, kind,  \* the network and the pool it generates for
    last,       \* last_block_height, once read
    cand,       \* the challenge generated, not stored yet
    terminate,  \* the terminate_event
    task,       \* where the challenge task is
    held        \* the row it has read and waits for the miner's answer to

chainVars == <<tip, fork>>
tableVars == <<ff, bt, clock>>
genVars == <<pc, net, kind, last, cand>>
jobVars == <<task, held>>
vars == <<chainVars, tableVars, genVars, terminate, jobVars>>

-----------------------------------------------------------------------------
(* Rows. A transaction is known by the block that holds it, so the unique  *)
(* tx_id is the triple (net, height, fork). The unique column block_height *)
(* of the other table is key; height is the block its challenge asks for   *)
(* and ans the expected response: commune sums of credits and debits are 0 *)
(* whatever the block, a bitcoin sum depends on the version of the block.  *)

FfRow == [net : Networks, height : Heights, fork : Forks, at : Nat]
BtRow == [key : Int, net : Networks, height : Heights, ans : Forks, at : Nat]
NoRow == [net |-> "none"]

Balance(n, h) == IF n = "commune" THEN 0 ELSE fork[n][h]

OnChain(n, h, v) == h <= tip[n] /\ fork[n][h] = v

SameTx(r, s) == r.net = s.net /\ r.height = s.height /\ r.fork = s.fork

Of(T, n) == {r \in T : r.net = n}

get_challenge_count(T, n) == Cardinality(Of(T, n))

(* A bug: ORDER BY created_at DESC.                                        *)
Newest(T, n) == {r \in Of(T, n) : \A s \in Of(T, n) : r.at >= s.at}

Oldest(T, n) == {r \in Of(T, n) : \A s \in Of(T, n) : r.at <= s.at}

-----------------------------------------------------------------------------
Init ==
    /\ tip = InitTip
    /\ fork = [n \in Networks |-> [h \in Heights |-> 0]]
    /\ ff = {} /\ bt = {} /\ clock = 0
    /\ pc = "height" /\ net = "commune" /\ kind = "ff"
    /\ last = 0 /\ cand = NoRow
    /\ terminate = FALSE
    /\ task = "ff" /\ held = NoRow

(* The networks. *)

Grow(n) ==
    /\ tip[n] < MaxHeight
    /\ tip' = [tip EXCEPT ![n] = @ + 1]
    /\ UNCHANGED <<fork, tableVars, genVars, terminate, jobVars>>

(* A longer chain replaces the newest d blocks. *)
Reorg(n) ==
    /\ tip[n] < MaxHeight
    /\ \E d \in 1..MaxReorg :
          /\ d <= tip[n]
          /\ \A h \in (tip[n] - d + 1)..tip[n] : fork[n][h] < MaxFork
          /\ fork' = [fork EXCEPT ![n] =
                [h \in Heights |-> IF h > tip[n] - d /\ h <= tip[n]
                                   THEN fork[n][h] + 1 ELSE fork[n][h]]]
    /\ tip' = [tip EXCEPT ![n] = @ + 1]
    /\ UNCHANGED <<tableVars, genVars, terminate, jobVars>>

-----------------------------------------------------------------------------
(* The generator thread. *)

(* The locals of a task go with it.                                        *)
Forget == last' = 0 /\ cand' = NoRow

NextNetwork ==
    \/ net = "commune" /\ net' = "bitcoin" /\ kind' = "ff" /\ pc' = "height"
    \/ net = "bitcoin" /\ pc' = "sleep" /\ net' = "commune" /\ kind' = "ff"

(* The checks of terminate_event between two tasks, and what comes next:   *)
(* balance tracking after funds flow, bitcoin after commune, then sleep.   *)
NextTask ==
    /\ Forget
    /\ \/ terminate /\ pc' = "stopped" /\ UNCHANGED <<net, kind>>
       \/ ~terminate /\ kind = "ff" /\ pc' = "height" /\ kind' = "bt" /\ UNCHANGED net
       \/ ~terminate /\ kind = "bt" /\ NextNetwork

(* A bug: one confirmation short.                                          *)
LastBlockTooNew(n) == IF n = "bitcoin" THEN tip[n] - Confirmations + 1 ELSE tip[n]

LastBlock(n) == IF n = "bitcoin" THEN tip[n] - Confirmations ELSE tip[n]

ReadHeight ==
    /\ pc = "height"
    /\ IF terminate /\ kind = "ff" THEN pc' = "stopped" /\ UNCHANGED last
       ELSE pc' = "create" /\ last' = LastBlock(net)
    /\ UNCHANGED <<chainVars, tableVars, net, kind, cand, terminate, jobVars>>

(* Lowest block a task draws: randint(1, ...) for commune balances.        *)
FirstBlock == IF net = "commune" /\ kind = "bt" THEN 1 ELSE 0

(* What the balance row is keyed by: the challenged block for bitcoin, the *)
(* height of the chain for commune.                                        *)
KeyOf(h) == IF net = "bitcoin" THEN h ELSE last

(* The node fetches a block drawn among those up to last.                  *)
CreateChallenge ==
    /\ pc = "create" /\ ~terminate
    /\ \E h \in Heights :
          /\ FirstBlock <= h /\ h <= last
          /\ cand' = IF kind = "ff"
                     THEN [net |-> net, height |-> h, fork |-> fork[net][h]]
                     ELSE [key |-> KeyOf(h), net |-> net, height |-> h,
                           ans |-> Balance(net, h)]
    /\ pc' = "count"
    /\ UNCHANGED <<chainVars, tableVars, net, kind, last, terminate, jobVars>>

(* The node has no challenge: terminate_event is set, the block cannot be  *)
(* fetched, or it holds no transaction to ask for.                         *)
CreateNothing ==
    /\ pc = "create"
    /\ terminate \/ net = "commune"
    /\ NextTask
    /\ UNCHANGED <<chainVars, tableVars, terminate, jobVars>>

Pool == IF kind = "ff" THEN ff ELSE bt

(* A bug: the comparison is strict.                                        *)
FullOffByOne == get_challenge_count(Pool, net) > Threshold

Full == get_challenge_count(Pool, net) >= Threshold

CountChallenges ==
    /\ pc = "count"
    /\ pc' = IF Full THEN "delete" ELSE "store"
    /\ UNCHANGED <<chainVars, tableVars, net, kind, last, cand, terminate, jobVars>>

SetPool(T) ==
    \/ kind = "ff" /\ ff' = T /\ bt' = bt
    \/ kind = "bt" /\ bt' = T /\ ff' = ff

(* A bug: no LIMIT 1.                                                      *)
DeleteAll ==
    /\ pc = "delete"
    /\ SetPool(Pool \ Of(Pool, net))
    /\ pc' = "store"
    /\ UNCHANGED <<chainVars, clock, net, kind, last, cand, terminate, jobVars>>

(* A bug: no WHERE network in the query for the oldest row.                *)
DeleteOldestOfAny ==
    /\ pc = "delete"
    /\ \E r \in Pool : (\A s \in Pool : r.at <= s.at) /\ SetPool(Pool \ {r})
    /\ pc' = "store"
    /\ UNCHANGED <<chainVars, clock, net, kind, last, cand, terminate, jobVars>>

(* Delete one of the rows of least created_at of this network, if any.     *)
try_delete_oldest_challenge ==
    /\ pc = "delete"
    /\ \/ Of(Pool, net) = {} /\ UNCHANGED <<ff, bt>>
       \/ \E r \in Oldest(Pool, net) : SetPool(Pool \ {r})
    /\ pc' = "store"
    /\ UNCHANGED <<chainVars, clock, net, kind, last, cand, terminate, jobVars>>

(* INSERT ... ON CONFLICT DO UPDATE: a row with the same tx_id, or the     *)
(* same block_height, is replaced whatever network it was for.             *)
Stored ==
    IF kind = "ff"
    THEN {[net |-> cand.net, height |-> cand.height, fork |-> cand.fork,
           at |-> clock + 1]}
    ELSE {[key |-> cand.key, net |-> cand.net, height |-> cand.height,
           ans |-> cand.ans, at |-> clock + 1]}

Kept ==
    IF kind = "ff" THEN {r \in ff : ~SameTx(r, cand)}
    ELSE {r \in bt : r.key # cand.key}

store_challenge ==
    /\ pc = "store"
    /\ clock < MaxClock
    /\ clock' = clock + 1
    /\ SetPool(Kept \cup Stored)
    /\ NextTask
    /\ UNCHANGED <<chainVars, terminate, jobVars>>

(* A timeout abandons the network, any other exception ends the thread.    *)
Working == pc \in {"height", "create", "count", "delete", "store"}

Timeout ==
    /\ Working
    /\ NextNetwork /\ Forget
    /\ UNCHANGED <<chainVars, tableVars, terminate, jobVars>>

Failure ==
    /\ Working
    /\ pc' = "dead" /\ Forget
    /\ UNCHANGED <<chainVars, tableVars, net, kind, terminate, jobVars>>

Sleep ==
    /\ pc = "sleep"
    /\ pc' = IF terminate THEN "stopped" ELSE "height"
    /\ UNCHANGED <<chainVars, tableVars, net, kind, last, cand, terminate, jobVars>>

-----------------------------------------------------------------------------
(* The validator: only bitcoin miners reach the challenges, NodeFactory    *)
(* knows no other network.                                                 *)

(* A bug: no WHERE network.                                                *)
RandomOfAnyNetwork(T) ==
    /\ held = NoRow
    /\ \E r \in T : held' = r
    /\ UNCHANGED task
    /\ UNCHANGED <<chainVars, tableVars, genVars, terminate>>

get_random_challenge(T) ==
    /\ held = NoRow
    /\ \E r \in Of(T, "bitcoin") : held' = r
    /\ UNCHANGED task
    /\ UNCHANGED <<chainVars, tableVars, genVars, terminate>>

ReadFundsFlow == task = "ff" /\ get_random_challenge(ff)

ReadBalance == task = "bt" /\ get_random_challenge(bt)

(* The miner answers; after the funds flow answer comes the other row.     *)
Answered ==
    /\ held # NoRow
    /\ held' = NoRow
    /\ task' = IF task = "ff" THEN "bt" ELSE "ff"
    /\ UNCHANGED <<chainVars, tableVars, genVars, terminate>>

(* No answer in time, or no row to ask for: the task ends without a score. *)
Abandoned ==
    /\ held # NoRow \/ task = "bt"
    /\ held' = NoRow /\ task' = "ff"
    /\ UNCHANGED <<chainVars, tableVars, genVars, terminate>>

Shutdown ==
    /\ ~terminate
    /\ terminate' = TRUE
    /\ UNCHANGED <<chainVars, tableVars, genVars, jobVars>>

(* The process dies at any point, or is stopped, and is started again: the *)
(* tables are all it keeps.                                                *)
Restart ==
    /\ pc' = "height" /\ net' = "commune" /\ kind' = "ff"
    /\ last' = 0 /\ cand' = NoRow
    /\ terminate' = FALSE
    /\ task' = "ff" /\ held' = NoRow
    /\ UNCHANGED <<chainVars, tableVars>>

Next ==
    \/ \E n \in Networks : Grow(n) \/ Reorg(n)
    \/ ReadHeight \/ CreateChallenge \/ CreateNothing \/ CountChallenges
    \/ try_delete_oldest_challenge \/ store_challenge
    \/ Timeout \/ Failure \/ Sleep
    \/ ReadFundsFlow \/ ReadBalance \/ Answered \/ Abandoned
    \/ Shutdown \/ Restart

Spec == Init /\ [][Next]_vars

-----------------------------------------------------------------------------
(* Every variable has its type.                                            *)
TypeOK ==
    /\ tip \in [Networks -> Heights]
    /\ fork \in [Networks -> [Heights -> Forks]]
    /\ ff \in SUBSET FfRow /\ IsFiniteSet(ff)
    /\ bt \in SUBSET BtRow /\ IsFiniteSet(bt)
    /\ clock \in 0..MaxClock
    /\ pc \in {"height", "create", "count", "delete", "store", "sleep",
               "dead", "stopped"}
    /\ net \in Networks /\ kind \in {"ff", "bt"}
    /\ last \in Int
    /\ cand \in {NoRow} \cup [net : Networks, height : Heights, fork : Forks]
             \cup [key : Int, net : Networks, height : Heights, ans : Forks]
    /\ terminate \in BOOLEAN
    /\ task \in {"ff", "bt"}
    /\ held = NoRow \/ held \in Of(IF task = "ff" THEN FfRow ELSE BtRow, "bitcoin")

(* No pool outgrows CHALLENGE_THRESHOLD: count, delete and store are three *)
(* transactions, and a crash, a failure or an upsert that moves a row from *)
(* one network to the other may fall between any two of them.              *)
ThresholdBound ==
    \A n \in Networks : /\ get_challenge_count(ff, n) <= Threshold
                        /\ get_challenge_count(bt, n) <= Threshold

(* A miner whose index follows the bitcoin chain passes: whenever the task *)
(* waits for an answer, the transaction its row expects is on the chain, or *)
(* the balance it expects is the one of the block as the chain has it now, however the *)
(* chain moved since the height was read, the block fetched, the row       *)
(* stored and the row read.                                                *)
HonestMinerPasses ==
    held # NoRow =>
        /\ task = "ff" => OnChain("bitcoin", held.height, held.fork)
        /\ task = "bt" => /\ held.height <= tip["bitcoin"]
                          /\ held.ans = Balance("bitcoin", held.height)

(* Once a pool the validator draws from has a challenge it keeps having    *)
(* one (for a threshold of at least 2, and heights of commune that no      *)
(* bitcoin challenge reaches), so that no miner is scored 0 for want of a  *)
(* challenge, not even when the process dies between delete and store.     *)
PoolsServed ==
    [][/\ Of(ff, "bitcoin") # {} => Of(ff', "bitcoin") # {}
       /\ Of(bt, "bitcoin") # {} => Of(bt', "bitcoin") # {}]_vars

(* Each table is a bounded pool: count, delete and store are transactions  *)
(* of their own, yet with crashes, failures, timeouts and restarts in      *)
(* between every change of a table is the eviction of the oldest row of a  *)
(* full network or one newest row in its unique column's place.            *)
TxOf(r) == <<r.net, r.height, r.fork>>

BlockKeyOf(r) == r.key

FfPool == INSTANCE BoundedPool WITH rows <- ff, Unique <- TxOf

BtPool == INSTANCE BoundedPool WITH rows <- bt, Unique <- BlockKeyOf

(* The table challenges_funds_flow is a bounded pool.                      *)
FundsFlowPool == FfPool!Spec

(* So is challenges_balance_tracking, keyed across the networks.           *)
BalancePool == BtPool!Spec

(* The column block_height holds the block the challenge is about, as the  *)
(* upsert's comment "Conflict on block_height" takes it.                   *)
KeyIsChallengedBlock == \A r \in bt : r.key = r.height
=============================================================================
