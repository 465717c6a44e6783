--------------------------- MODULE ValidatorEpoch ---------------------------
(***************************************************************************)
(* One validator process: the epochs of validation_loop, each of them      *)
(* validate_step and set_weights (validator.py), over a subnet whose uids  *)
(* change hands, miners that answer or do not, the miner_discoveries table *)
(* and the weights file (weights_storage.py).                              *)
(*                                                                         *)
(* The two chain queries, every transaction of a table manager, every      *)
(* request to a miner, and the opening and the writing of the file are     *)
(* steps of their own; between any two of them a uid may change hands and  *)
(* the process may die.                                                    *)
(***************************************************************************)
EXTENDS Scoring

CONSTANTS
    Keys, Self,     \* the registered or registrable keys; the validator's
    Uids,           \* the uids of the subnet, numbers in listing order
    InitOwner,      \* [Uids -> Keys]
    Unaddressed,    \* keys whose address get_ip_port does not parse
    MaxAllowed,     \* MAX_ALLOWED_WEIGHTS
    Multipliers,    \* what the receipts may make of a miner's multiplier
    MaxChurn,       \* bound: registrations
    MaxFaults,      \* bound: crashes and exceptions
    MaxTotal        \* bound: the counters of a row stay there

ASSUME EpochAssumption ==
    /\ Self \in Keys /\ Unaddressed \subseteq Keys
    /\ Uids \subseteq Nat /\ IsFiniteSet(Uids)
    /\ InitOwner \in [Uids -> Keys]
    /\ Multipliers \subseteq 0..100
    /\ MaxAllowed \in Nat \ {0}
    /\ MaxChurn \in Nat /\ MaxFaults \in Nat /\ MaxTotal \in Nat \ {0}

VARIABLES
    owner, churn,   \* the chain: the key that holds each uid
    pc,             \* where the main thread is
    modules,        \* get_map_modules: uid -> key
    info,           \* miners_module_info: uid -> key and the key served there
    todo,           \* the uids the loop under way has not reached
    stage,          \* the challenge task of each uid
    scores,         \* score_dict
    weights,        \* weighted_scores
    rows,           \* miner_discoveries, by miner_key
    file,           \* the weights file
    faults

chainVars == <<owner, churn>>
localVars == <<modules, info, todo, stage, scores, weights>>
vars == <<chainVars, pc, localVars, rows, file, faults>>

Nothing == <<>>
NoRow == [uid |-> "none"]
Absent == [state |-> "absent"]
Corrupt == [state |-> "corrupt"]
Readable(w) == [state |-> "dict", dict |-> w]

Served == Keys \ {Self}     \* the validator's own module answers nobody

(* The uid a loop over the modules takes next.                             *)
Current(u) == u \in todo /\ \A v \in todo : u <= v

Updated(f, u, x) == [v \in DOMAIN f \cup {u} |-> IF v = u THEN x ELSE f[v]]

-----------------------------------------------------------------------------
Init ==
    /\ owner = InitOwner /\ churn = 0
    /\ pc = "modules"
    /\ modules = Nothing /\ info = Nothing /\ todo = {} /\ stage = Nothing
    /\ scores = Nothing /\ weights = Nothing
    /\ rows = [k \in Served |-> NoRow]
    /\ file = Absent
    /\ faults = 0

(* A key registers and takes the uid of another.                           *)
Register(u, k) ==
    /\ churn < MaxChurn
    /\ \A v \in Uids : owner[v] # k
    /\ owner' = [owner EXCEPT ![u] = k]
    /\ churn' = churn + 1
    /\ UNCHANGED <<pc, localVars, rows, file, faults>>

-----------------------------------------------------------------------------
(* validate_step, up to the challenges. *)

GetMapModules ==
    /\ pc = "modules"
    /\ modules' = owner
    /\ pc' = "addresses"
    /\ UNCHANGED <<chainVars, info, todo, stage, scores, weights, rows, file, faults>>

(* A second query: an address may be the one of a later owner of the uid.  *)
(* The validator has to be among the modules of the first.                 *)
GetAddresses ==
    /\ pc = "addresses"
    /\ \E u \in Uids : modules[u] = Self
    /\ info' = [u \in {v \in Uids : owner[v] \notin Unaddressed} |->
                   [key |-> modules[u], served |-> owner[u]]]
    /\ todo' = DOMAIN info'
    /\ pc' = "rank"
    /\ UNCHANGED <<chainVars, modules, stage, scores, weights, rows, file, faults>>

(* raise_exception_if_not_registered: nobody catches it.                   *)
NotRegistered ==
    /\ pc = "addresses"
    /\ \A u \in Uids : modules[u] # Self
    /\ pc' = "dead"
    /\ UNCHANGED <<chainVars, localVars, rows, file, faults>>

(* update_miner_rank: a miner without a row has none to update.            *)
UpdateMinerRank ==
    /\ pc = "rank"
    /\ \E u \in todo :
          /\ Current(u)
          /\ LET k == info[u].key
             IN rows' = IF k \in Served /\ rows[k] # NoRow
                        THEN [rows EXCEPT ![k].ranked = TRUE] ELSE rows
          /\ todo' = todo \ {u}
    /\ UNCHANGED <<chainVars, pc, modules, info, stage, scores, weights, file, faults>>

StartChallenges ==
    /\ pc = "rank" /\ todo = {}
    /\ stage' = [u \in DOMAIN info |-> [at |-> "discovery"]]
    /\ pc' = "gather"
    /\ UNCHANGED <<chainVars, modules, info, todo, scores, weights, rows, file, faults>>

-----------------------------------------------------------------------------
(* The challenge tasks, one per uid, under asyncio.gather. A module only   *)
(* answers calls made for its own key.                                     *)

Reaches(u) == info[u].key = info[u].served /\ info[u].key \in Served

TaskMoves(u, s) ==
    /\ pc = "gather"
    /\ stage' = [stage EXCEPT ![u] = s]
    /\ UNCHANGED <<chainVars, pc, modules, info, todo, scores, weights, rows, file, faults>>

Discovered(u) ==
    /\ stage[u].at = "discovery" /\ Reaches(u)
    /\ TaskMoves(u, [at |-> "ff"])

AnsweredFundsFlow(u) ==
    /\ stage[u].at = "ff"
    /\ \E ff \in BOOLEAN : TaskMoves(u, [at |-> "bt", ff |-> ff])

AnsweredBalance(u) ==
    /\ stage[u].at = "bt"
    /\ \E bt \in BOOLEAN : TaskMoves(u, [at |-> "done", ff |-> stage[u].ff, bt |-> bt])

Waiting(u) == stage[u].at \in {"discovery", "ff", "bt"}

(* A bug: the last request has no timeout.                                 *)
TaskFailsEarly(u) ==
    /\ stage[u].at \in {"discovery", "ff"}
    /\ TaskMoves(u, [at |-> "none"])

(* No answer within CHALLENGE_TIMEOUT, a network without node, no stored   *)
(* challenge, an answer that does not parse: the task returns None.        *)
TaskFails(u) ==
    /\ Waiting(u)
    /\ TaskMoves(u, [at |-> "none"])

Gathered ==
    /\ pc = "gather"
    /\ \A u \in DOMAIN info : ~Waiting(u)
    /\ pc' = "score"
    /\ todo' = DOMAIN info
    /\ scores' = Nothing
    /\ UNCHANGED <<chainVars, modules, info, stage, weights, rows, file, faults>>

-----------------------------------------------------------------------------
(* The scoring loop. *)

Response(u) ==
    IF stage[u].at = "done" THEN [ff |-> stage[u].ff, bt |-> stage[u].bt]
    ELSE NoResponse

ScoreNothing ==
    /\ pc = "score"
    /\ \E u \in todo :
          /\ Current(u)
          /\ Response(u) = NoResponse
          /\ scores' = Updated(scores, u, 0)
          /\ todo' = todo \ {u}
    /\ UNCHANGED <<chainVars, pc, modules, info, stage, weights, rows, file, faults>>

ScoreResponse ==
    /\ pc = "score"
    /\ \E u \in todo :
          /\ Current(u)
          /\ Response(u) # NoResponse
          /\ \E m \in Multipliers :
                scores' = Updated(scores, u, score_miner(Response(u), m))
    /\ pc' = "metadata"
    /\ UNCHANGED <<chainVars, modules, info, todo, stage, weights, rows, file, faults>>

(* The upsert sets uid and leaves rank and counters of an existing row.    *)
store_miner_metadata ==
    /\ pc = "metadata"
    /\ \E u \in todo :
          /\ Current(u)
          /\ rows' = [rows EXCEPT ![info[u].key] =
                IF @ = NoRow THEN [uid |-> u, ranked |-> FALSE, failed |-> 0, total |-> 0]
                ELSE [@ EXCEPT !.uid = u]]
    /\ pc' = "count"
    /\ UNCHANGED <<chainVars, localVars, file, faults>>

Counted(k, failed_inc, total_inc) ==
    [rows EXCEPT ![k].failed = AtMost(MaxTotal, @ + failed_inc),
                 ![k].total = AtMost(MaxTotal, @ + total_inc)]

(* A bug: one challenge counted where two were put.                        *)
CountOne ==
    /\ pc = "count"
    /\ \E u \in todo :
          /\ Current(u)
          /\ rows' = Counted(info[u].key, get_failed_challenges(Response(u)), 1)
          /\ todo' = todo \ {u}
    /\ pc' = "score"
    /\ UNCHANGED <<chainVars, modules, info, stage, scores, weights, file, faults>>

update_miner_challenges ==
    /\ pc = "count"
    /\ \E u \in todo :
          /\ Current(u)
          /\ rows' = Counted(info[u].key, get_failed_challenges(Response(u)), 2)
          /\ todo' = todo \ {u}
    /\ pc' = "score"
    /\ UNCHANGED <<chainVars, modules, info, stage, scores, weights, file, faults>>

(* Without a score there is nothing to vote.                               *)
Scored ==
    /\ pc = "score" /\ todo = {}
    /\ pc' = IF scores = Nothing THEN "sleep" ELSE "setup"
    /\ UNCHANGED <<chainVars, localVars, rows, file, faults>>

-----------------------------------------------------------------------------
(* set_weights. Opening the file for writing empties it.                   *)

(* A bug: the file is created empty.                                       *)
SetupTouches ==
    /\ pc = "setup"
    /\ pc' = "read"
    /\ file' = IF file = Absent THEN Corrupt ELSE file
    /\ UNCHANGED <<chainVars, localVars, rows, faults>>

Setup ==
    /\ pc = "setup"
    /\ IF file = Absent THEN pc' = "create" /\ file' = Corrupt
       ELSE pc' = "read" /\ UNCHANGED file
    /\ UNCHANGED <<chainVars, localVars, rows, faults>>

Create ==
    /\ pc = "create"
    /\ file' = Readable(Nothing)
    /\ pc' = "read"
    /\ UNCHANGED <<chainVars, localVars, rows, faults>>

(* What was read, overwritten with this epoch's weights.                   *)
Overwritten(old, new) ==
    [u \in DOMAIN old \cup DOMAIN new |-> IF u \in DOMAIN new THEN new[u] ELSE old[u]]

(* A bug: the entries of other uids stay.                                  *)
MergedUnfiltered(old, new) == Overwritten(old, new)

Merged(old, new) == [u \in DOMAIN new |-> Overwritten(old, new)[u]]

ReadFile ==
    /\ pc = "read" /\ file # Corrupt
    /\ weights' = Merged(file.dict, NewWeights(scores, MaxAllowed))
    /\ pc' = "store"
    /\ UNCHANGED <<chainVars, modules, info, todo, stage, scores, rows, file, faults>>

(* pickle.load raises; validate_step catches it and the epoch is over.     *)
ReadFails ==
    /\ pc = "read" /\ file = Corrupt
    /\ pc' = "sleep"
    /\ UNCHANGED <<chainVars, localVars, rows, file, faults>>

OpenFile ==
    /\ pc = "store"
    /\ file' = Corrupt
    /\ pc' = "dump"
    /\ UNCHANGED <<chainVars, localVars, rows, faults>>

DumpWeights ==
    /\ pc = "dump"
    /\ file' = Readable(weights)
    /\ pc' = IF weights = Nothing THEN "sleep" ELSE "vote"
    /\ UNCHANGED <<chainVars, localVars, rows, faults>>

(* A bug: a vote the chain refuses is made again.                          *)
VoteAgain ==
    /\ pc = "vote"
    /\ pc' \in {"sleep", "setup"}
    /\ UNCHANGED <<chainVars, localVars, rows, file, faults>>

(* The chain takes the vote or refuses it: the loop goes on either way.    *)
Vote ==
    /\ pc = "vote"
    /\ pc' = "sleep"
    /\ UNCHANGED <<chainVars, localVars, rows, file, faults>>

Forget ==
    /\ modules' = Nothing /\ info' = Nothing /\ todo' = {} /\ stage' = Nothing
    /\ scores' = Nothing /\ weights' = Nothing

Wake ==
    /\ pc = "sleep"
    /\ Forget
    /\ pc' = "modules"
    /\ UNCHANGED <<chainVars, rows, file, faults>>

-----------------------------------------------------------------------------
(* Faults. *)

(* The chain or the database fails outside set_weights: nothing catches    *)
(* it, validation_loop is over while the process lives on.                 *)
Raise ==
    /\ pc \in {"modules", "addresses", "rank", "score", "metadata", "count"}
    /\ faults < MaxFaults
    /\ faults' = faults + 1
    /\ Forget
    /\ pc' = "dead"
    /\ UNCHANGED <<chainVars, rows, file>>

(* The disk fails: validate_step catches what set_weights raises.          *)
SetWeightsRaises ==
    /\ pc \in {"setup", "create", "read", "store", "dump"}
    /\ faults < MaxFaults
    /\ faults' = faults + 1
    /\ pc' = "sleep"
    /\ UNCHANGED <<chainVars, localVars, rows, file>>

Crash ==
    /\ pc # "down"
    /\ faults < MaxFaults
    /\ faults' = faults + 1
    /\ Forget
    /\ pc' = "down"
    /\ UNCHANGED <<chainVars, rows, file>>

(* pm2 starts a process that ended; only an operator replaces one that     *)
(* lives without validating.                                               *)
Started ==
    /\ Forget
    /\ pc' = "modules"
    /\ UNCHANGED <<chainVars, rows, file, faults>>

Restart == pc = "down" /\ Started

OperatorRestart == pc = "dead" /\ Started

MainThread ==
    \/ GetMapModules \/ GetAddresses \/ NotRegistered
    \/ UpdateMinerRank \/ StartChallenges \/ Gathered
    \/ ScoreNothing \/ ScoreResponse \/ store_miner_metadata
    \/ update_miner_challenges \/ Scored
    \/ Setup \/ Create \/ ReadFile \/ ReadFails \/ OpenFile \/ DumpWeights
    \/ Vote \/ Wake

Answered(u) == Discovered(u) \/ AnsweredFundsFlow(u) \/ AnsweredBalance(u)

Next ==
    \/ MainThread
    \/ \E u \in DOMAIN stage : Answered(u) \/ TaskFails(u)
    \/ \E u \in Uids, k \in Keys : Register(u, k)
    \/ Raise \/ SetWeightsRaises \/ Crash \/ Restart \/ OperatorRestart

Spec == Init /\ [][Next]_vars

(* The main thread runs, a request times out, a crashed process is started *)
(* again. No miner has to answer and no operator has to come.              *)
Fairness ==
    /\ WF_vars(MainThread)
    /\ \A u \in Uids : WF_vars(u \in DOMAIN stage /\ TaskFails(u))
    /\ WF_vars(Restart)

FairSpec == Spec /\ Fairness

-----------------------------------------------------------------------------
Row == [uid : Uids, ranked : BOOLEAN, failed : 0..MaxTotal, total : 0..MaxTotal]

Stage == [at : {"discovery", "ff", "none"}]
         \cup [at : {"bt"}, ff : BOOLEAN]
         \cup [at : {"done"}, ff : BOOLEAN, bt : BOOLEAN]

IsWeights(w) == DOMAIN w \subseteq Uids /\ \A u \in DOMAIN w : w[u] \in 0..1000

(* Every variable has its type.                                            *)
TypeOK ==
    /\ owner \in [Uids -> Keys] /\ churn \in 0..MaxChurn
    /\ modules = Nothing \/ modules \in [Uids -> Keys]
    /\ DOMAIN info \subseteq Uids
    /\ \A u \in DOMAIN info : info[u] \in [key : Keys, served : Keys]
    /\ todo \subseteq DOMAIN info
    /\ DOMAIN stage \subseteq DOMAIN info
    /\ \A u \in DOMAIN stage : stage[u] \in Stage
    /\ DOMAIN scores \subseteq DOMAIN info
    /\ \A u \in DOMAIN scores : scores[u] \in 0..One
    /\ IsWeights(weights)
    /\ \A k \in Served : rows[k] = NoRow \/ rows[k] \in Row
    /\ file.state = "dict" => IsWeights(file.dict)
    /\ faults \in 0..MaxFaults

(* A vote pays for this epoch's work only: whoever is voted a weight was   *)
(* asked in this epoch, under the key that held its uid and at the address *)
(* of that key, and passed a challenge. Neither what the file still holds  *)
(* from an earlier epoch nor a uid that changed hands between the two      *)
(* queries is paid.                                                        *)
VoteIsEarned ==
    \A u \in DOMAIN weights : weights[u] > 0 =>
        /\ u \in DOMAIN info /\ Reaches(u)
        /\ stage[u].at = "done" /\ (stage[u].ff \/ stage[u].bt)

(* The counters of a row, which two transactions keep: no miner failed     *)
(* more challenges than it was put, and a row without any (the cross-check *)
(* query divides by them) is left behind by a fault only.                  *)
CountersAgree ==
    \A k \in Served : rows[k] # NoRow =>
        /\ rows[k].failed <= rows[k].total
        /\ \/ rows[k].total > 0
           \/ faults > 0
           \/ pc = "count" /\ \E u \in todo : Current(u) /\ info[u].key = k

(* Short of a fault the weights file can be read whenever it is: it is     *)
(* never left as opening it for writing leaves it.                         *)
FileReadable == pc = "read" /\ faults = 0 => file # Corrupt

(* An epoch votes at most once, for no more uids than allowed and a        *)
(* thousand in all, of which only those that passed in it get any, and     *)
(* neither a restart nor the next round of the loop finds anything of an   *)
(* earlier one: ValidatorEpoch implements EpochVotes. Weights are a ballot *)
(* only while they are voted.                                              *)
Passed == {u \in DOMAIN stage : stage[u].at = "done" /\ (stage[u].ff \/ stage[u].bt)}

Phase ==
    CASE pc \in {"modules", "addresses", "rank", "gather"} -> "asking"
      [] pc = "vote" -> "voting"
      [] pc \in {"sleep", "down", "dead"} -> "over"
      [] OTHER -> "closed"

Votes == INSTANCE EpochVotes WITH
    Seats <- MaxAllowed, Budget <- 1000, phase <- Phase, passed <- Passed,
    ballot <- IF pc = "vote" THEN weights ELSE Nothing

EpochsVote == Votes!Spec

(* However many miners keep silent, epochs go on: in the end the validator *)
(* scores the subnet again and again, unless its loop died of an exception *)
(* and nobody restarts it, or its key lost its registration.               *)
ScoringGoesOn ==
    \/ []<>(pc = "score")
    \/ <>[](pc = "dead")
    \/ <>[](\A u \in Uids : owner[u] # Self)

(* Once faults are over, validators keep voting, as README.md:107 promises *)
(* of scores that adjust dynamically.                                      *)
VotesGoOn == []<>(pc = "vote") \/ <>[](pc = "dead")
=============================================================================
