------------------------ MODULE ValidatorEpochProofs ------------------------
(***************************************************************************)
(* No vote pays for anything but the answers of its own epoch, the epochs  *)
(* keep the promise of EpochVotes, and none of them is endless or waits    *)
(* for what is not there, for every set of uids and keys, every limit on   *)
(* the weights and any number of faults and registrations.                 *)
(***************************************************************************)
EXTENDS ValidatorEpoch, SumLemmas

Earned(u) ==
    /\ u \in DOMAIN info /\ Reaches(u)
    /\ stage[u].at = "done" /\ (stage[u].ff \/ stage[u].bt)

(* A task past its discovery talks to the miner whose key it carries.      *)
StageInv ==
    /\ DOMAIN stage \subseteq DOMAIN info
    /\ \A u \in DOMAIN stage :
          /\ stage[u] \in Stage
          /\ stage[u].at \in {"ff", "bt", "done"} => Reaches(u)

ScoresInv ==
    /\ DOMAIN scores \subseteq DOMAIN stage
    /\ \A u \in DOMAIN scores : scores[u] # 0 => Earned(u)

WeightsInv == \A u \in DOMAIN weights : weights[u] > 0 => Earned(u)

(* What an epoch leaves behind is gone before the next one asks the chain. *)
FreshInv ==
    /\ pc \in {"modules", "addresses", "rank"} =>
          stage = Nothing /\ scores = Nothing /\ weights = Nothing
    /\ pc = "gather" => scores = Nothing /\ weights = Nothing
    /\ pc \in {"score", "metadata", "count"} => todo \subseteq DOMAIN stage
    /\ pc = "gather" => DOMAIN stage = DOMAIN info

IInv == StageInv /\ ScoresInv /\ WeightsInv /\ FreshInv

-----------------------------------------------------------------------------
(* A weight comes from a score.                                            *)
LEMMA WeightsFromScores ==
    ASSUME NEW old, NEW s,
           NEW u \in DOMAIN Merged(old, NewWeights(s, MaxAllowed)),
           Merged(old, NewWeights(s, MaxAllowed))[u] > 0
    PROVE  u \in DOMAIN s /\ s[u] # 0
  <1> DEFINE new == NewWeights(s, MaxAllowed)
  <1>1. u \in DOMAIN new /\ Merged(old, new)[u] = new[u]
    BY DEF Merged, Overwritten
  <1>2. u \in Kept(s, MaxAllowed) /\ u \in DOMAIN s
    BY <1>1 DEF NewWeights, cut_to_max_allowed_weights, Kept
  <1>3. new[u] = IntWeight(s[u], SumFunction(cut_to_max_allowed_weights(s, MaxAllowed)))
    BY <1>2 DEF NewWeights, cut_to_max_allowed_weights
  <1>4. s[u] # 0
    BY <1>1, <1>3 DEF IntWeight
  <1> QED
    BY <1>2, <1>4

(* A score comes from a challenge that was passed.                         *)
LEMMA ScoresFromAnswers ==
    ASSUME NEW u, stage[u] \in Stage, NEW m,
           Response(u) # NoResponse, score_miner(Response(u), m) # 0
    PROVE  stage[u].at = "done" /\ (stage[u].ff \/ stage[u].bt)
  <1>1. stage[u].at = "done" /\ stage[u].ff \in BOOLEAN /\ stage[u].bt \in BOOLEAN
    BY DEF Response, Stage
  <1>2. Response(u) = [ff |-> stage[u].ff, bt |-> stage[u].bt]
    BY <1>1 DEF Response
  <1>3. get_failed_challenges(Response(u)) # 2
    BY DEF score_miner, ScoreOf
  <1> QED
    BY <1>1, <1>2, <1>3 DEF get_failed_challenges

LEMMA EmptyMaps == DOMAIN Nothing = {}
  BY DEF Nothing

-----------------------------------------------------------------------------
LEMMA InitInv == Init => IInv
  BY EmptyMaps DEF Init, IInv, StageInv, ScoresInv, WeightsInv, FreshInv

(* An epoch that is over, in whatever way.                                 *)
LEMMA ForgetInv ==
    ASSUME Forget, pc' \in {"modules", "down", "dead"}
    PROVE  IInv'
  BY EmptyMaps DEF Forget, IInv, StageInv, ScoresInv, WeightsInv, FreshInv

(* A step that touches none of what the invariant is about.                *)
LEMMA KeepInv ==
    ASSUME IInv, UNCHANGED <<info, stage, scores, weights>>, FreshInv'
    PROVE  IInv'
  BY DEF IInv, StageInv, ScoresInv, WeightsInv, Earned, Reaches

LEMMA MainThreadInv == ASSUME IInv, MainThread PROVE IInv'
  <1> USE DEF localVars, chainVars
  <1>1. CASE GetMapModules
    BY <1>1, KeepInv DEF GetMapModules, IInv, FreshInv
  <1>2. CASE GetAddresses
    <2>1. /\ stage' = stage /\ scores' = scores /\ weights' = weights
          /\ stage = Nothing /\ scores = Nothing /\ weights = Nothing /\ pc' = "rank"
      BY <1>2 DEF GetAddresses, IInv, FreshInv
    <2> QED
      BY <2>1, EmptyMaps DEF IInv, StageInv, ScoresInv, WeightsInv, FreshInv
  <1>3. CASE NotRegistered
    BY <1>3, KeepInv DEF NotRegistered, FreshInv
  <1>4. CASE UpdateMinerRank
    BY <1>4, KeepInv DEF UpdateMinerRank, IInv, FreshInv
  <1>5. CASE StartChallenges
    <2>1. /\ info' = info /\ scores' = Nothing /\ weights' = Nothing /\ pc' = "gather"
          /\ stage' = [u \in DOMAIN info |-> [at |-> "discovery"]]
      BY <1>5 DEF StartChallenges, IInv, FreshInv
    <2> QED
      BY <2>1, EmptyMaps DEF IInv, StageInv, ScoresInv, WeightsInv, FreshInv, Stage
  <1>6. CASE Gathered
    BY <1>6, KeepInv DEF Gathered, IInv, FreshInv
  <1>7. CASE ScoreNothing
    <2>1. PICK u \in todo : scores' = Updated(scores, u, 0) /\ todo' = todo \ {u}
      BY <1>7 DEF ScoreNothing
    <2>2. /\ UNCHANGED <<info, stage, weights>> /\ pc = "score" /\ pc' = "score"
          /\ u \in DOMAIN stage
      BY <1>7 DEF ScoreNothing, IInv, FreshInv
    <2>3. ScoresInv'
      BY <2>1, <2>2 DEF IInv, ScoresInv, Updated, Earned, Reaches
    <2> QED
      BY <2>1, <2>2, <2>3 DEF IInv, StageInv, WeightsInv, FreshInv, Earned, Reaches
  <1>8. CASE ScoreResponse
    <2>1. PICK u \in todo, m \in Multipliers :
             /\ Response(u) # NoResponse
             /\ scores' = Updated(scores, u, score_miner(Response(u), m))
      BY <1>8 DEF ScoreResponse
    <2>2. /\ UNCHANGED <<info, stage, weights, todo>> /\ pc = "score" /\ pc' = "metadata"
          /\ u \in DOMAIN stage /\ stage[u] \in Stage
      BY <1>8 DEF ScoreResponse, IInv, FreshInv, StageInv
    <2>3. score_miner(Response(u), m) # 0 => Earned(u)
      BY <2>1, <2>2, ScoresFromAnswers DEF IInv, StageInv, Earned
    <2>4. ScoresInv'
      BY <2>1, <2>2, <2>3 DEF IInv, ScoresInv, Updated, Earned, Reaches
    <2> QED
      BY <2>2, <2>4 DEF IInv, StageInv, WeightsInv, FreshInv, Earned, Reaches
  <1>9. CASE store_miner_metadata
    BY <1>9, KeepInv DEF store_miner_metadata, IInv, FreshInv
  <1>10. CASE update_miner_challenges
    BY <1>10, KeepInv DEF update_miner_challenges, IInv, FreshInv
  <1>11. CASE ReadFile
    <2>1. /\ weights' = Merged(file.dict, NewWeights(scores, MaxAllowed))
          /\ UNCHANGED <<info, stage, scores, todo>> /\ pc' = "store"
      BY <1>11 DEF ReadFile
    <2>2. WeightsInv'
      <3> SUFFICES ASSUME NEW u \in DOMAIN weights', weights'[u] > 0
                   PROVE  Earned(u)'
        BY DEF WeightsInv
      <3>1. u \in DOMAIN scores /\ scores[u] # 0
        BY <2>1, WeightsFromScores
      <3> QED
        BY <2>1, <3>1 DEF IInv, ScoresInv, Earned, Reaches
    <2> QED
      BY <2>1, <2>2 DEF IInv, StageInv, ScoresInv, FreshInv, Earned, Reaches
  <1>12. CASE Wake
    BY <1>12, ForgetInv DEF Wake
  <1>13. CASE Scored \/ Setup \/ Create \/ ReadFails \/ OpenFile \/ DumpWeights \/ Vote
    <2>1. /\ UNCHANGED <<info, stage, scores, weights>>
          /\ pc' \in {"sleep", "setup", "create", "read", "dump", "vote"}
      BY <1>13 DEF Scored, Setup, Create, ReadFails, OpenFile, DumpWeights, Vote
    <2> QED
      BY <2>1, KeepInv DEF FreshInv
  <1> QED
    BY <1>1, <1>2, <1>3, <1>4, <1>5, <1>6, <1>7, <1>8, <1>9, <1>10, <1>11, <1>12, <1>13
    DEF MainThread

LEMMA TasksInv ==
    ASSUME IInv, NEW u \in DOMAIN stage, Answered(u) \/ TaskFails(u)
    PROVE  IInv'
  <1>1. PICK s : /\ s \in Stage
                 /\ s.at \in {"ff", "bt", "done"} => Reaches(u)
                 /\ TaskMoves(u, s)
    <2>1. stage[u] \in Stage /\ (stage[u].at \in {"ff", "bt", "done"} => Reaches(u))
      BY DEF IInv, StageInv
    <2>2. CASE Discovered(u)
      BY <2>2 DEF Discovered, Stage
    <2>3. CASE AnsweredFundsFlow(u)
      BY <2>1, <2>3 DEF AnsweredFundsFlow, Stage
    <2>4. CASE AnsweredBalance(u)
      <3>1. stage[u].ff \in BOOLEAN
        BY <2>1, <2>4 DEF AnsweredBalance, Stage
      <3> QED
        BY <2>1, <2>4, <3>1 DEF AnsweredBalance, Stage
    <2>5. CASE TaskFails(u)
      BY <2>5 DEF TaskFails, Stage
    <2> QED
      BY <2>2, <2>3, <2>4, <2>5 DEF Answered
  <1>2. /\ pc = "gather" /\ pc' = "gather" /\ stage' = [stage EXCEPT ![u] = s]
        /\ UNCHANGED <<info, todo, scores, weights>>
    BY <1>1 DEF TaskMoves
  <1>3. scores = Nothing /\ weights = Nothing
    BY <1>2 DEF IInv, FreshInv
  <1>4. StageInv'
    BY <1>1, <1>2 DEF IInv, StageInv, Reaches
  <1>5. FreshInv'
    BY <1>2, <1>3 DEF IInv, FreshInv
  <1> QED
    BY <1>2, <1>3, <1>4, <1>5, EmptyMaps DEF IInv, ScoresInv, WeightsInv

LEMMA NextInv == IInv /\ [Next]_vars => IInv'
  <1> SUFFICES ASSUME IInv, [Next]_vars PROVE IInv'
    OBVIOUS
  <1>1. CASE MainThread
    BY <1>1, MainThreadInv
  <1>2. CASE \E u \in DOMAIN stage : Answered(u) \/ TaskFails(u)
    BY <1>2, TasksInv
  <1>3. CASE \E u \in Uids, k \in Keys : Register(u, k)
    BY <1>3, KeepInv DEF Register, localVars, IInv, FreshInv
  <1>4. CASE Raise \/ Crash \/ Restart \/ OperatorRestart
    BY <1>4, ForgetInv DEF Raise, Crash, Restart, OperatorRestart, Started
  <1>5. CASE SetWeightsRaises
    BY <1>5, KeepInv DEF SetWeightsRaises, localVars, FreshInv
  <1>6. CASE UNCHANGED vars
    BY <1>6, KeepInv DEF vars, localVars, IInv, FreshInv
  <1> QED
    BY <1>1, <1>2, <1>3, <1>4, <1>5, <1>6 DEF Next

-----------------------------------------------------------------------------
(* Whatever the weights file held, however uids changed hands and wherever *)
(* the process died, a weight is voted only for a uid whose miner passed a *)
(* challenge in this epoch.                                                *)
THEOREM VotesAreEarned == Spec => []VoteIsEarned
  <1>1. IInv => VoteIsEarned
    BY DEF IInv, WeightsInv, VoteIsEarned, Earned
  <1> QED
    BY <1>1, InitInv, NextInv, PTL DEF Spec

-----------------------------------------------------------------------------
(* The weights file is as opening it for writing leaves it only while it   *)
(* is written, or after a fault.                                           *)

FileInv == file = Corrupt => pc \in {"create", "dump"} \/ faults > 0

FaultsInv == faults \in Nat

(* However often the loop went round and the process was started again, an *)
(* epoch without a fault finds a file it can read.                         *)
THEOREM FileStaysReadable == Spec => []FileReadable
  <1> USE DEF localVars, chainVars
  <1>1. Init => FileInv /\ FaultsInv
    BY DEF Init, FileInv, FaultsInv, Absent, Corrupt
  <1>2. ASSUME FileInv, FaultsInv, [Next]_vars PROVE (FileInv /\ FaultsInv)'
    <2> USE <1>2 DEF FileInv, FaultsInv
    <2>1. CASE Setup
      BY <2>1 DEF Setup
    <2>2. CASE Create
      BY <2>2 DEF Create, Readable, Corrupt
    <2>3. CASE OpenFile
      BY <2>3 DEF OpenFile
    <2>4. CASE DumpWeights
      BY <2>4 DEF DumpWeights, Readable, Corrupt
    <2>5. CASE Raise \/ SetWeightsRaises \/ Crash
      BY <2>5 DEF Raise, SetWeightsRaises, Crash
    <2>6. CASE Restart \/ OperatorRestart \/ UNCHANGED vars
      BY <2>6 DEF Restart, OperatorRestart, Started, vars
    <2>7. CASE \E u \in Uids, k \in Keys : Register(u, k)
      BY <2>7 DEF Register
    <2>8. CASE \E u \in DOMAIN stage : Answered(u) \/ TaskFails(u)
      BY <2>8 DEF Answered, Discovered, AnsweredFundsFlow, AnsweredBalance, TaskFails, TaskMoves
    <2>9. CASE \/ GetMapModules \/ GetAddresses \/ NotRegistered
               \/ UpdateMinerRank \/ StartChallenges \/ Gathered
               \/ ScoreNothing \/ ScoreResponse \/ store_miner_metadata
               \/ update_miner_challenges \/ Scored
      BY <2>9 DEF GetMapModules, GetAddresses, NotRegistered, UpdateMinerRank, StartChallenges,
                  Gathered, ScoreNothing, ScoreResponse, store_miner_metadata,
                  update_miner_challenges, Scored
    <2>10. CASE ReadFile \/ ReadFails \/ Vote \/ Wake
      BY <2>10 DEF ReadFile, ReadFails, Vote, Wake
    <2> QED
      BY <1>2, <2>1, <2>2, <2>3, <2>4, <2>5, <2>6, <2>7, <2>8, <2>9, <2>10 DEF Next, MainThread
  <1>3. FileInv /\ FaultsInv => FileReadable
    BY DEF FileInv, FaultsInv, FileReadable
  <1> QED
    BY <1>1, <1>2, <1>3, PTL DEF Spec

-----------------------------------------------------------------------------
(* The counters of a row: it is stored with none and counted in the next   *)
(* transaction, for the uid the loop has reached.                          *)

CountRow == [uid : Uids, ranked : BOOLEAN, failed : Nat, total : Nat]

UnderWay(k) == pc = "count" /\ \E u \in todo : Current(u) /\ info[u].key = k

CountInv ==
    /\ rows \in [Served -> CountRow \cup {NoRow}]
    /\ \A k \in Served : rows[k] # NoRow =>
          /\ rows[k].failed <= rows[k].total
          /\ rows[k].total > 0 \/ faults > 0 \/ UnderWay(k)
    /\ pc = "count" => \A u \in todo :
          Current(u) /\ info[u].key \in Served => rows[info[u].key] # NoRow
    /\ DOMAIN info \subseteq Uids /\ todo \subseteq DOMAIN info
    /\ faults \in Nat

(* A step that leaves the rows as they are.                                *)
LEMMA KeepCounters ==
    ASSUME CountInv, rows' = rows,
           \/ UNCHANGED <<pc, todo, info>>
           \/ pc' # "count" /\ (pc # "count" \/ faults' > 0),
           faults' \in Nat, faults' >= faults,
           DOMAIN info' \subseteq Uids, todo' \subseteq DOMAIN info'
    PROVE  CountInv'
  BY DEF CountInv, UnderWay, Current

LEMMA NoRowIsNone == NoRow \notin CountRow
  <1>1. "failed" \notin DOMAIN NoRow
    BY DEF NoRow
  <1>2. \A r \in CountRow : "failed" \in DOMAIN r
    BY DEF CountRow
  <1> QED
    BY <1>1, <1>2

(* The loop takes one uid at a time.                                       *)
LEMMA OneCurrent ==
    ASSUME CountInv, NEW u \in todo, NEW v \in todo, Current(u), Current(v)
    PROVE  u = v
  <1>1. u \in Nat /\ v \in Nat
    BY EpochAssumption DEF CountInv
  <1>2. u <= v /\ v <= u
    BY DEF Current
  <1> QED
    BY <1>1, <1>2

LEMMA RankCounters == ASSUME CountInv, UpdateMinerRank PROVE CountInv'
  <1>1. PICK u \in todo :
           rows' = IF info[u].key \in Served /\ rows[info[u].key] # NoRow
                   THEN [rows EXCEPT ![info[u].key].ranked = TRUE] ELSE rows
    BY DEF UpdateMinerRank
  <1>2. /\ pc = "rank" /\ pc' = "rank" /\ UNCHANGED <<info, faults>> /\ todo' \subseteq todo
    BY DEF UpdateMinerRank
  <1>3. CASE rows' = rows
    BY <1>2, <1>3, KeepCounters DEF CountInv
  <1>4. CASE rows' # rows
    <2>1. /\ info[u].key \in Served /\ rows[info[u].key] \in CountRow
          /\ rows' = [rows EXCEPT ![info[u].key].ranked = TRUE]
      BY <1>1, <1>4 DEF CountInv
    <2>2. rows' \in [Served -> CountRow \cup {NoRow}]
      BY <2>1 DEF CountInv, CountRow
    <2>3. \A k \in Served : rows'[k] # NoRow =>
             rows[k] # NoRow /\ rows'[k].failed = rows[k].failed /\ rows'[k].total = rows[k].total
      <3> SUFFICES ASSUME NEW k \in Served, rows'[k] # NoRow
                   PROVE  /\ rows[k] # NoRow /\ rows'[k].failed = rows[k].failed
                          /\ rows'[k].total = rows[k].total
        OBVIOUS
      <3>1. CASE k = info[u].key
        <4>1. rows'[k] = [rows[k] EXCEPT !.ranked = TRUE] /\ rows[k] \in CountRow
          BY <2>1, <3>1 DEF CountInv
        <4> QED
          BY <4>1, NoRowIsNone DEF CountRow
      <3>2. CASE k # info[u].key
        BY <2>1, <3>2 DEF CountInv
      <3> QED
        BY <3>1, <3>2
    <2> QED
      BY <1>2, <2>2, <2>3 DEF CountInv, UnderWay
  <1> QED
    BY <1>3, <1>4

LEMMA StoreCounters == ASSUME CountInv, store_miner_metadata PROVE CountInv'
  <1>1. PICK u \in todo :
          /\ Current(u)
          /\ rows' = [rows EXCEPT ![info[u].key] =
                IF @ = NoRow THEN [uid |-> u, ranked |-> FALSE, failed |-> 0, total |-> 0]
                ELSE [@ EXCEPT !.uid = u]]
    BY DEF store_miner_metadata
  <1>2. pc' = "count" /\ pc = "metadata" /\ UNCHANGED <<info, todo, faults>> /\ u \in Uids
    BY DEF store_miner_metadata, localVars, CountInv
  <1>3. UnderWay(info[u].key)'
    BY <1>1, <1>2 DEF UnderWay, Current
  <1>4. rows' \in [Served -> CountRow \cup {NoRow}]
    BY <1>1, <1>2 DEF CountInv, CountRow
  <1>5. ASSUME NEW k \in Served, rows'[k] # NoRow
        PROVE  /\ rows'[k].failed <= rows'[k].total
               /\ rows'[k].total > 0 \/ faults' > 0 \/ UnderWay(k)'
    <2>1. CASE k = info[u].key
      <3>1. UnderWay(k)'
        BY <1>2, <1>3, <2>1 DEF UnderWay, Current
      <3>2. CASE rows[k] = NoRow
        <4>1. rows'[k] = [uid |-> u, ranked |-> FALSE, failed |-> 0, total |-> 0]
          BY <1>1, <2>1, <3>2 DEF CountInv
        <4> QED
          BY <3>1, <4>1
      <3>3. CASE rows[k] # NoRow
        <4>1. rows[k] \in CountRow /\ rows[k].failed <= rows[k].total
          BY <3>3 DEF CountInv
        <4>2. rows'[k] = [rows[k] EXCEPT !.uid = u]
          BY <1>1, <2>1, <3>3 DEF CountInv
        <4> QED
          BY <3>1, <4>1, <4>2 DEF CountRow
      <3> QED
        BY <3>2, <3>3
    <2>2. CASE k # info[u].key
      BY <1>1, <1>2, <1>5, <2>2 DEF CountInv, UnderWay
    <2> QED
      BY <2>1, <2>2
  <1>6. ASSUME NEW v \in todo, Current(v), info[v].key \in Served
        PROVE  rows'[info[v].key] # NoRow
    <2>1. v = u
      BY <1>1, <1>6, OneCurrent
    <2>2. CASE rows[info[u].key] = NoRow
      <3>1. rows'[info[u].key] = [uid |-> u, ranked |-> FALSE, failed |-> 0, total |-> 0]
        BY <1>1, <1>6, <2>1, <2>2 DEF CountInv
      <3>2. rows'[info[u].key] \in CountRow
        BY <1>2, <3>1 DEF CountRow
      <3> QED
        BY <2>1, <3>2, NoRowIsNone
    <2>3. CASE rows[info[u].key] # NoRow
      <3>1. /\ rows'[info[u].key] = [rows[info[u].key] EXCEPT !.uid = u]
            /\ rows[info[u].key] \in CountRow
        BY <1>1, <1>6, <2>1, <2>3 DEF CountInv
      <3>2. rows'[info[u].key] \in CountRow
        BY <1>2, <3>1 DEF CountRow
      <3> QED
        BY <2>1, <3>2, NoRowIsNone
    <2> QED
      BY <2>2, <2>3
  <1> QED
    BY <1>2, <1>4, <1>5, <1>6 DEF CountInv, Current

LEMMA ChallengeCounters ==
    ASSUME CountInv, update_miner_challenges PROVE CountInv'
  <1> USE EpochAssumption
  <1>1. PICK u \in todo :
          /\ Current(u)
          /\ rows' = Counted(info[u].key, get_failed_challenges(Response(u)), 2)
          /\ todo' = todo \ {u}
    BY DEF update_miner_challenges
  <1>2. pc = "count" /\ pc' = "score" /\ UNCHANGED <<info, faults>> /\ u \in Uids
    BY DEF update_miner_challenges, CountInv
  <1> DEFINE f == get_failed_challenges(Response(u))
  <1>3. f \in 0..2
    BY DEF get_failed_challenges
  <1> HIDE DEF f
  <1>4. rows' = [rows EXCEPT ![info[u].key].failed = AtMost(MaxTotal, @ + f),
                             ![info[u].key].total = AtMost(MaxTotal, @ + 2)]
    BY <1>1 DEF Counted, f
  <1>5. \A v \in todo : Current(v) => v = u
    BY <1>1, OneCurrent
  <1>6. ASSUME NEW k \in Served
        PROVE  /\ rows'[k] \in CountRow \cup {NoRow}
               /\ rows'[k] # NoRow =>
                    /\ rows'[k].failed <= rows'[k].total
                    /\ rows'[k].total > 0 \/ faults' > 0
    <2>1. CASE k # info[u].key
      <3>1. rows'[k] = rows[k] /\ ~UnderWay(k)
        BY <1>4, <1>5, <2>1 DEF CountInv, UnderWay
      <3> QED
        BY <1>2, <3>1 DEF CountInv
    <2>2. k = info[u].key => rows[k] # NoRow
      BY <1>1, <1>2 DEF CountInv
    <2>3. CASE k = info[u].key /\ rows[k] # NoRow
      <3>1. rows[k] \in CountRow /\ rows[k].failed <= rows[k].total
        BY <2>3 DEF CountInv
      <3>2. rows'[k] = [rows[k] EXCEPT !.failed = AtMost(MaxTotal, @ + f),
                                       !.total = AtMost(MaxTotal, @ + 2)]
        BY <1>4, <2>3 DEF CountInv
      <3>3. /\ rows'[k].failed = AtMost(MaxTotal, rows[k].failed + f)
            /\ rows'[k].total = AtMost(MaxTotal, rows[k].total + 2)
            /\ rows'[k].uid = rows[k].uid /\ rows'[k].ranked = rows[k].ranked
            /\ rows'[k] = [uid |-> rows'[k].uid, ranked |-> rows'[k].ranked,
                           failed |-> rows'[k].failed, total |-> rows'[k].total]
        BY <3>1, <3>2 DEF CountRow
      <3>4. rows'[k].failed \in Nat /\ rows'[k].total \in Nat
            /\ rows'[k].failed <= rows'[k].total /\ rows'[k].total > 0
        BY <1>3, <3>1, <3>3 DEF AtMost, CountRow
      <3> QED
        BY <3>1, <3>3, <3>4 DEF CountRow
    <2> QED
      BY <2>1, <2>2, <2>3
  <1>7. rows' \in [Served -> CountRow \cup {NoRow}]
    BY <1>4, <1>6 DEF CountInv
  <1> QED
    BY <1>1, <1>2, <1>6, <1>7 DEF CountInv

(* The rows under the steps of the loop that do not write them.            *)
LEMMA ReadingCounters ==
    ASSUME CountInv,
           \/ GetMapModules \/ GetAddresses \/ NotRegistered \/ StartChallenges
           \/ Gathered \/ ScoreNothing \/ ScoreResponse \/ Scored \/ Setup \/ Create
           \/ ReadFile \/ ReadFails \/ OpenFile \/ DumpWeights \/ Vote \/ Wake
    PROVE  CountInv'
  <1> USE DEF localVars, chainVars
  <1>1. CASE GetAddresses
    <2>1. /\ pc = "addresses" /\ pc' = "rank" /\ UNCHANGED <<rows, faults>>
          /\ DOMAIN info' \subseteq Uids /\ todo' = DOMAIN info'
      BY <1>1 DEF GetAddresses
    <2> QED
      BY <2>1, KeepCounters DEF CountInv
  <1>2. CASE Wake
    <2>1. /\ pc = "sleep" /\ pc' = "modules" /\ UNCHANGED <<rows, faults>>
          /\ info' = Nothing /\ todo' = {}
      BY <1>2 DEF Wake, Forget
    <2> QED
      BY <2>1, KeepCounters, EmptyMaps DEF CountInv
  <1>3. CASE \/ GetMapModules \/ NotRegistered \/ StartChallenges
             \/ Gathered \/ ScoreNothing \/ ScoreResponse \/ Scored
    <2>1. /\ pc # "count" /\ pc' # "count" /\ UNCHANGED <<rows, faults, info>>
          /\ todo' \subseteq DOMAIN info
      BY <1>3 DEF CountInv, GetMapModules, NotRegistered, StartChallenges, Gathered,
                  ScoreNothing, ScoreResponse, Scored
    <2> QED
      BY <2>1, KeepCounters DEF CountInv
  <1>4. CASE \/ Setup \/ Create \/ ReadFile \/ ReadFails \/ OpenFile \/ DumpWeights \/ Vote
    <2>1. pc # "count" /\ pc' # "count" /\ UNCHANGED <<rows, faults, info, todo>>
      BY <1>4 DEF Setup, Create, ReadFile, ReadFails, OpenFile, DumpWeights, Vote
    <2> QED
      BY <2>1, KeepCounters DEF CountInv
  <1> QED
    BY <1>1, <1>2, <1>3, <1>4

LEMMA InitCount == Init => CountInv
  <1> SUFFICES ASSUME Init PROVE CountInv
    OBVIOUS
  <1>1. rows \in [Served -> CountRow \cup {NoRow}] /\ \A k \in Served : rows[k] = NoRow
    BY DEF Init
  <1> QED
    BY <1>1, EmptyMaps DEF Init, CountInv

LEMMA NextCount == ASSUME CountInv, [Next]_vars PROVE CountInv'
  <1> USE DEF localVars, chainVars
  <1>1. CASE MainThread
    BY <1>1, RankCounters, StoreCounters, ChallengeCounters, ReadingCounters DEF MainThread
  <1>2. CASE \E u \in DOMAIN stage : Answered(u) \/ TaskFails(u)
    <2>1. UNCHANGED <<rows, pc, todo, info, faults>>
      BY <1>2 DEF Answered, Discovered, AnsweredFundsFlow, AnsweredBalance, TaskFails, TaskMoves
    <2> QED
      BY <2>1, KeepCounters DEF CountInv
  <1>3. CASE \E u \in Uids, k \in Keys : Register(u, k)
    <2>1. UNCHANGED <<rows, pc, todo, info, faults>>
      BY <1>3 DEF Register
    <2> QED
      BY <2>1, KeepCounters DEF CountInv
  <1>4. CASE Raise \/ Crash
    <2>1. /\ pc' # "count" /\ rows' = rows /\ info' = Nothing /\ todo' = {}
          /\ faults' = faults + 1
      BY <1>4 DEF Raise, Crash, Forget
    <2> QED
      BY <2>1, KeepCounters, EmptyMaps DEF CountInv
  <1>5. CASE SetWeightsRaises
    <2>1. /\ pc # "count" /\ pc' # "count" /\ UNCHANGED <<rows, info, todo>>
          /\ faults' = faults + 1
      BY <1>5 DEF SetWeightsRaises
    <2> QED
      BY <2>1, KeepCounters DEF CountInv
  <1>6. CASE Restart \/ OperatorRestart
    <2>1. /\ pc # "count" /\ pc' # "count" /\ UNCHANGED <<rows, faults>>
          /\ info' = Nothing /\ todo' = {}
      BY <1>6 DEF Restart, OperatorRestart, Started, Forget
    <2> QED
      BY <2>1, KeepCounters, EmptyMaps DEF CountInv
  <1>7. CASE UNCHANGED vars
    BY <1>7, KeepCounters DEF vars, CountInv
  <1> QED
    BY <1>1, <1>2, <1>3, <1>4, <1>5, <1>6, <1>7 DEF Next

(* Two transactions keep the counters of a row, and any number of epochs,  *)
(* restarts and changes of hands later they still agree: no miner failed   *)
(* more challenges than it was put, and only a fault between the two       *)
(* leaves a row that was put none.                                         *)
THEOREM CountersStayTrue == Spec => []CountersAgree
  <1>1. Init => CountInv
    BY InitCount
  <1>2. CountInv /\ [Next]_vars => CountInv'
    BY NextCount
  <1>3. CountInv => CountersAgree
    BY DEF CountInv, CountersAgree, UnderWay
  <1> QED
    BY <1>1, <1>2, <1>3, PTL DEF Spec

-----------------------------------------------------------------------------
(* The types. What the rows hold when the loop of the modules reaches them *)
(* and what the file holds when it is merged are the types another epoch   *)
(* left, maybe of another process.                                         *)

ChainType == owner \in [Uids -> Keys] /\ churn \in 0..MaxChurn

ModulesType ==
    /\ modules = Nothing \/ modules \in [Uids -> Keys]
    /\ pc = "addresses" => modules \in [Uids -> Keys]

InfoType ==
    /\ DOMAIN info \subseteq Uids
    /\ \A u \in DOMAIN info : info[u] \in [key : Keys, served : Keys]
    /\ todo \subseteq DOMAIN info

ScoresType == \A u \in DOMAIN scores : scores[u] \in 0..One

RowsType == rows \in [Served -> Row \cup {NoRow}]

FileType == IsWeights(weights) /\ (file.state = "dict" => IsWeights(file.dict))

FaultsType == faults \in 0..MaxFaults

TypeInv ==
    /\ ChainType /\ ModulesType /\ InfoType /\ ScoresType /\ RowsType
    /\ FileType /\ FaultsType

(* A multiplier adds up to 700 thousandths to the 300 of the challenges.   *)
LEMMA ScoreType ==
    ASSUME NEW r, NEW m \in Multipliers
    PROVE  score_miner(r, m) \in 0..One
  <1>1. m \in Nat
    BY EpochAssumption
  <1>2. ScoreOf(get_failed_challenges(r), m) \in 0..One
    BY <1>1 DEF ScoreOf, AtMost, One
  <1> QED
    BY <1>2 DEF score_miner, One

(* A share of the thousand is no more than all of it.                      *)
LEMMA ShareType ==
    ASSUME NEW a \in Nat, NEW sum \in Nat, a <= sum
    PROVE  IntWeight(a, sum) \in 0..1000
  <1>1. CASE a = 0 \/ sum = 0
    <2>1. IntWeight(a, sum) = 0
      BY <1>1 DEF IntWeight
    <2> QED
      BY <2>1
  <1>2. CASE a # 0 /\ sum # 0
    <2> DEFINE q == (a * 1000) \div sum
    <2>1. IntWeight(a, sum) = q
      BY <1>2 DEF IntWeight
    <2>2. a * 1000 \in Nat /\ sum \in Nat \ {0}
      BY <1>2
    <2>3. q \in Nat /\ q * sum <= a * 1000
      BY <2>2, Division
    <2> HIDE DEF q
    <2>4. ASSUME 1001 <= q PROVE FALSE
      <3>1. sum * 1001 <= sum * q
        BY <2>3, <2>4, ProductMonotone
      <3>2. sum * q = q * sum
        BY <2>3
      <3> QED
        BY <1>2, <2>3, <3>1, <3>2
    <2> QED
      BY <2>1, <2>3, <2>4
  <1> QED
    BY <1>1, <1>2

(* No miner gets more than the whole of the thousand: its score is one of  *)
(* those its share is taken of.                                            *)
LEMMA WeightType ==
    ASSUME NEW S, IsFiniteSet(S), NEW f, \A u \in S : f[u] \in Nat, NEW x \in S
    PROVE  IntWeight(f[x], SumFunctionOnSet(f, S)) \in 0..1000
  <1>1. f[x] \in Nat /\ SumFunctionOnSet(f, S) \in Nat /\ f[x] <= SumFunctionOnSet(f, S)
    BY SumNat, SumAtLeast
  <1> QED
    BY <1>1, ShareType

LEMMA MergedType ==
    ASSUME NEW old, NEW s, DOMAIN s \subseteq Uids, \A u \in DOMAIN s : s[u] \in 0..One
    PROVE  IsWeights(Merged(old, NewWeights(s, MaxAllowed)))
  <1> DEFINE K == Kept(s, MaxAllowed)
             cut == cut_to_max_allowed_weights(s, MaxAllowed)
             new == NewWeights(s, MaxAllowed)
  <1>1. K \subseteq DOMAIN s /\ IsFiniteSet(K)
    <2>1. K \subseteq DOMAIN s
      BY DEF Kept
    <2>2. IsFiniteSet(Uids)
      BY EpochAssumption
    <2> QED
      BY <2>1, <2>2, FS_Subset
  <1>2. DOMAIN cut = K /\ \A u \in K : cut[u] = s[u]
    BY DEF cut_to_max_allowed_weights
  <1>3. new = [u \in DOMAIN cut |-> IntWeight(cut[u], SumFunction(cut))]
    BY DEF NewWeights
  <1>4. \A u \in K : cut[u] \in Nat
    BY <1>1, <1>2 DEF One
  <1> HIDE DEF K, cut, new
  <1>5. SumFunction(cut) = SumFunctionOnSet(cut, K)
    BY <1>2 DEF SumFunction
  <1>6. ASSUME NEW u \in K PROVE IntWeight(cut[u], SumFunction(cut)) \in 0..1000
    BY <1>1, <1>4, <1>5, WeightType
  <1>7. DOMAIN new = K /\ \A u \in K : new[u] \in 0..1000
    BY <1>2, <1>3, <1>6
  <1>8. DOMAIN Merged(old, new) = K /\ \A u \in K : Merged(old, new)[u] = new[u]
    BY <1>7 DEF Merged, Overwritten
  <1> QED
    BY <1>1, <1>7, <1>8 DEF IsWeights, new

-----------------------------------------------------------------------------
LEMMA InitType == Init => TypeInv
  <1> SUFFICES ASSUME Init PROVE TypeInv
    OBVIOUS
  <1>1. RowsType
    BY DEF Init, RowsType
  <1>2. ChainType /\ FaultsType
    BY EpochAssumption DEF Init, ChainType, FaultsType
  <1>3. ModulesType /\ InfoType /\ ScoresType
    BY EmptyMaps DEF Init, ModulesType, InfoType, ScoresType
  <1>4. FileType
    BY EmptyMaps DEF Init, FileType, IsWeights, Absent
  <1> QED
    BY <1>1, <1>2, <1>3, <1>4 DEF TypeInv

(* A process that starts, or one that ends, holds nothing.                 *)
LEMMA ForgetType ==
    ASSUME TypeInv, Forget, UNCHANGED <<chainVars, rows, file>>, pc' # "addresses", FaultsType'
    PROVE  TypeInv'
  <1>1. ModulesType' /\ InfoType' /\ ScoresType'
    BY EmptyMaps DEF Forget, ModulesType, InfoType, ScoresType
  <1>2. FileType'
    BY EmptyMaps DEF TypeInv, FileType, Forget, IsWeights
  <1>3. ChainType' /\ RowsType'
    BY DEF TypeInv, ChainType, RowsType, chainVars
  <1> QED
    BY <1>1, <1>2, <1>3 DEF TypeInv

(* The transactions of the table, each on the row of one module.           *)
LEMMA RowsKeepType ==
    ASSUME TypeInv, CountInv,
           UpdateMinerRank \/ store_miner_metadata \/ update_miner_challenges
    PROVE  RowsType'
  <1>1. RowsType /\ InfoType
    BY DEF TypeInv
  <1>2. CASE UpdateMinerRank
    <2>1. PICK u \in todo :
             rows' = IF info[u].key \in Served /\ rows[info[u].key] # NoRow
                     THEN [rows EXCEPT ![info[u].key].ranked = TRUE] ELSE rows
      BY <1>2 DEF UpdateMinerRank
    <2> QED
      BY <1>1, <2>1 DEF RowsType, Row
  <1>3. CASE store_miner_metadata
    <2>1. PICK u \in todo :
            rows' = [rows EXCEPT ![info[u].key] =
                  IF @ = NoRow THEN [uid |-> u, ranked |-> FALSE, failed |-> 0, total |-> 0]
                  ELSE [@ EXCEPT !.uid = u]]
      BY <1>3 DEF store_miner_metadata
    <2>2. u \in Uids /\ 0 \in 0..MaxTotal
      BY <1>1, EpochAssumption DEF InfoType
    <2> QED
      BY <1>1, <2>1, <2>2 DEF RowsType, Row
  <1>4. CASE update_miner_challenges
    <2>1. PICK u \in todo :
            /\ Current(u)
            /\ rows' = Counted(info[u].key, get_failed_challenges(Response(u)), 2)
      BY <1>4 DEF update_miner_challenges
    <2> DEFINE f == get_failed_challenges(Response(u))
               k == info[u].key
    <2>2. f \in Nat /\ MaxTotal \in Nat
      BY EpochAssumption DEF get_failed_challenges
    <2> HIDE DEF f, k
    <2>3. rows' = [rows EXCEPT ![k].failed = AtMost(MaxTotal, @ + f),
                               ![k].total = AtMost(MaxTotal, @ + 2)]
      BY <2>1 DEF Counted, f, k
    <2>4. ASSUME NEW n \in 0..MaxTotal, NEW d \in Nat PROVE AtMost(MaxTotal, n + d) \in 0..MaxTotal
      BY <2>2 DEF AtMost
    <2>5. CASE k \in Served /\ rows[k] # NoRow
      <3>1. /\ rows[k] \in Row
            /\ rows' = [rows EXCEPT ![k] = [rows[k] EXCEPT
                           !.failed = AtMost(MaxTotal, rows[k].failed + f),
                           !.total = AtMost(MaxTotal, rows[k].total + 2)]]
        BY <1>1, <2>3, <2>5 DEF RowsType
      <3> QED
        BY <1>1, <2>2, <2>4, <3>1 DEF RowsType, Row
    <2>6. CASE k \notin Served
      BY <1>1, <2>3, <2>6 DEF RowsType
    <2>7. k \in Served => rows[k] # NoRow
      BY <1>4, <2>1 DEF update_miner_challenges, CountInv, k
    <2> QED
      BY <2>5, <2>6, <2>7
  <1> QED
    BY <1>2, <1>3, <1>4

(* The challenges and the scores: the loop scores a uid of the modules.    *)
LEMMA ScoresKeepType ==
    ASSUME TypeInv, ScoreNothing \/ ScoreResponse
    PROVE  ScoresType'
  <1>1. CASE ScoreNothing
    <2>1. PICK u \in todo : scores' = Updated(scores, u, 0)
      BY <1>1 DEF ScoreNothing
    <2> QED
      BY <2>1 DEF TypeInv, ScoresType, Updated, One
  <1>2. CASE ScoreResponse
    <2>1. PICK u \in todo, m \in Multipliers : scores' = Updated(scores, u, score_miner(Response(u), m))
      BY <1>2 DEF ScoreResponse
    <2>2. score_miner(Response(u), m) \in 0..One
      BY ScoreType
    <2> QED
      BY <2>1, <2>2 DEF TypeInv, ScoresType, Updated
  <1> QED
    BY <1>1, <1>2

LEMMA MainThreadType == ASSUME TypeInv, IInv, CountInv, MainThread PROVE TypeInv'
  <1> USE DEF localVars, chainVars
  <1>0. /\ ChainType /\ ModulesType /\ InfoType /\ ScoresType /\ RowsType /\ FileType
        /\ FaultsType
    BY DEF TypeInv
  <1>1. CASE GetMapModules
    BY <1>0, <1>1 DEF GetMapModules, TypeInv, ChainType, ModulesType, InfoType, ScoresType,
                      RowsType, FileType, FaultsType
  <1>2. CASE GetAddresses
    <2>1. /\ modules \in [Uids -> Keys] /\ owner \in [Uids -> Keys]
          /\ info' = [u \in {v \in Uids : owner[v] \notin Unaddressed} |->
                         [key |-> modules[u], served |-> owner[u]]]
          /\ todo' = DOMAIN info'
      BY <1>0, <1>2 DEF GetAddresses, ModulesType, ChainType
    <2>2. InfoType'
      BY <2>1 DEF InfoType
    <2>3. (ChainType /\ ModulesType /\ ScoresType /\ RowsType /\ FileType /\ FaultsType)'
      BY <1>0, <1>2 DEF GetAddresses, ChainType, ModulesType, ScoresType, RowsType, FileType,
                        FaultsType
    <2> QED
      BY <2>2, <2>3 DEF TypeInv
  <1>3. CASE UpdateMinerRank \/ store_miner_metadata \/ update_miner_challenges
    <2>1. RowsType'
      BY <1>3, RowsKeepType
    <2>2. (ChainType /\ ModulesType /\ InfoType /\ ScoresType /\ FileType /\ FaultsType)'
      BY <1>0, <1>3 DEF UpdateMinerRank, store_miner_metadata, update_miner_challenges,
                        ChainType, ModulesType, InfoType, ScoresType, FileType, FaultsType
    <2> QED
      BY <2>1, <2>2 DEF TypeInv
  <1>4. CASE ScoreNothing \/ ScoreResponse
    <2>1. ScoresType'
      BY <1>4, ScoresKeepType
    <2>2. (ChainType /\ ModulesType /\ InfoType /\ RowsType /\ FileType /\ FaultsType)'
      BY <1>0, <1>4 DEF ScoreNothing, ScoreResponse, ChainType, ModulesType, InfoType,
                        RowsType, FileType, FaultsType
    <2> QED
      BY <2>1, <2>2 DEF TypeInv
  <1>5. CASE StartChallenges
    BY <1>0, <1>5 DEF StartChallenges, TypeInv, ChainType, ModulesType, InfoType, ScoresType,
                      RowsType, FileType, FaultsType
  <1>6. CASE Gathered
    BY <1>0, <1>6, EmptyMaps DEF Gathered, TypeInv, ChainType, ModulesType, InfoType,
                                 ScoresType, RowsType, FileType, FaultsType
  <1>7. CASE ReadFile
    <2>1. DOMAIN scores \subseteq Uids
      BY <1>0 DEF IInv, ScoresInv, StageInv, InfoType
    <2>2. weights' = Merged(file.dict, NewWeights(scores, MaxAllowed)) /\ file' = file
      BY <1>7 DEF ReadFile
    <2>3. IsWeights(weights')
      BY <1>0, <2>1, <2>2, MergedType DEF ScoresType
    <2>4. FileType'
      BY <1>0, <2>2, <2>3 DEF FileType
    <2>5. (ChainType /\ ModulesType /\ InfoType /\ ScoresType /\ RowsType /\ FaultsType)'
      BY <1>0, <1>7 DEF ReadFile, ChainType, ModulesType, InfoType, ScoresType, RowsType,
                        FaultsType
    <2> QED
      BY <2>4, <2>5 DEF TypeInv
  <1>8. CASE Wake
    BY <1>0, <1>8, ForgetType DEF Wake, FaultsType
  <1>9. CASE Setup \/ Create \/ OpenFile \/ DumpWeights
    <2>1. UNCHANGED weights /\ \/ file' = file
                               \/ file' = Corrupt
                               \/ file' = Readable(Nothing)
                               \/ file' = Readable(weights)
      BY <1>9 DEF Setup, Create, OpenFile, DumpWeights
    <2>2. IsWeights(Nothing)
      BY EmptyMaps DEF IsWeights
    <2>3. FileType'
      BY <1>0, <2>1, <2>2 DEF FileType, IsWeights, Corrupt, Readable
    <2>4. (ChainType /\ ModulesType /\ InfoType /\ ScoresType /\ RowsType /\ FaultsType)'
      BY <1>0, <1>9 DEF Setup, Create, OpenFile, DumpWeights, ChainType, ModulesType, InfoType,
                        ScoresType, RowsType, FaultsType
    <2> QED
      BY <2>3, <2>4 DEF TypeInv
  <1>10. CASE NotRegistered \/ Scored \/ ReadFails \/ Vote
    BY <1>0, <1>10 DEF NotRegistered, Scored, ReadFails, Vote, TypeInv, ChainType, ModulesType,
                       InfoType, ScoresType, RowsType, FileType, FaultsType
  <1> QED
    BY <1>1, <1>2, <1>3, <1>4, <1>5, <1>6, <1>7, <1>8, <1>9, <1>10 DEF MainThread

LEMMA NextType == ASSUME TypeInv, IInv, CountInv, [Next]_vars PROVE TypeInv'
  <1> USE DEF localVars, chainVars
  <1>0. /\ ChainType /\ ModulesType /\ InfoType /\ ScoresType /\ RowsType /\ FileType
        /\ FaultsType
    BY DEF TypeInv
  <1>1. CASE MainThread
    BY <1>1, MainThreadType
  <1>2. CASE \E u \in DOMAIN stage : Answered(u) \/ TaskFails(u)
    <2>1. UNCHANGED <<chainVars, pc, modules, info, todo, scores, weights, rows, file, faults>>
      BY <1>2 DEF Answered, Discovered, AnsweredFundsFlow, AnsweredBalance, TaskFails, TaskMoves
    <2> QED
      BY <1>0, <2>1 DEF TypeInv, ChainType, ModulesType, InfoType, ScoresType, RowsType,
                        FileType, FaultsType
  <1>3. CASE \E u \in Uids, k \in Keys : Register(u, k)
    <2>1. ChainType'
      BY <1>0, <1>3, EpochAssumption DEF Register, ChainType
    <2>2. (ModulesType /\ InfoType /\ ScoresType /\ RowsType /\ FileType /\ FaultsType)'
      BY <1>0, <1>3 DEF Register, ModulesType, InfoType, ScoresType, RowsType, FileType,
                        FaultsType
    <2> QED
      BY <2>1, <2>2 DEF TypeInv
  <1>4. CASE Raise \/ Crash \/ Restart \/ OperatorRestart
    <2>1. FaultsType'
      BY <1>0, <1>4, EpochAssumption DEF FaultsType, Raise, Crash, Restart, OperatorRestart, Started
    <2> QED
      BY <1>4, <2>1, ForgetType DEF Raise, Crash, Restart, OperatorRestart, Started
  <1>5. CASE SetWeightsRaises
    <2>1. FaultsType'
      BY <1>0, <1>5, EpochAssumption DEF FaultsType, SetWeightsRaises
    <2> QED
      BY <1>0, <1>5, <2>1 DEF SetWeightsRaises, TypeInv, ChainType, ModulesType, InfoType,
                              ScoresType, RowsType, FileType
  <1>6. CASE UNCHANGED vars
    BY <1>0, <1>6 DEF vars, TypeInv, ChainType, ModulesType, InfoType, ScoresType, RowsType,
                      FileType, FaultsType
  <1> QED
    BY <1>1, <1>2, <1>3, <1>4, <1>5, <1>6 DEF Next

(* Whatever the chain, the miners and the disk do, a score is a part of    *)
(* one, a weight of a thousand, both of a uid of the subnet, and what is   *)
(* kept for the next epoch, the rows and the file, has the type that epoch *)
(* reads.                                                                  *)
THEOREM EpochTypeCorrect == Spec => []TypeOK
  <1>1. TypeInv /\ IInv => TypeOK
    <2> SUFFICES ASSUME TypeInv, IInv PROVE TypeOK
      OBVIOUS
    <2>1. /\ DOMAIN stage \subseteq DOMAIN info /\ DOMAIN scores \subseteq DOMAIN info
          /\ \A u \in DOMAIN stage : stage[u] \in Stage
      BY DEF IInv, StageInv, ScoresInv
    <2>2. \A k \in Served : rows[k] = NoRow \/ rows[k] \in Row
      BY DEF TypeInv, RowsType
    <2> QED
      BY <2>1, <2>2 DEF TypeInv, ChainType, ModulesType, InfoType, ScoresType, FileType,
                        FaultsType, TypeOK
  <1>2. Init => CountInv
    BY InitCount
  <1>3. TypeInv /\ IInv /\ CountInv /\ [Next]_vars => (TypeInv /\ IInv /\ CountInv)'
    BY NextType, NextInv, NextCount
  <1> QED
    BY <1>1, <1>2, <1>3, InitType, InitInv, PTL DEF Spec
-----------------------------------------------------------------------------
(* Epochs vote: the refinement of EpochVotes. *)

IsBallot(w) ==
    /\ w = [u \in DOMAIN w |-> w[u]]
    /\ DOMAIN w \subseteq Uids /\ Cardinality(DOMAIN w) <= MaxAllowed
    /\ SumFunction(w) <= 1000

BallotInv == IsBallot(weights) /\ DOMAIN weights \subseteq DOMAIN stage

LEMMA NothingIsBallot == IsBallot(Nothing)
  <1>1. Nothing = [u \in {} |-> Nothing[u]] /\ DOMAIN Nothing = {}
    BY EmptyMaps DEF Nothing
  <1>2. Cardinality(DOMAIN Nothing) = 0 /\ SumFunction(Nothing) = 0
    BY <1>1, FS_EmptySet, SumEmpty DEF SumFunction
  <1> QED
    BY <1>1, <1>2, EpochAssumption DEF IsBallot

(* The uids are in order, so the scores are.                               *)
LEMMA SeatsSuffice ==
    ASSUME NEW s, DOMAIN s \subseteq Uids, \A u \in DOMAIN s : s[u] \in 0..One
    PROVE  /\ Kept(s, MaxAllowed) \subseteq DOMAIN s /\ IsFiniteSet(Kept(s, MaxAllowed))
           /\ Cardinality(Kept(s, MaxAllowed)) <= MaxAllowed
  <1> DEFINE ahead == [u \in DOMAIN s |-> Ahead(s, u)]
  <1>1. DOMAIN s \subseteq Int /\ IsFiniteSet(DOMAIN s) /\ \A u \in DOMAIN s : s[u] \in Int
    <2>1. DOMAIN s \subseteq Int
      <3>1. Uids \subseteq Int
        BY EpochAssumption
      <3> QED
        BY <3>1
    <2>3. IsFiniteSet(Uids) /\ DOMAIN s \in SUBSET Uids
      BY EpochAssumption
    <2>4. IsFiniteSet(DOMAIN s)
      BY <2>3, FS_Subset
    <2>2. \A u \in DOMAIN s : s[u] \in Int
      BY DEF One
    <2> QED
      BY <2>1, <2>2, <2>4
  <1>2. /\ \A u \in DOMAIN s : u \notin Ahead(s, u)
        /\ \A u \in DOMAIN s, v \in DOMAIN s : u # v => u \in Ahead(s, v) \/ v \in Ahead(s, u)
        /\ \A u \in DOMAIN s : \A v \in Ahead(s, u) : v \in DOMAIN s /\ Ahead(s, v) \subseteq Ahead(s, u)
    BY <1>1 DEF Ahead
  <1>3. ahead \in [DOMAIN s -> SUBSET DOMAIN s]
    BY DEF Ahead
  <1>4. Ordered(DOMAIN s, ahead)
    BY <1>1, <1>2, <1>3 DEF Ordered
  <1>5. Kept(s, MaxAllowed) = FirstOf(DOMAIN s, ahead, MaxAllowed)
    BY DEF Kept, FirstOf
  <1>6. MaxAllowed \in Nat /\ Cardinality(DOMAIN s) \in Nat
    BY <1>1, EpochAssumption, FS_CardinalityType
  <1> HIDE DEF ahead
  <1>7. Cardinality(FirstOf(DOMAIN s, ahead, MaxAllowed))
          = IF MaxAllowed < Cardinality(DOMAIN s) THEN MaxAllowed ELSE Cardinality(DOMAIN s)
    BY <1>4, <1>6, FirstCount
  <1>8. FirstOf(DOMAIN s, ahead, MaxAllowed) \in SUBSET DOMAIN s
    BY DEF FirstOf
  <1> QED
    BY <1>1, <1>5, <1>6, <1>7, <1>8, FS_Subset

(* A share of the thousand, rounded down.                                  *)
LEMMA ShareRounded ==
    ASSUME NEW a \in Nat, NEW d \in Nat \ {0}
    PROVE  IntWeight(a, d) \in Nat /\ d * IntWeight(a, d) <= 1000 * a
  <1>1. CASE a = 0
    BY <1>1 DEF IntWeight
  <1>2. CASE a # 0
    <2> DEFINE q == (a * 1000) \div d
    <2>1. IntWeight(a, d) = q /\ a * 1000 \in Nat
      BY <1>2 DEF IntWeight
    <2>2. q \in Nat /\ q * d <= a * 1000
      BY <2>1, Division
    <2> HIDE DEF q
    <2>3. d * q = q * d /\ a * 1000 = 1000 * a
      BY <2>2
    <2> QED
      BY <2>1, <2>2, <2>3
  <1> QED
    BY <1>1, <1>2

LEMMA MergedBallot ==
    ASSUME NEW old, NEW s, DOMAIN s \subseteq Uids, \A u \in DOMAIN s : s[u] \in 0..One
    PROVE  /\ IsBallot(Merged(old, NewWeights(s, MaxAllowed)))
           /\ DOMAIN Merged(old, NewWeights(s, MaxAllowed)) \subseteq DOMAIN s
  <1> DEFINE K == Kept(s, MaxAllowed)
             cut == cut_to_max_allowed_weights(s, MaxAllowed)
             sum == SumFunction(cut)
             new == NewWeights(s, MaxAllowed)
             w == Merged(old, new)
  <1>1. K \subseteq DOMAIN s /\ IsFiniteSet(K) /\ Cardinality(K) <= MaxAllowed
    BY SeatsSuffice
  <1>2. DOMAIN cut = K /\ \A u \in K : cut[u] = s[u] /\ cut[u] \in Nat
    BY <1>1 DEF cut_to_max_allowed_weights, One
  <1>3. new = [u \in DOMAIN cut |-> IntWeight(cut[u], sum)]
    BY DEF NewWeights
  <1>4. w = [u \in DOMAIN new |-> Overwritten(old, new)[u]]
    BY DEF Merged
  <1> HIDE DEF K, cut, new, w
  <1>5. sum = SumFunctionOnSet(cut, K) /\ sum \in Nat
    <2>1. sum = SumFunctionOnSet(cut, K)
      BY <1>2 DEF SumFunction
    <2> QED
      BY <1>1, <1>2, <2>1, SumNat
  <1> HIDE DEF sum
  <1>6. DOMAIN w = K /\ \A u \in K : w[u] = IntWeight(cut[u], sum)
    BY <1>2, <1>3, <1>4 DEF Overwritten
  <1>7. SumFunction(w) = SumFunctionOnSet(w, K)
    BY <1>6 DEF SumFunction
  <1>8. SumFunctionOnSet(w, K) <= 1000
    <2>1. CASE sum = 0
      <3>1. \A u \in K : w[u] \in Int /\ w[u] = 0
        BY <1>6, <2>1 DEF IntWeight
      <3>2. SumFunctionOnSet(w, K) = 0 * Cardinality(K)
        BY <1>1, <3>1, SumConstant
      <3>3. Cardinality(K) \in Nat
        BY <1>1, FS_CardinalityType
      <3> QED
        BY <3>2, <3>3
    <2>2. CASE sum # 0
      <3>1. ASSUME NEW u \in K PROVE w[u] \in Nat /\ sum * w[u] <= 1000 * cut[u]
        <4>1. cut[u] \in Nat /\ sum \in Nat \ {0} /\ w[u] = IntWeight(cut[u], sum)
          BY <1>2, <1>5, <1>6, <2>2
        <4> QED
          BY <4>1, ShareRounded
      <3>2. \A u \in K : cut[u] \in Nat /\ w[u] \in Nat
        BY <1>2, <3>1
      <3>3. \A u \in K : SumFunctionOnSet(cut, K) * w[u] <= 1000 * cut[u]
        BY <1>5, <3>1
      <3>4. SumFunctionOnSet(cut, K) > 0
        BY <1>5, <2>2
      <3> QED
        BY <1>1, <3>2, <3>3, <3>4, SharesFit
    <2> QED
      BY <2>1, <2>2
  <1>9. w = [u \in DOMAIN w |-> w[u]]
    BY <1>4
  <1> QED
    BY <1>1, <1>6, <1>7, <1>8, <1>9 DEF IsBallot, w, new

LEMMA NextBallot == ASSUME TypeInv, IInv, BallotInv, [Next]_vars PROVE BallotInv'
  <1> USE DEF localVars, chainVars
  <1>1. CASE ReadFile
    <2>1. weights' = Merged(file.dict, NewWeights(scores, MaxAllowed)) /\ stage' = stage
      BY <1>1 DEF ReadFile
    <2>2. /\ DOMAIN scores \subseteq Uids /\ DOMAIN scores \subseteq DOMAIN stage
          /\ \A u \in DOMAIN scores : scores[u] \in 0..One
      BY DEF TypeInv, InfoType, ScoresType, IInv, ScoresInv, StageInv
    <2> QED
      BY <2>1, <2>2, MergedBallot DEF BallotInv
  <1>2. CASE weights' = Nothing
    BY <1>2, NothingIsBallot, EmptyMaps DEF BallotInv
  <1>3. CASE UNCHANGED <<weights, stage>>
    BY <1>3 DEF BallotInv
  <1>4. ReadFile \/ weights' = Nothing \/ UNCHANGED <<weights, stage>>
    <2>1. CASE MainThread
      BY <2>1 DEF MainThread, GetMapModules, GetAddresses, NotRegistered, UpdateMinerRank,
                  StartChallenges, Gathered, ScoreNothing, ScoreResponse, store_miner_metadata,
                  update_miner_challenges, Scored, Setup, Create, ReadFails, OpenFile,
                  DumpWeights, Vote, Wake, Forget, IInv, FreshInv
    <2>2. CASE \E u \in DOMAIN stage : Answered(u) \/ TaskFails(u)
      BY <2>2 DEF Answered, Discovered, AnsweredFundsFlow, AnsweredBalance, TaskFails, TaskMoves,
                  IInv, FreshInv
    <2>3. CASE \E u \in Uids, k \in Keys : Register(u, k)
      BY <2>3 DEF Register
    <2>4. CASE Raise \/ SetWeightsRaises \/ Crash \/ Restart \/ OperatorRestart
      BY <2>4 DEF Raise, SetWeightsRaises, Crash, Restart, OperatorRestart, Started, Forget
    <2>5. CASE UNCHANGED vars
      BY <2>5 DEF vars
    <2> QED
      BY <2>1, <2>2, <2>3, <2>4, <2>5 DEF Next
  <1> QED
    BY <1>1, <1>2, <1>3, <1>4

Ballot == IF pc = "vote" THEN weights ELSE Nothing

(* Counting and adding up are the same in EpochVotes.                      *)
LEMMA SameSums ==
    ASSUME NEW w
    PROVE  /\ Votes!Cardinality(DOMAIN w) = Cardinality(DOMAIN w)
           /\ Votes!SumFunction(w) = SumFunction(w)
  <1>1. Votes!Cardinality(DOMAIN w) = Cardinality(DOMAIN w)
    BY DEF Votes!Cardinality, Cardinality
  <1>2. Votes!SumFunction(w) = SumFunction(w)
    BY DEF Votes!SumFunction, Votes!SumFunctionOnSet, Votes!FoldFunctionOnSet,
           Votes!MapThenFoldSet, SumFunction, SumFunctionOnSet, FoldFunctionOnSet, MapThenFoldSet
  <1> QED
    BY <1>1, <1>2

(* The steps EpochVotes does not see.                                      *)
Hidden == UNCHANGED <<Phase, Passed, Ballot>>

LEMMA MapsPass ==
    ASSUME IInv, NEW u \in DOMAIN stage, Answered(u) \/ TaskFails(u), u \in Uids
    PROVE  Hidden \/ Votes!Pass(u)
  <1>1. /\ pc = "gather" /\ pc' = "gather"
        /\ Phase = "asking" /\ Phase' = "asking" /\ Ballot' = Ballot
    BY DEF Answered, Discovered, AnsweredFundsFlow, AnsweredBalance, TaskFails, TaskMoves, Phase,
           Ballot
  <1>2. PICK t : /\ t \in Stage /\ stage' = [stage EXCEPT ![u] = t]
                 /\ stage[u].at # "done"
    <2>1. stage[u] \in Stage
      BY DEF IInv, StageInv
    <2>2. CASE Discovered(u)
      BY <2>2 DEF Discovered, TaskMoves, Stage
    <2>3. CASE AnsweredFundsFlow(u)
      BY <2>3 DEF AnsweredFundsFlow, TaskMoves, Stage
    <2>4. CASE AnsweredBalance(u)
      <3>1. stage[u].ff \in BOOLEAN
        BY <2>1, <2>4 DEF AnsweredBalance, Stage
      <3> QED
        BY <2>4, <3>1 DEF AnsweredBalance, TaskMoves, Stage
    <2>5. CASE TaskFails(u)
      BY <2>5 DEF TaskFails, Waiting, TaskMoves, Stage
    <2> QED
      BY <2>2, <2>3, <2>4, <2>5 DEF Answered
  <1>3. /\ DOMAIN stage' = DOMAIN stage /\ stage'[u] = t
        /\ \A v \in DOMAIN stage : v # u => stage'[v] = stage[v]
    BY <1>2
  <1>4. u \notin Passed
    BY <1>2 DEF Passed
  <1>5. CASE t.at = "done" /\ (t.ff \/ t.bt)
    <2>1. Passed' = Passed \cup {u}
      BY <1>3, <1>5 DEF Passed
    <2> QED
      BY <1>1, <2>1 DEF Votes!Pass, Ballot
  <1>6. CASE ~(t.at = "done" /\ (t.ff \/ t.bt))
    <2>1. Passed' = Passed
      BY <1>3, <1>4, <1>6 DEF Passed
    <2> QED
      BY <1>1, <2>1 DEF Hidden
  <1> QED
    BY <1>5, <1>6

LEMMA MapsVote ==
    ASSUME IInv, BallotInv, DumpWeights
    PROVE  Votes!Draw \/ Votes!End
  <1>1. /\ pc = "dump" /\ UNCHANGED <<stage, weights>>
        /\ pc' = IF weights = Nothing THEN "sleep" ELSE "vote"
        /\ Phase = "closed" /\ Passed' = Passed
    BY DEF DumpWeights, localVars, Phase, Passed
  <1>2. CASE weights = Nothing
    BY <1>1, <1>2 DEF Votes!End, Votes!NoBallot, Phase, Nothing
  <1>3. CASE weights # Nothing
    <2>1. Phase' = "voting"
      BY <1>1, <1>3 DEF Phase
    <2>2. DOMAIN weights # {}
      <3>1. SUFFICES ASSUME DOMAIN weights = {} PROVE FALSE
        OBVIOUS
      <3>2. weights = [u \in {} |-> weights[u]]
        BY <3>1 DEF BallotInv, IsBallot
      <3> QED
        BY <1>3, <3>2 DEF Nothing
    <2>3. Cardinality(DOMAIN weights) \in 1..MaxAllowed
      <3>1. DOMAIN weights \subseteq Uids /\ Cardinality(DOMAIN weights) <= MaxAllowed
        BY DEF BallotInv, IsBallot
      <3>2. IsFiniteSet(DOMAIN weights)
        BY <3>1, EpochAssumption, FS_Subset
      <3>3. Cardinality(DOMAIN weights) \in Nat /\ Cardinality(DOMAIN weights) # 0
        BY <2>2, <3>2, FS_CardinalityType, FS_EmptySet
      <3> QED
        BY <3>1, <3>3, EpochAssumption
    <2>4. \A u \in DOMAIN weights : weights[u] > 0 => u \in Passed
      BY DEF IInv, WeightsInv, BallotInv, Earned, Passed
    <2>5. Votes!Earned(weights)
      BY <2>3, <2>4, SameSums DEF Votes!Earned, BallotInv, IsBallot
    <2> QED
      BY <1>1, <1>3, <2>1, <2>5 DEF Votes!Draw, Votes!Earned
  <1> QED
    BY <1>2, <1>3

(* What asks, scores or touches the file does not show; the end of the     *)
(* gathering closes the poll.                                              *)
LEMMA MapsMain ==
    ASSUME IInv, BallotInv, MainThread
    PROVE  Hidden \/ Votes!Close \/ Votes!Draw \/ Votes!End \/ Votes!Begin
  <1> USE DEF localVars
  <1>1. CASE GetMapModules \/ GetAddresses \/ UpdateMinerRank
    BY <1>1 DEF GetMapModules, GetAddresses, UpdateMinerRank, Hidden, Phase, Passed, Ballot
  <1>2. CASE StartChallenges
    <2>1. /\ stage = Nothing /\ stage' = [u \in DOMAIN info |-> [at |-> "discovery"]]
          /\ pc = "rank" /\ pc' = "gather"
      BY <1>2 DEF StartChallenges, IInv, FreshInv
    <2>2. Passed = {} /\ Passed' = {}
      BY <2>1, EmptyMaps DEF Passed
    <2> QED
      BY <2>1, <2>2 DEF Hidden, Phase, Ballot
  <1>3. CASE Gathered
    BY <1>3 DEF Gathered, Phase, Passed, Ballot, Votes!Close
  <1>4. CASE ScoreNothing \/ ScoreResponse \/ store_miner_metadata \/ update_miner_challenges
    BY <1>4 DEF ScoreNothing, ScoreResponse, store_miner_metadata, update_miner_challenges,
                Hidden, Phase, Passed, Ballot
  <1>5. CASE Setup \/ Create \/ ReadFile \/ OpenFile
    BY <1>5 DEF Setup, Create, ReadFile, OpenFile, Hidden, Phase, Passed, Ballot
  <1>6. CASE Scored \/ NotRegistered \/ ReadFails \/ Vote
    <2>1. /\ UNCHANGED stage /\ pc \in {"score", "addresses", "read", "vote"}
          /\ pc' \in {"sleep", "dead"} \/ (pc = "score" /\ pc' = "setup")
      BY <1>6 DEF Scored, NotRegistered, ReadFails, Vote
    <2> QED
      BY <2>1 DEF Hidden, Phase, Passed, Ballot, Nothing, Votes!End, Votes!NoBallot
  <1>7. CASE DumpWeights
    BY <1>7, MapsVote
  <1>8. CASE Wake
    <2>1. pc = "sleep" /\ pc' = "modules" /\ stage' = Nothing
      BY <1>8 DEF Wake, Forget
    <2> QED
      BY <2>1, EmptyMaps DEF Phase, Passed, Ballot, Votes!Begin
  <1> QED
    BY <1>1, <1>2, <1>3, <1>4, <1>5, <1>6, <1>7, <1>8 DEF MainThread

LEMMA MapsFaults ==
    ASSUME Raise \/ SetWeightsRaises \/ Crash \/ Restart \/ OperatorRestart
    PROVE  Votes!Lose \/ Votes!End \/ Votes!Begin
  <1> USE DEF localVars
  <1>1. CASE Raise \/ Crash
    <2>1. pc' \in {"dead", "down"} /\ stage' = Nothing
      BY <1>1 DEF Raise, Crash, Forget
    <2> QED
      BY <2>1, EmptyMaps DEF Phase, Passed, Ballot, Nothing, Votes!Lose, Votes!NoBallot
  <1>2. CASE SetWeightsRaises
    BY <1>2 DEF SetWeightsRaises, Phase, Passed, Ballot, Nothing, Votes!End, Votes!NoBallot
  <1>3. CASE Restart \/ OperatorRestart
    <2>1. pc \in {"down", "dead"} /\ pc' = "modules" /\ stage' = Nothing
      BY <1>3 DEF Restart, OperatorRestart, Started, Forget
    <2> QED
      BY <2>1, EmptyMaps DEF Phase, Passed, Ballot, Votes!Begin
  <1> QED
    BY <1>1, <1>2, <1>3

LEMMA StepMaps ==
    ASSUME IInv, TypeInv, BallotInv, [Next]_vars
    PROVE  [Votes!Next]_(Votes!vars)
  <1>1. Hidden => UNCHANGED Votes!vars
    BY DEF Hidden, Ballot, Votes!vars
  <1>2. CASE MainThread
    BY <1>1, <1>2, MapsMain DEF Votes!Next
  <1>3. CASE \E u \in DOMAIN stage : Answered(u) \/ TaskFails(u)
    <2>1. PICK u \in DOMAIN stage : Answered(u) \/ TaskFails(u)
      BY <1>3
    <2>2. u \in Uids
      BY DEF IInv, StageInv, TypeInv, InfoType
    <2> QED
      BY <1>1, <2>1, <2>2, MapsPass DEF Votes!Next
  <1>4. CASE \E u \in Uids, k \in Keys : Register(u, k)
    BY <1>1, <1>4 DEF Register, localVars, Hidden, Phase, Passed, Ballot
  <1>5. CASE Raise \/ SetWeightsRaises \/ Crash \/ Restart \/ OperatorRestart
    BY <1>5, MapsFaults DEF Votes!Next
  <1>6. CASE UNCHANGED vars
    BY <1>1, <1>6 DEF vars, localVars, Hidden, Phase, Passed, Ballot
  <1> QED
    BY <1>2, <1>3, <1>4, <1>5, <1>6 DEF Next

(* Whatever the chain, the miners, the tables and the file do, and however *)
(* often the process dies and starts again, every epoch votes at most      *)
(* once, for no more uids than allowed and a thousand in all, and for none *)
(* that has not passed in it: the validator implements EpochVotes, for     *)
(* every subnet.                                                           *)
THEOREM EpochsVoteOnce == Spec => EpochsVote
  <1>1. Init => Votes!Init
    BY EmptyMaps DEF Init, Votes!Init, Votes!NoBallot, Phase, Passed, Nothing
  <1>2. Init => BallotInv
    BY NothingIsBallot, EmptyMaps DEF Init, BallotInv
  <1>3. Init => CountInv
    BY InitCount
  <1>4. TypeInv /\ IInv /\ CountInv /\ BallotInv /\ [Next]_vars
          => (TypeInv /\ IInv /\ CountInv /\ BallotInv)'
    BY NextType, NextInv, NextCount, NextBallot
  <1>5. IInv /\ TypeInv /\ BallotInv /\ [Next]_vars => [Votes!Next]_(Votes!vars)
    BY StepMaps
  <1> QED
    BY <1>1, <1>2, <1>3, <1>4, <1>5, InitType, InitInv, PTL DEF Spec, EpochsVote, Votes!Spec

-----------------------------------------------------------------------------
(* What ScoringGoesOn rests on besides fairness: an epoch has boundedly    *)
(* many steps, and each loop, task and file it comes to is as its next     *)
(* step needs it.                                                          *)

Over == {"sleep", "dead", "down"}

Place(p) ==
    CASE p = "modules" -> 11 [] p = "addresses" -> 10 [] p = "rank" -> 9
      [] p = "gather" -> 8 [] p \in {"score", "metadata", "count"} -> 7
      [] p = "setup" -> 6 [] p = "create" -> 5 [] p = "read" -> 4
      [] p = "store" -> 3 [] p = "dump" -> 2 [] p = "vote" -> 1
      [] OTHER -> 0

(* The tasks that are at one of some stages.                               *)
At(s, ps) == {u \in DOMAIN s : s[u].at \in ps}

(* The steps left of the loop or of the tasks at place p.                  *)
StepsLeft(p, t, s) ==
    CASE p = "rank" -> Cardinality(t)
      [] p = "gather" -> Cardinality(At(s, {"discovery"}))
                           + Cardinality(At(s, {"discovery", "ff"}))
                           + Cardinality(At(s, {"discovery", "ff", "bt"}))
      [] p = "score" -> 3 * Cardinality(t)
      [] p = "metadata" -> 3 * Cardinality(t) - 1
      [] p = "count" -> 3 * Cardinality(t) - 2
      [] OTHER -> 0

Nearer ==
    \/ Place(pc') < Place(pc)
    \/ Place(pc') = Place(pc) /\ StepsLeft(pc', todo', stage') < StepsLeft(pc, todo, stage)

(* No step of the main thread or of a task leaves an epoch where it was or *)
(* takes it back; registrations do not touch it.                           *)
EpochAdvances ==
    [][pc \notin Over => UNCHANGED <<pc, todo, stage>> \/ Nearer]_vars

(* The loop knows the uid it is at, which has answered.                    *)
LoopInv ==
    pc \in {"metadata", "count"} =>
        \E u \in todo : Current(u) /\ u \in DOMAIN stage /\ stage[u].at = "done"

FileThere == pc = "read" => file = Corrupt \/ file.state = "dict"

FileKnown == file = Absent \/ file = Corrupt \/ file.state = "dict"

(* A loop that is not through has a next uid, a miner that is scored has a *)
(* key to be stored under and then a row to be counted in, every uid has a *)
(* task, and the file that is read is there.                               *)
EpochCanGoOn ==
    /\ pc = "addresses" => modules \in [Uids -> Keys]
    /\ pc \in {"rank", "score"} /\ todo # {} => \E u \in todo : Current(u)
    /\ pc = "gather" => DOMAIN stage = DOMAIN info
    /\ pc \in {"metadata", "count"} =>
          \E u \in todo :
              /\ Current(u) /\ info[u].key \in Served
              /\ pc = "count" => rows[info[u].key] # NoRow
    /\ FileThere

LEMMA SomeCurrent ==
    ASSUME NEW t \in SUBSET Uids, t # {}
    PROVE  \E u \in t : \A v \in t : u <= v
  BY EpochAssumption, LeastNat

LEMMA NextLoop ==
    ASSUME IInv, LoopInv, FileThere, FileKnown, [Next]_vars
    PROVE  (LoopInv /\ FileThere /\ FileKnown)'
  <1> USE DEF LoopInv, FileThere, FileKnown, localVars, chainVars
  <1>1. CASE ScoreResponse
    <2>1. PICK u \in todo : Current(u) /\ Response(u) # NoResponse
      BY <1>1 DEF ScoreResponse
    <2>2. stage[u].at = "done"
      BY <2>1 DEF Response
    <2>3. u \in DOMAIN stage
      BY <1>1 DEF ScoreResponse, IInv, FreshInv
    <2> QED
      BY <1>1, <2>1, <2>2, <2>3 DEF ScoreResponse, Current
  <1>2. CASE store_miner_metadata
    BY <1>2 DEF store_miner_metadata, Current
  <1>3. CASE Setup
    BY <1>3 DEF Setup
  <1>4. CASE Create \/ DumpWeights
    BY <1>4 DEF Create, DumpWeights, Readable
  <1>5. CASE ReadFile \/ ReadFails \/ OpenFile \/ Vote \/ Wake
    BY <1>5 DEF ReadFile, ReadFails, OpenFile, Vote, Wake
  <1>6. CASE \/ GetMapModules \/ GetAddresses \/ NotRegistered
             \/ UpdateMinerRank \/ StartChallenges \/ Gathered
             \/ ScoreNothing \/ update_miner_challenges \/ Scored
    BY <1>6 DEF GetMapModules, GetAddresses, NotRegistered, UpdateMinerRank, StartChallenges,
                Gathered, ScoreNothing, update_miner_challenges, Scored
  <1>7. CASE \E u \in DOMAIN stage : Answered(u) \/ TaskFails(u)
    BY <1>7 DEF Answered, Discovered, AnsweredFundsFlow, AnsweredBalance, TaskFails, TaskMoves
  <1>8. CASE \E u \in Uids, k \in Keys : Register(u, k)
    BY <1>8 DEF Register, Current
  <1>9. CASE Raise \/ SetWeightsRaises \/ Crash
    BY <1>9 DEF Raise, SetWeightsRaises, Crash
  <1>10. CASE Restart \/ OperatorRestart
    BY <1>10 DEF Restart, OperatorRestart, Started
  <1>11. CASE UNCHANGED vars
    BY <1>11 DEF vars, Current
  <1> QED
    BY <1>1, <1>2, <1>3, <1>4, <1>5, <1>6, <1>7, <1>8, <1>9, <1>10, <1>11 DEF Next, MainThread

(* An epoch never waits for something that is not there.                   *)
THEOREM EpochsCanGoOn == Spec => []EpochCanGoOn
  <1>1. Init => LoopInv /\ FileThere /\ FileKnown
    BY DEF Init, LoopInv, FileThere, FileKnown
  <1>2. Init => CountInv
    BY InitCount
  <1>3. /\ TypeInv /\ IInv /\ CountInv /\ [Next]_vars => (TypeInv /\ IInv /\ CountInv)'
        /\ IInv /\ LoopInv /\ FileThere /\ FileKnown /\ [Next]_vars
             => (LoopInv /\ FileThere /\ FileKnown)'
    BY NextType, NextInv, NextCount, NextLoop
  <1>4. ASSUME TypeInv, IInv, CountInv, LoopInv, FileThere PROVE EpochCanGoOn
    <2> USE <1>4
    <2>1. todo \in SUBSET Uids /\ (pc = "addresses" => modules \in [Uids -> Keys])
      BY DEF TypeInv, InfoType, ModulesType
    <2>2. pc = "gather" => DOMAIN stage = DOMAIN info
      BY DEF IInv, FreshInv
    <2>3. todo # {} => \E u \in todo : Current(u)
      BY <2>1, SomeCurrent DEF Current
    <2>4. ASSUME pc \in {"metadata", "count"}
          PROVE  \E u \in todo : /\ Current(u) /\ info[u].key \in Served
                                 /\ pc = "count" => rows[info[u].key] # NoRow
      <3>1. PICK u \in todo : Current(u) /\ u \in DOMAIN stage /\ stage[u].at = "done"
        BY <2>4 DEF LoopInv
      <3>2. info[u].key \in Served
        BY <3>1 DEF IInv, StageInv, Reaches
      <3>3. pc = "count" => rows[info[u].key] # NoRow
        BY <3>1, <3>2 DEF CountInv
      <3> QED
        BY <3>1, <3>2, <3>3
    <2> QED
      BY <2>1, <2>2, <2>3, <2>4 DEF EpochCanGoOn
  <1> QED
    BY <1>1, <1>2, <1>3, <1>4, InitType, InitInv, PTL DEF Spec

(* The uids of the subnet are finitely many, so the sets of tasks are.     *)
LEMMA Counts ==
    ASSUME NEW t \in SUBSET Uids
    PROVE  /\ IsFiniteSet(t) /\ Cardinality(t) \in Nat
           /\ \A u \in t : /\ Cardinality(t) # 0
                           /\ Cardinality(t \ {u}) = Cardinality(t) - 1
           /\ \A r \in SUBSET t : Cardinality(r) \in Nat /\ Cardinality(r) <= Cardinality(t)
  <1>1. IsFiniteSet(t) /\ Cardinality(t) \in Nat
    BY EpochAssumption, FS_Subset, FS_CardinalityType
  <1>2. \A u \in t : Cardinality(t \ {u}) = Cardinality(t) - 1 /\ Cardinality(t \ {u}) \in Nat
    BY <1>1, FS_RemoveElement, FS_CardinalityType
  <1>3. \A r \in SUBSET t : Cardinality(r) \in Nat /\ Cardinality(r) <= Cardinality(t)
    BY <1>1, FS_Subset, FS_CardinalityType
  <1> QED
    BY <1>1, <1>2, <1>3

(* Whatever a task may do next.                                            *)
TaskOrder(from, to) ==
    \/ from = "discovery" /\ to \in {"ff", "none"}
    \/ from = "ff" /\ to \in {"bt", "none"}
    \/ from = "bt" /\ to \in {"done", "none"}

LEMMA TaskOrdered ==
    ASSUME IInv, NEW u \in DOMAIN stage, Answered(u) \/ TaskFails(u)
    PROVE  \E s : TaskMoves(u, s) /\ TaskOrder(stage[u].at, s.at)
  <1> USE DEF TaskOrder
  <1>1. CASE Discovered(u)
    BY <1>1 DEF Discovered
  <1>2. CASE AnsweredFundsFlow(u)
    BY <1>2 DEF AnsweredFundsFlow
  <1>3. CASE AnsweredBalance(u)
    BY <1>3 DEF AnsweredBalance
  <1>4. CASE TaskFails(u)
    BY <1>4 DEF TaskFails, Waiting
  <1> QED
    BY <1>1, <1>2, <1>3, <1>4 DEF Answered

(* A task that moves on leaves one set of those it is in, and enters none. *)
LEMMA TaskAdvances ==
    ASSUME TypeInv, IInv, NEW u \in DOMAIN stage, Answered(u) \/ TaskFails(u)
    PROVE  StepsLeft("gather", todo, stage') < StepsLeft("gather", todo, stage)
  <1>1. PICK s : TaskMoves(u, s) /\ TaskOrder(stage[u].at, s.at)
    BY TaskOrdered
  <1>2. stage' = [stage EXCEPT ![u] = s]
    BY <1>1 DEF TaskMoves
  <1> DEFINE D == At(stage, {"discovery"})
             F == At(stage, {"discovery", "ff"})
             B == At(stage, {"discovery", "ff", "bt"})
             d == At(stage', {"discovery"})
             f == At(stage', {"discovery", "ff"})
             b == At(stage', {"discovery", "ff", "bt"})
  <1>3. D \in SUBSET Uids /\ F \in SUBSET Uids /\ B \in SUBSET Uids
    BY DEF At, IInv, StageInv, TypeInv, InfoType
  <1>4. d \in SUBSET D /\ f \in SUBSET F /\ b \in SUBSET B
    BY <1>1, <1>2 DEF At, TaskOrder
  <1>5. \/ u \in D /\ d \in SUBSET (D \ {u})
        \/ u \in F /\ f \in SUBSET (F \ {u})
        \/ u \in B /\ b \in SUBSET (B \ {u})
    BY <1>1, <1>2 DEF At, TaskOrder
  <1> HIDE DEF D, F, B, d, f, b
  <1>6. ASSUME NEW t \in SUBSET Uids, NEW r \in SUBSET t
        PROVE  /\ Cardinality(t) \in Nat /\ Cardinality(r) \in Nat
               /\ Cardinality(r) <= Cardinality(t)
               /\ u \in t /\ r \in SUBSET (t \ {u}) => Cardinality(r) < Cardinality(t)
    <2>1. Cardinality(t) \in Nat /\ Cardinality(r) \in Nat /\ Cardinality(r) <= Cardinality(t)
      BY Counts
    <2>2. ASSUME u \in t, r \in SUBSET (t \ {u}) PROVE Cardinality(r) < Cardinality(t)
      <3>1. t \ {u} \in SUBSET Uids /\ Cardinality(t \ {u}) = Cardinality(t) - 1
        BY <2>2, Counts
      <3>2. Cardinality(r) <= Cardinality(t \ {u})
        BY <2>2, <3>1, Counts
      <3> QED
        BY <2>1, <3>1, <3>2
    <2> QED
      BY <2>1, <2>2
  <1>7. Cardinality(d) + Cardinality(f) + Cardinality(b)
          < Cardinality(D) + Cardinality(F) + Cardinality(B)
    <2>1. Cardinality(d) \in Nat /\ Cardinality(f) \in Nat /\ Cardinality(b) \in Nat
      BY <1>3, <1>4, <1>6
    <2>2. Cardinality(D) \in Nat /\ Cardinality(F) \in Nat /\ Cardinality(B) \in Nat
      BY <1>3, <1>4, <1>6
    <2>3. /\ Cardinality(d) <= Cardinality(D) /\ Cardinality(f) <= Cardinality(F)
          /\ Cardinality(b) <= Cardinality(B)
      BY <1>3, <1>4, <1>6
    <2>4. \/ Cardinality(d) < Cardinality(D) \/ Cardinality(f) < Cardinality(F)
          \/ Cardinality(b) < Cardinality(B)
      BY <1>3, <1>4, <1>5, <1>6
    <2> QED
      BY ONLY <2>1, <2>2, <2>3, <2>4
  <1> QED
    BY <1>7 DEF StepsLeft, D, F, B, d, f, b

LEMMA MainAdvances ==
    ASSUME TypeInv, MainThread, pc \notin Over
    PROVE  Nearer
  <1> USE DEF Nearer, Place, Over
  <1>1. todo \in SUBSET Uids
    BY DEF TypeInv, InfoType
  <1>2. CASE UpdateMinerRank
    <2>1. PICK u \in todo : todo' = todo \ {u}
      BY <1>2 DEF UpdateMinerRank
    <2>2. pc = "rank" /\ pc' = "rank"
      BY <1>2 DEF UpdateMinerRank
    <2>3. Cardinality(todo') = Cardinality(todo) - 1 /\ Cardinality(todo) \in Nat
      BY <1>1, <2>1, Counts
    <2> QED
      BY <2>2, <2>3 DEF StepsLeft
  <1>3. CASE ScoreNothing
    <2>1. PICK u \in todo : todo' = todo \ {u}
      BY <1>3 DEF ScoreNothing
    <2>2. pc = "score" /\ pc' = "score"
      BY <1>3 DEF ScoreNothing
    <2>3. Cardinality(todo') = Cardinality(todo) - 1 /\ Cardinality(todo) \in Nat
      BY <1>1, <2>1, Counts
    <2> QED
      BY <2>2, <2>3 DEF StepsLeft
  <1>4. CASE ScoreResponse
    <2>1. pc = "score" /\ pc' = "metadata" /\ UNCHANGED todo /\ Cardinality(todo) \in Nat
      BY <1>1, <1>4, Counts DEF ScoreResponse
    <2> QED
      BY <2>1 DEF StepsLeft
  <1>5. CASE store_miner_metadata
    <2>1. pc = "metadata" /\ pc' = "count" /\ UNCHANGED todo /\ Cardinality(todo) \in Nat
      BY <1>1, <1>5, Counts DEF store_miner_metadata, localVars
    <2> QED
      BY <2>1 DEF StepsLeft
  <1>6. CASE update_miner_challenges
    <2>1. PICK u \in todo : todo' = todo \ {u}
      BY <1>6 DEF update_miner_challenges
    <2>2. pc = "count" /\ pc' = "score"
      BY <1>6 DEF update_miner_challenges
    <2>3. Cardinality(todo') = Cardinality(todo) - 1 /\ Cardinality(todo) \in Nat
      BY <1>1, <2>1, Counts
    <2> QED
      BY <2>2, <2>3 DEF StepsLeft
  <1>7. CASE GetMapModules \/ GetAddresses \/ NotRegistered \/ StartChallenges \/ Gathered \/ Scored
    BY <1>7 DEF GetMapModules, GetAddresses, NotRegistered, StartChallenges, Gathered, Scored
  <1>8. CASE Setup \/ Create \/ ReadFile \/ ReadFails
    BY <1>8 DEF Setup, Create, ReadFile, ReadFails
  <1>9. CASE OpenFile \/ DumpWeights \/ Vote \/ Wake
    BY <1>9 DEF OpenFile, DumpWeights, Vote, Wake
  <1> QED
    BY <1>2, <1>3, <1>4, <1>5, <1>6, <1>7, <1>8, <1>9 DEF MainThread

PlaceKnown ==
    pc \in Over \cup {"modules", "addresses", "rank", "gather", "score", "metadata", "count",
                      "setup", "create", "read", "store", "dump", "vote"}

LEMMA NextPlace == ASSUME PlaceKnown, [Next]_vars PROVE PlaceKnown'
  <1> USE DEF PlaceKnown, Over, localVars, chainVars
  <1>1. CASE MainThread
    BY <1>1 DEF MainThread, GetMapModules, GetAddresses, NotRegistered, UpdateMinerRank,
                StartChallenges, Gathered, ScoreNothing, ScoreResponse, store_miner_metadata,
                update_miner_challenges, Scored, Setup, Create, ReadFile, ReadFails, OpenFile,
                DumpWeights, Vote, Wake
  <1>2. CASE \E u \in DOMAIN stage : Answered(u) \/ TaskFails(u)
    BY <1>2 DEF Answered, Discovered, AnsweredFundsFlow, AnsweredBalance, TaskFails, TaskMoves
  <1>3. CASE \E u \in Uids, k \in Keys : Register(u, k)
    BY <1>3 DEF Register
  <1>4. CASE Raise \/ SetWeightsRaises \/ Crash \/ Restart \/ OperatorRestart
    BY <1>4 DEF Raise, SetWeightsRaises, Crash, Restart, OperatorRestart, Started
  <1>5. CASE UNCHANGED vars
    BY <1>5 DEF vars
  <1> QED
    BY <1>1, <1>2, <1>3, <1>4, <1>5 DEF Next

(* An epoch has boundedly many steps, whatever its miners, its tables, its *)
(* file and the chain do: none of them sends it back, and none of them     *)
(* keeps it where it is. With a step always there to take (EpochsCanGoOn)  *)
(* it is over in the end.                                                  *)
THEOREM EpochsAreFinite == Spec => [](StepsLeft(pc, todo, stage) \in Nat) /\ EpochAdvances
  <1>1. Init => LoopInv /\ FileThere /\ FileKnown /\ CountInv /\ PlaceKnown
    BY InitCount DEF Init, LoopInv, FileThere, FileKnown, PlaceKnown
  <1>2. /\ TypeInv /\ IInv /\ CountInv /\ [Next]_vars => (TypeInv /\ IInv /\ CountInv)'
        /\ IInv /\ LoopInv /\ FileThere /\ FileKnown /\ [Next]_vars
             => (LoopInv /\ FileThere /\ FileKnown)'
    BY NextType, NextInv, NextCount, NextLoop
  <1>3. ASSUME TypeInv, IInv, LoopInv PROVE StepsLeft(pc, todo, stage) \in Nat
    <2>1. todo \in SUBSET Uids /\ Cardinality(todo) \in Nat
      BY <1>3, Counts DEF TypeInv, InfoType
    <2>2. pc \in {"metadata", "count"} => Cardinality(todo) # 0
      BY <1>3, <2>1, Counts DEF LoopInv
    <2>3. ASSUME NEW ps PROVE Cardinality(At(stage, ps)) \in Nat
      <3>1. At(stage, ps) \in SUBSET Uids
        BY <1>3 DEF At, IInv, StageInv, TypeInv, InfoType
      <3> QED
        BY <3>1, Counts
    <2> QED
      BY <2>1, <2>2, <2>3 DEF StepsLeft
  <1>4. ASSUME TypeInv, IInv, PlaceKnown, [Next]_vars
        PROVE  [pc \notin Over => UNCHANGED <<pc, todo, stage>> \/ Nearer]_vars
    <2> SUFFICES ASSUME vars' # vars, pc \notin Over
                 PROVE  UNCHANGED <<pc, todo, stage>> \/ Nearer
      OBVIOUS
    <2>1. CASE MainThread
      BY <1>4, <2>1, MainAdvances
    <2>2. CASE \E u \in DOMAIN stage : Answered(u) \/ TaskFails(u)
      <3>1. PICK u \in DOMAIN stage : Answered(u) \/ TaskFails(u)
        BY <2>2
      <3>2. \E s : TaskMoves(u, s)
        BY <1>4, <3>1, TaskOrdered
      <3>3. pc = "gather" /\ pc' = "gather" /\ UNCHANGED todo
        BY <3>2 DEF TaskMoves
      <3>4. StepsLeft("gather", todo, stage') < StepsLeft("gather", todo, stage)
        BY <1>4, <3>1, TaskAdvances
      <3> QED
        BY <3>3, <3>4 DEF Nearer, Place
    <2>3. CASE \E u \in Uids, k \in Keys : Register(u, k)
      BY <2>3 DEF Register, localVars
    <2>4. CASE Raise \/ SetWeightsRaises \/ Crash
      <3>1. pc' \in Over
        BY <2>4 DEF Raise, SetWeightsRaises, Crash, Over
      <3>2. Place(pc') = 0 /\ Place(pc) > 0
        BY <1>4, <3>1 DEF Place, Over, PlaceKnown
      <3> QED
        BY <3>2 DEF Nearer
    <2>5. CASE Restart \/ OperatorRestart
      BY <2>5 DEF Restart, OperatorRestart, Over
    <2> QED
      BY <1>4, <2>1, <2>2, <2>3, <2>4, <2>5 DEF Next
  <1> QED
    BY <1>1, <1>2, <1>3, <1>4, InitType, InitInv, NextPlace, PTL DEF Spec, EpochAdvances
=============================================================================
