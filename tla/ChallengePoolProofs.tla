------------------------ MODULE ChallengePoolProofs ------------------------
(***************************************************************************)
(* The pools never outgrow the threshold and never hold a bitcoin answer   *)
(* the chain may still take back, for every threshold, margin and chain.   *)
(***************************************************************************)
EXTENDS ChallengePool, FiniteSetTheorems, TLAPS

(* A transaction or a balance the chain has, deep enough to keep it.       *)
Settled(h) == h <= tip["bitcoin"] - Confirmations

FfSafe(r) == r.net = "bitcoin" => Settled(r.height) /\ fork["bitcoin"][r.height] = r.fork

BtSafe(r) == r.net = "bitcoin" => Settled(r.height) /\ fork["bitcoin"][r.height] = r.ans

Pending == pc \in {"count", "delete", "store"}

FfCand == [net : Networks, height : Heights, fork : Forks]
BtCand == [key : Int, net : Networks, height : Heights, ans : Forks]

(* Whatever is under way has the shape of its pool and is as safe as what  *)
(* is stored.                                                              *)
CandInv ==
    Pending => /\ kind = "ff" => cand \in FfCand /\ FfSafe(cand)
               /\ kind = "bt" => cand \in BtCand /\ BtSafe(cand)
               /\ cand.net = net

LastInv == pc = "create" /\ net = "bitcoin" => last <= tip["bitcoin"] - Confirmations

RowsInv == (\A r \in ff : FfSafe(r)) /\ (\A r \in bt : BtSafe(r))

HeldInv == held # NoRow => IF task = "ff" THEN FfSafe(held) ELSE BtSafe(held)

RoomInv == pc = "store" => get_challenge_count(Pool, net) < Threshold

IInv == TypeOK /\ CandInv /\ LastInv /\ RowsInv /\ HeldInv /\ RoomInv /\ ThresholdBound

-----------------------------------------------------------------------------
(* Counting rows. *)

LEMMA OfFinite ==
    ASSUME NEW T, IsFiniteSet(T), NEW n
    PROVE  IsFiniteSet(Of(T, n)) /\ get_challenge_count(T, n) \in Nat
  <1>1. IsFiniteSet(Of(T, n))
    BY FS_Subset DEF Of
  <1> QED
    BY <1>1, FS_CardinalityType DEF get_challenge_count

(* A smaller table counts no more rows.                                    *)
LEMMA CountSubset ==
    ASSUME NEW T, IsFiniteSet(T), NEW S, S \subseteq T, NEW n
    PROVE  get_challenge_count(S, n) <= get_challenge_count(T, n)
  <1>1. Of(S, n) \subseteq Of(T, n)
    BY DEF Of
  <1> QED
    BY <1>1, OfFinite, FS_Subset DEF get_challenge_count

(* Deleting a row of the network makes room for one.                       *)
LEMMA CountRemove ==
    ASSUME NEW T, IsFiniteSet(T), NEW n, NEW r \in Of(T, n)
    PROVE  get_challenge_count(T \ {r}, n) = get_challenge_count(T, n) - 1
  <1>1. Of(T \ {r}, n) = Of(T, n) \ {r}
    BY DEF Of
  <1> QED
    BY <1>1, OfFinite, FS_RemoveElement DEF get_challenge_count

(* A stored row adds one to its network and nothing to the others.         *)
LEMMA CountAdd ==
    ASSUME NEW T, IsFiniteSet(T), NEW x, NEW n
    PROVE  /\ IsFiniteSet(T \cup {x})
           /\ get_challenge_count(T \cup {x}, n) <= get_challenge_count(T, n) + 1
           /\ x.net # n => get_challenge_count(T \cup {x}, n) = get_challenge_count(T, n)
  <1>1. IsFiniteSet(T \cup {x})
    BY FS_AddElement
  <1>2. CASE x.net # n
    <2>1. Of(T \cup {x}, n) = Of(T, n)
      BY <1>2 DEF Of
    <2> QED
      BY <1>1, <1>2, <2>1, OfFinite DEF get_challenge_count
  <1>3. CASE x.net = n
    <2>1. Of(T \cup {x}, n) = Of(T, n) \cup {x}
      BY <1>3 DEF Of
    <2>2. Cardinality(Of(T, n) \cup {x}) <= Cardinality(Of(T, n)) + 1
      BY OfFinite, FS_AddElement, FS_CardinalityType
    <2> QED
      BY <1>1, <1>3, <2>1, <2>2 DEF get_challenge_count
  <1> QED
    BY <1>2, <1>3

-----------------------------------------------------------------------------
(* The invariant. *)

LEMMA InitInv == Init => IInv
  <1> SUFFICES ASSUME Init PROVE IInv
    OBVIOUS
  <1> USE ConstantsAssumption DEF Init
  <1>1. TypeOK
    <2>1. fork \in [Networks -> [Heights -> Forks]] /\ tip \in [Networks -> Heights]
      BY DEF Forks
    <2>2. ff \in SUBSET FfRow /\ IsFiniteSet(ff) /\ bt \in SUBSET BtRow /\ IsFiniteSet(bt)
      BY FS_EmptySet
    <2>3. /\ clock \in 0..MaxClock /\ last \in Int
          /\ cand = NoRow /\ held = NoRow
          /\ net \in Networks /\ pc = "height" /\ kind = "ff" /\ task = "ff" /\ terminate = FALSE
      BY DEF Networks
    <2> HIDE DEF Init
    <2> QED
      BY <2>1, <2>2, <2>3 DEF TypeOK
  <1>2. ThresholdBound
    <2> SUFFICES ASSUME NEW n \in Networks
                 PROVE  get_challenge_count({}, n) <= Threshold
      BY DEF ThresholdBound
    <2>1. Of({}, n) = {}
      BY DEF Of
    <2> QED
      BY <2>1, FS_EmptySet DEF get_challenge_count
  <1> QED
    BY <1>1, <1>2 DEF IInv, CandInv, LastInv, RowsInv, HeldInv, RoomInv, Pending

(* Reorganisations reach no block the generator may use.                   *)
LEMMA ChainsInv ==
    ASSUME IInv, NEW n \in Networks, Grow(n) \/ Reorg(n)
    PROVE  IInv'
  <1> USE ConstantsAssumption DEF tableVars, genVars, jobVars
  <1>1. /\ tip' \in [Networks -> Heights] /\ fork' \in [Networks -> [Heights -> Forks]]
        /\ tip["bitcoin"] <= tip'["bitcoin"]
        /\ \A h \in Heights : Settled(h) => fork'["bitcoin"][h] = fork["bitcoin"][h]
    <2>1. CASE Grow(n)
      BY <2>1 DEF Grow, IInv, TypeOK, Heights, Networks
    <2>2. CASE Reorg(n)
      <3>1. PICK d \in 1..MaxReorg :
               /\ d <= tip[n]
               /\ \A h \in (tip[n] - d + 1)..tip[n] : fork[n][h] < MaxFork
               /\ fork' = [fork EXCEPT ![n] =
                     [h \in Heights |-> IF h > tip[n] - d /\ h <= tip[n]
                                        THEN fork[n][h] + 1 ELSE fork[n][h]]]
        BY <2>2 DEF Reorg
      <3>2. /\ tip \in [Networks -> Heights] /\ fork \in [Networks -> [Heights -> Forks]]
            /\ tip[n] < MaxHeight /\ tip' = [tip EXCEPT ![n] = @ + 1]
        BY <2>2 DEF Reorg, IInv, TypeOK
      <3>3. tip' \in [Networks -> Heights] /\ tip["bitcoin"] <= tip'["bitcoin"]
        BY <3>2 DEF Heights, Networks
      <3>4. \A h \in Heights :
               (IF h > tip[n] - d /\ h <= tip[n] THEN fork[n][h] + 1 ELSE fork[n][h]) \in Forks
        <4> SUFFICES ASSUME NEW h \in Heights
                     PROVE  (IF h > tip[n] - d /\ h <= tip[n]
                             THEN fork[n][h] + 1 ELSE fork[n][h]) \in Forks
          OBVIOUS
        <4>1. fork[n][h] \in Forks /\ tip[n] \in Int /\ h \in Int /\ d \in Int
          BY <3>2 DEF Heights
        <4>2. CASE h > tip[n] - d /\ h <= tip[n]
          <5>1. fork[n][h] < MaxFork
            BY <3>1, <4>1, <4>2
          <5> QED
            BY <4>1, <4>2, <5>1 DEF Forks
        <4>3. CASE ~(h > tip[n] - d /\ h <= tip[n])
          BY <4>1, <4>3
        <4> QED
          BY <4>2, <4>3
      <3>5. fork' \in [Networks -> [Heights -> Forks]]
        BY <3>1, <3>2, <3>4
      <3>6. ASSUME NEW h \in Heights, Settled(h)
            PROVE  fork'["bitcoin"][h] = fork["bitcoin"][h]
        <4>1. CASE n = "bitcoin"
          BY <3>1, <3>2, <3>6, <4>1 DEF Settled, Heights
        <4>2. CASE n # "bitcoin"
          BY <3>1, <3>2, <4>2 DEF Networks
        <4> QED
          BY <4>1, <4>2
      <3> QED
        BY <3>3, <3>5, <3>6
    <2> QED
      BY <2>1, <2>2
  <1>2. UNCHANGED <<tableVars, genVars, terminate, jobVars>>
    BY DEF Grow, Reorg
  <1>3. \A r : /\ r.height \in Heights /\ FfSafe(r) => FfSafe(r)'
               /\ r.height \in Heights /\ BtSafe(r) => BtSafe(r)'
    BY <1>1 DEF IInv, TypeOK, FfSafe, BtSafe, Settled, Heights, Networks
  <1>4. TypeOK'
    BY <1>1, <1>2 DEF IInv, TypeOK
  <1>5. CandInv'
    BY <1>2, <1>3 DEF IInv, CandInv, Pending, FfCand, BtCand
  <1>6. LastInv'
    BY <1>1, <1>2 DEF IInv, TypeOK, LastInv, Heights, Networks
  <1>7. RowsInv'
    BY <1>2, <1>3 DEF IInv, TypeOK, RowsInv, FfRow, BtRow
  <1>8. HeldInv'
    BY <1>2, <1>3 DEF IInv, TypeOK, HeldInv, FfRow, BtRow, Of
  <1>9. RoomInv' /\ ThresholdBound'
    BY <1>2 DEF IInv, RoomInv, ThresholdBound, Pool, get_challenge_count, Of
  <1> QED
    BY <1>4, <1>5, <1>6, <1>7, <1>8, <1>9 DEF IInv

(* What a step that leaves chains and tables alone still has to show.      *)
QuietStep == UNCHANGED <<chainVars, tableVars>>

LEMMA QuietInv ==
    ASSUME IInv, QuietStep, TypeOK', CandInv', LastInv', HeldInv', RoomInv'
    PROVE  IInv'
  <1>1. RowsInv'
    BY DEF IInv, QuietStep, chainVars, tableVars, RowsInv, FfSafe, BtSafe, Settled
  <1>2. ThresholdBound'
    BY DEF IInv, QuietStep, tableVars, ThresholdBound, get_challenge_count, Of
  <1> QED
    BY <1>1, <1>2 DEF IInv

(* A task that ends leaves nothing pending.                                *)
LEMMA TaskEnds ==
    ASSUME IInv, Forget, QuietStep, UNCHANGED <<terminate, jobVars>>,
           pc' \in {"height", "sleep", "dead", "stopped"},
           net' \in Networks, kind' \in {"ff", "bt"}
    PROVE  IInv'
  <1>1. TypeOK'
    BY DEF IInv, TypeOK, Forget, QuietStep, chainVars, tableVars, jobVars
  <1>2. CandInv' /\ LastInv' /\ RoomInv'
    BY DEF CandInv, Pending, LastInv, RoomInv
  <1>3. HeldInv'
    BY DEF IInv, HeldInv, QuietStep, chainVars, jobVars, FfSafe, BtSafe, Settled
  <1> QED
    BY <1>1, <1>2, <1>3, QuietInv

LEMMA EndOfTaskInv ==
    ASSUME IInv, CreateNothing \/ Timeout \/ Failure \/ Sleep
    PROVE  IInv'
  <1>1. CASE CreateNothing
    BY <1>1, TaskEnds DEF CreateNothing, NextTask, NextNetwork, QuietStep, IInv, TypeOK, Networks
  <1>2. CASE Timeout
    BY <1>2, TaskEnds DEF Timeout, NextNetwork, QuietStep, IInv, TypeOK, Networks
  <1>3. CASE Failure
    BY <1>3, TaskEnds DEF Failure, QuietStep, IInv, TypeOK
  <1>4. CASE Sleep
    <2>1. /\ QuietStep /\ UNCHANGED <<terminate, jobVars, net, kind, last, cand>>
          /\ pc' \in {"height", "stopped"}
      BY <1>4 DEF Sleep, QuietStep
    <2>2. TypeOK'
      BY <2>1 DEF IInv, TypeOK, QuietStep, chainVars, tableVars, jobVars
    <2>3. CandInv' /\ LastInv' /\ RoomInv'
      BY <2>1 DEF CandInv, Pending, LastInv, RoomInv
    <2>4. HeldInv'
      BY <2>1 DEF IInv, HeldInv, QuietStep, chainVars, jobVars, FfSafe, BtSafe, Settled
    <2> QED
      BY <2>1, <2>2, <2>3, <2>4, QuietInv
  <1> QED
    BY <1>1, <1>2, <1>3, <1>4

LEMMA ReadHeightInv == ASSUME IInv, ReadHeight PROVE IInv'
  <1>1. /\ QuietStep /\ UNCHANGED <<net, kind, cand, terminate, jobVars>>
        /\ \/ pc' = "stopped" /\ last' = last
           \/ pc' = "create" /\ last' = LastBlock(net)
    BY DEF ReadHeight, QuietStep
  <1>2. tip[net] \in Int /\ LastBlock(net) \in Int
    BY ConstantsAssumption DEF IInv, TypeOK, LastBlock, Heights
  <1>3. TypeOK'
    BY <1>1, <1>2 DEF IInv, TypeOK, QuietStep, chainVars, tableVars, jobVars
  <1>4. CandInv' /\ RoomInv'
    BY <1>1 DEF CandInv, Pending, RoomInv
  <1>5. LastInv'
    BY <1>1, <1>2, ConstantsAssumption DEF LastInv, LastBlock, QuietStep, chainVars
  <1>6. HeldInv'
    BY <1>1 DEF IInv, HeldInv, QuietStep, chainVars, jobVars, FfSafe, BtSafe, Settled
  <1> QED
    BY <1>1, <1>3, <1>4, <1>5, <1>6, QuietInv

LEMMA CreateChallengeInv == ASSUME IInv, CreateChallenge PROVE IInv'
  <1>1. PICK h \in Heights :
           /\ h <= last
           /\ cand' = IF kind = "ff"
                      THEN [net |-> net, height |-> h, fork |-> fork[net][h]]
                      ELSE [key |-> KeyOf(h), net |-> net, height |-> h,
                            ans |-> Balance(net, h)]
    BY DEF CreateChallenge
  <1>2. /\ QuietStep /\ UNCHANGED <<net, kind, last, terminate, jobVars>>
        /\ pc = "create" /\ pc' = "count"
    BY DEF CreateChallenge, QuietStep
  <1>3. /\ KeyOf(h) \in Int /\ fork[net][h] \in Forks /\ Balance(net, h) \in Forks
        /\ h \in Int /\ tip["bitcoin"] \in Int
    <2>1. /\ tip \in [Networks -> Heights] /\ fork \in [Networks -> [Heights -> Forks]]
          /\ net \in Networks /\ last \in Int
      BY DEF IInv, TypeOK
    <2>2. h \in Int /\ tip["bitcoin"] \in Int
      BY <2>1 DEF Heights, Networks
    <2>3. fork[net][h] \in Forks
      BY <2>1
    <2>4. 0 \in Forks
      BY ConstantsAssumption DEF Forks
    <2> QED
      BY <2>1, <2>2, <2>3, <2>4 DEF KeyOf, Balance
  <1>4. /\ kind = "ff" => cand' \in FfCand
        /\ kind = "bt" => cand' \in BtCand
        /\ cand'.net = net
    BY <1>1, <1>3 DEF IInv, TypeOK, FfCand, BtCand
  <1>5. net = "bitcoin" => h <= tip["bitcoin"] - Confirmations
    BY <1>1, <1>2, <1>3, ConstantsAssumption DEF IInv, TypeOK, LastInv
  <1>6. TypeOK'
    <2>1. cand' \in {NoRow} \cup [net : Networks, height : Heights, fork : Forks]
                     \cup [key : Int, net : Networks, height : Heights, ans : Forks]
      BY <1>4 DEF FfCand, BtCand, IInv, TypeOK
    <2> QED
      BY <1>2, <2>1 DEF IInv, TypeOK, QuietStep, chainVars, tableVars, jobVars
  <1>7. CandInv'
    <2>1. kind = "ff" => FfSafe(cand)'
      BY <1>1, <1>2, <1>5 DEF FfSafe, Settled, QuietStep, chainVars
    <2>2. kind = "bt" => BtSafe(cand)'
      BY <1>1, <1>2, <1>5 DEF BtSafe, Settled, Balance, QuietStep, chainVars, IInv, TypeOK
    <2> QED
      BY <1>2, <1>4, <2>1, <2>2 DEF CandInv, FfCand, BtCand
  <1>8. LastInv' /\ RoomInv'
    BY <1>2 DEF LastInv, RoomInv
  <1>9. HeldInv'
    BY <1>2 DEF IInv, HeldInv, QuietStep, chainVars, jobVars, FfSafe, BtSafe, Settled
  <1> QED
    BY <1>2, <1>6, <1>7, <1>8, <1>9, QuietInv

(* The count is still true when the step that needs it comes: no other     *)
(* step writes the pool.                                                   *)
LEMMA CountChallengesInv == ASSUME IInv, CountChallenges PROVE IInv'
  <1>1. /\ QuietStep /\ UNCHANGED <<net, kind, last, cand, terminate, jobVars>>
        /\ pc = "count" /\ pc' = IF Full THEN "delete" ELSE "store"
    BY DEF CountChallenges, QuietStep
  <1>2. IsFiniteSet(Pool)
    BY DEF IInv, TypeOK, Pool
  <1>3. get_challenge_count(Pool, net) \in Nat
    BY <1>2, OfFinite
  <1>4. TypeOK'
    BY <1>1 DEF IInv, TypeOK, QuietStep, chainVars, tableVars, jobVars
  <1>5. CandInv'
    BY <1>1 DEF IInv, CandInv, Pending, QuietStep, chainVars, FfSafe, BtSafe, Settled
  <1>6. LastInv'
    BY <1>1 DEF LastInv
  <1>7. RoomInv'
    <2>1. Pool' = Pool
      BY <1>1 DEF Pool, QuietStep, tableVars
    <2>2. pc' = "store" => ~Full
      BY <1>1
    <2> QED
      BY <1>1, <1>3, <2>1, <2>2, ConstantsAssumption DEF RoomInv, Full, get_challenge_count, Of
  <1>8. HeldInv'
    BY <1>1 DEF IInv, HeldInv, QuietStep, chainVars, jobVars, FfSafe, BtSafe, Settled
  <1> QED
    BY <1>1, <1>4, <1>5, <1>6, <1>7, <1>8, QuietInv

(* The validator's task and the operator touch neither chains nor tables.  *)
LEMMA ValidatorInv ==
    ASSUME IInv, ReadFundsFlow \/ ReadBalance \/ Answered \/ Abandoned \/ Shutdown
    PROVE  IInv'
  <1>1. /\ QuietStep /\ UNCHANGED genVars
        /\ terminate' \in BOOLEAN
    BY DEF ReadFundsFlow, ReadBalance, Answered, Abandoned, Shutdown,
           get_random_challenge, QuietStep, IInv, TypeOK
  <1>2. /\ task' \in {"ff", "bt"}
        /\ \/ held' = NoRow
           \/ held' = held /\ task' = task
           \/ held' \in Of(ff, "bitcoin") /\ task' = "ff"
           \/ held' \in Of(bt, "bitcoin") /\ task' = "bt"
    BY DEF ReadFundsFlow, ReadBalance, Answered, Abandoned, Shutdown,
           get_random_challenge, IInv, TypeOK, jobVars
  <1>3. Of(ff, "bitcoin") \subseteq Of(FfRow, "bitcoin")
        /\ Of(bt, "bitcoin") \subseteq Of(BtRow, "bitcoin")
    BY DEF IInv, TypeOK, Of
  <1>4. held' = NoRow \/ held' \in Of(IF task' = "ff" THEN FfRow ELSE BtRow, "bitcoin")
    BY <1>2, <1>3 DEF IInv, TypeOK
  <1>5. TypeOK'
    BY <1>1, <1>2, <1>4 DEF IInv, TypeOK, QuietStep, chainVars, tableVars, genVars, Of, FfRow, BtRow
  <1>6. CandInv' /\ LastInv'
    BY <1>1 DEF IInv, CandInv, LastInv, Pending, QuietStep, chainVars, genVars, FfSafe, BtSafe, Settled
  <1>7. RoomInv'
    BY <1>1 DEF IInv, RoomInv, Pool, QuietStep, tableVars, genVars, get_challenge_count, Of
  <1>8. HeldInv'
    <2>1. (\A r \in ff : FfSafe(r)') /\ (\A r \in bt : BtSafe(r)')
      BY <1>1 DEF IInv, RowsInv, QuietStep, chainVars, FfSafe, BtSafe, Settled
    <2>2. \A r : (FfSafe(r) => FfSafe(r)') /\ (BtSafe(r) => BtSafe(r)')
      BY <1>1 DEF QuietStep, chainVars, FfSafe, BtSafe, Settled
    <2>3. CASE held' = NoRow
      BY <2>3 DEF HeldInv
    <2>4. CASE held' = held /\ task' = task
      BY <2>2, <2>4 DEF IInv, HeldInv
    <2>5. CASE held' \in Of(ff, "bitcoin") /\ task' = "ff"
      <3>1. \A r \in Of(ff, "bitcoin") : FfSafe(r)'
        BY <2>1 DEF Of
      <3> QED
        BY <2>5, <3>1 DEF HeldInv
    <2>6. CASE held' \in Of(bt, "bitcoin") /\ task' = "bt"
      <3>1. \A r \in Of(bt, "bitcoin") : BtSafe(r)'
        BY <2>1 DEF Of
      <3> QED
        BY <2>6, <3>1 DEF HeldInv
    <2> QED
      BY <1>2, <2>3, <2>4, <2>5, <2>6
  <1> QED
    BY <1>1, <1>5, <1>6, <1>7, <1>8, QuietInv

LEMMA RestartInv == ASSUME IInv, Restart PROVE IInv'
  <1>1. /\ QuietStep /\ pc' = "height" /\ net' = "commune" /\ kind' = "ff"
        /\ last' = 0 /\ cand' = NoRow /\ terminate' = FALSE
        /\ task' = "ff" /\ held' = NoRow
    BY DEF Restart, QuietStep
  <1>2. TypeOK'
    <2>1. net' \in Networks /\ terminate' \in BOOLEAN
      BY <1>1 DEF Networks
    <2>2. /\ tip' = tip /\ fork' = fork /\ ff' = ff /\ bt' = bt /\ clock' = clock
          /\ last' \in Int
      BY <1>1 DEF QuietStep, chainVars, tableVars
    <2> QED
      BY <1>1, <2>1, <2>2 DEF IInv, TypeOK
  <1>3. CandInv' /\ LastInv' /\ RoomInv' /\ HeldInv'
    BY <1>1 DEF CandInv, Pending, LastInv, RoomInv, HeldInv
  <1> QED
    BY <1>1, <1>2, <1>3, QuietInv

(* Deleting makes the room the store needs.                                *)
LEMMA DeleteInv == ASSUME IInv, try_delete_oldest_challenge PROVE IInv'
  <1>1. /\ UNCHANGED <<chainVars, clock, net, kind, last, cand, terminate, jobVars>>
        /\ pc = "delete" /\ pc' = "store"
    BY DEF try_delete_oldest_challenge
  <1>2. /\ IsFiniteSet(Pool) /\ IsFiniteSet(ff) /\ IsFiniteSet(bt)
        /\ net \in Networks /\ kind \in {"ff", "bt"}
        /\ get_challenge_count(Pool, net) <= Threshold
    BY DEF IInv, TypeOK, Pool, ThresholdBound
  <1>3. /\ ff' \subseteq ff /\ bt' \subseteq bt
        /\ get_challenge_count(Pool', net) < Threshold
    <2>1. CASE Of(Pool, net) = {} /\ UNCHANGED <<ff, bt>>
      <3>1. get_challenge_count(Pool, net) = 0
        BY <2>1, FS_EmptySet DEF get_challenge_count
      <3>2. Pool' = Pool
        BY <1>1, <2>1 DEF Pool
      <3> QED
        BY <2>1, <3>1, <3>2, ConstantsAssumption
    <2>2. CASE \E r \in Oldest(Pool, net) : SetPool(Pool \ {r})
      <3>1. PICK r \in Oldest(Pool, net) : SetPool(Pool \ {r})
        BY <2>2
      <3>2. r \in Of(Pool, net)
        BY DEF Oldest
      <3>3. get_challenge_count(Pool \ {r}, net) = get_challenge_count(Pool, net) - 1
        BY <1>2, <3>2, CountRemove
      <3>4. Pool' = Pool \ {r} /\ ff' \subseteq ff /\ bt' \subseteq bt
        BY <1>1, <3>1 DEF SetPool, Pool
      <3>5. get_challenge_count(Pool, net) \in Nat
        BY <1>2, OfFinite
      <3> QED
        BY <1>2, <3>3, <3>4, <3>5, ConstantsAssumption
    <2> QED
      BY <2>1, <2>2 DEF try_delete_oldest_challenge
  <1>4. IsFiniteSet(ff') /\ IsFiniteSet(bt')
    BY <1>2, <1>3, FS_Subset
  <1>5. TypeOK'
    <2>1. ff' \in SUBSET FfRow /\ bt' \in SUBSET BtRow
      BY <1>3 DEF IInv, TypeOK
    <2> QED
      BY <1>1, <1>4, <2>1 DEF IInv, TypeOK, chainVars, jobVars
  <1>6. CandInv' /\ LastInv'
    BY <1>1 DEF IInv, CandInv, LastInv, Pending, chainVars, FfSafe, BtSafe, Settled
  <1>7. RowsInv'
    BY <1>1, <1>3 DEF IInv, RowsInv, chainVars, FfSafe, BtSafe, Settled
  <1>8. HeldInv'
    BY <1>1 DEF IInv, HeldInv, chainVars, jobVars, FfSafe, BtSafe, Settled
  <1>9. RoomInv'
    BY <1>1, <1>3 DEF RoomInv, get_challenge_count, Of
  <1>10. ThresholdBound'
    <2> SUFFICES ASSUME NEW n \in Networks
                 PROVE  /\ get_challenge_count(ff', n) <= Threshold
                        /\ get_challenge_count(bt', n) <= Threshold
      BY DEF ThresholdBound, get_challenge_count, Of
    <2>1. /\ get_challenge_count(ff', n) <= get_challenge_count(ff, n)
          /\ get_challenge_count(bt', n) <= get_challenge_count(bt, n)
      BY <1>2, <1>3, CountSubset
    <2>2. /\ get_challenge_count(ff, n) <= Threshold /\ get_challenge_count(bt, n) <= Threshold
          /\ get_challenge_count(ff, n) \in Nat /\ get_challenge_count(bt, n) \in Nat
          /\ get_challenge_count(ff', n) \in Nat /\ get_challenge_count(bt', n) \in Nat
      BY <1>2, <1>4, OfFinite DEF IInv, ThresholdBound
    <2> QED
      BY <2>1, <2>2, ConstantsAssumption
  <1> QED
    BY <1>5, <1>6, <1>7, <1>8, <1>9, <1>10 DEF IInv

(* One row more in the pool of the network that has room, at most; a row   *)
(* the upsert takes from the other network only lowers that one's count.   *)
LEMMA StoreInv == ASSUME IInv, store_challenge PROVE IInv'
  <1>1. /\ UNCHANGED <<chainVars, terminate, jobVars>>
        /\ pc = "store" /\ clock < MaxClock /\ clock' = clock + 1
        /\ Forget /\ SetPool(Kept \cup Stored)
        /\ pc' \in {"height", "sleep", "stopped"}
        /\ net' \in Networks /\ kind' \in {"ff", "bt"}
    BY DEF store_challenge, NextTask, NextNetwork, IInv, TypeOK, Networks
  <1>2. /\ IsFiniteSet(Pool) /\ IsFiniteSet(ff) /\ IsFiniteSet(bt)
        /\ net \in Networks /\ kind \in {"ff", "bt"}
        /\ ff \in SUBSET FfRow /\ bt \in SUBSET BtRow
        /\ clock \in 0..MaxClock /\ MaxClock \in Nat
    BY ConstantsAssumption DEF IInv, TypeOK, Pool
  <1>3. /\ kind = "ff" => cand \in FfCand /\ FfSafe(cand)
        /\ kind = "bt" => cand \in BtCand /\ BtSafe(cand)
        /\ cand.net = net
    BY <1>1 DEF IInv, CandInv, Pending
  <1>4. PICK x : /\ Stored = {x} /\ x.net = net
                 /\ kind = "ff" => x \in FfRow /\ FfSafe(x)
                 /\ kind = "bt" => x \in BtRow /\ BtSafe(x)
    <2>1. CASE kind = "ff"
      <3> DEFINE x == [net |-> cand.net, height |-> cand.height, fork |-> cand.fork,
                       at |-> clock + 1]
      <3>1. Stored = {x}
        BY <2>1 DEF Stored
      <3>2. x \in FfRow /\ FfSafe(x) /\ x.net = net
        BY <1>2, <1>3, <2>1 DEF FfCand, FfRow, FfSafe, Settled
      <3> QED
        BY <2>1, <3>1, <3>2
    <2>2. CASE kind = "bt"
      <3> DEFINE x == [key |-> cand.key, net |-> cand.net, height |-> cand.height,
                       ans |-> cand.ans, at |-> clock + 1]
      <3>1. Stored = {x}
        BY <2>2 DEF Stored
      <3>2. x \in BtRow /\ BtSafe(x) /\ x.net = net
        BY <1>2, <1>3, <2>2 DEF BtCand, BtRow, BtSafe, Settled
      <3> QED
        BY <2>2, <3>1, <3>2
    <2> QED
      BY <1>2, <2>1, <2>2
  <1>5. Kept \subseteq Pool /\ IsFiniteSet(Kept)
    <2>1. Kept \subseteq Pool
      BY <1>2 DEF Kept, Pool
    <2> QED
      BY <1>2, <2>1, FS_Subset
  <1>6. /\ kind = "ff" => ff' = Kept \cup {x} /\ bt' = bt
        /\ kind = "bt" => bt' = Kept \cup {x} /\ ff' = ff
    BY <1>1, <1>4 DEF SetPool
  <1>7. IsFiniteSet(Kept \cup {x})
    BY <1>5, CountAdd
  <1>8. TypeOK'
    <2>1. clock' \in 0..MaxClock
      BY <1>1, <1>2
    <2>2. ff' \in SUBSET FfRow /\ IsFiniteSet(ff') /\ bt' \in SUBSET BtRow /\ IsFiniteSet(bt')
      BY <1>2, <1>4, <1>5, <1>6, <1>7 DEF Pool
    <2> QED
      BY <1>1, <2>1, <2>2 DEF IInv, TypeOK, Forget, chainVars, jobVars
  <1>9. CandInv' /\ LastInv' /\ RoomInv'
    BY <1>1 DEF CandInv, Pending, LastInv, RoomInv
  <1>10. RowsInv'
    <2>1. \A r : (FfSafe(r) => FfSafe(r)') /\ (BtSafe(r) => BtSafe(r)')
      BY <1>1 DEF chainVars, FfSafe, BtSafe, Settled
    <2> QED
      BY <1>2, <1>4, <1>5, <1>6, <2>1 DEF IInv, RowsInv, Pool
  <1>11. HeldInv'
    BY <1>1 DEF IInv, HeldInv, chainVars, jobVars, FfSafe, BtSafe, Settled
  <1>12. ThresholdBound'
    <2> SUFFICES ASSUME NEW n \in Networks
                 PROVE  /\ get_challenge_count(ff', n) <= Threshold
                        /\ get_challenge_count(bt', n) <= Threshold
      BY DEF ThresholdBound, get_challenge_count, Of
    <2>1. /\ get_challenge_count(ff, n) <= Threshold /\ get_challenge_count(bt, n) <= Threshold
          /\ get_challenge_count(Pool, n) <= Threshold
      BY <1>2 DEF IInv, ThresholdBound, Pool
    <2>2. get_challenge_count(Pool, net) < Threshold
      BY <1>1 DEF IInv, RoomInv
    <2>3. /\ get_challenge_count(Kept, n) <= get_challenge_count(Pool, n)
          /\ get_challenge_count(Kept, n) \in Nat /\ get_challenge_count(Pool, n) \in Nat
          /\ get_challenge_count(Kept \cup {x}, n) \in Nat
      BY <1>2, <1>5, <1>7, CountSubset, OfFinite
    <2>4. /\ get_challenge_count(Kept \cup {x}, n) <= get_challenge_count(Kept, n) + 1
          /\ net # n => get_challenge_count(Kept \cup {x}, n) = get_challenge_count(Kept, n)
      BY <1>4, <1>5, CountAdd
    <2>5. get_challenge_count(Kept \cup {x}, n) <= Threshold
      <3>1. CASE n = net
        BY <2>2, <2>3, <2>4, <3>1, ConstantsAssumption
      <3>2. CASE n # net
        BY <2>1, <2>3, <2>4, <3>2, ConstantsAssumption
      <3> QED
        BY <3>1, <3>2
    <2> QED
      BY <1>2, <1>6, <2>1, <2>5
  <1> QED
    BY <1>8, <1>9, <1>10, <1>11, <1>12 DEF IInv

LEMMA NextInv == IInv /\ [Next]_vars => IInv'
  <1> SUFFICES ASSUME IInv, [Next]_vars PROVE IInv'
    OBVIOUS
  <1>1. ASSUME NEW n \in Networks, Grow(n) \/ Reorg(n) PROVE IInv'
    BY <1>1, ChainsInv
  <1>2. CASE ReadHeight
    BY <1>2, ReadHeightInv
  <1>3. CASE CreateChallenge
    BY <1>3, CreateChallengeInv
  <1>4. CASE CreateNothing \/ Timeout \/ Failure \/ Sleep
    BY <1>4, EndOfTaskInv
  <1>5. CASE CountChallenges
    BY <1>5, CountChallengesInv
  <1>6. CASE try_delete_oldest_challenge
    BY <1>6, DeleteInv
  <1>7. CASE store_challenge
    BY <1>7, StoreInv
  <1>8. CASE ReadFundsFlow \/ ReadBalance \/ Answered \/ Abandoned \/ Shutdown
    BY <1>8, ValidatorInv
  <1>9. CASE Restart
    BY <1>9, RestartInv
  <1>10. CASE UNCHANGED vars
    <2>1. QuietStep /\ UNCHANGED <<genVars, terminate, jobVars>>
      BY <1>10 DEF vars, QuietStep
    <2>2. TypeOK'
      BY <2>1 DEF IInv, TypeOK, QuietStep, chainVars, tableVars, genVars, jobVars
    <2>3. CandInv' /\ LastInv' /\ HeldInv'
      BY <2>1 DEF IInv, CandInv, Pending, LastInv, HeldInv, QuietStep, chainVars, genVars,
         jobVars, FfSafe, BtSafe, Settled
    <2>4. RoomInv'
      BY <2>1 DEF IInv, RoomInv, Pool, QuietStep, tableVars, genVars, get_challenge_count, Of
    <2> QED
      BY <2>1, <2>2, <2>3, <2>4, QuietInv
  <1> QED
    BY <1>1, <1>2, <1>3, <1>4, <1>5, <1>6, <1>7, <1>8, <1>9, <1>10 DEF Next

-----------------------------------------------------------------------------
(* Every behaviour of the pools stays within the types and the invariant.  *)
THEOREM Invariance == Spec => []IInv
  BY InitInv, NextInv, PTL DEF Spec

(* Every variable keeps its type, whatever the steps of chains, generator, *)
(* validator and operator.                                                 *)
THEOREM TypeCorrect == Spec => []TypeOK
  BY Invariance, PTL DEF IInv

(* For every threshold, neither table holds more than CHALLENGE_THRESHOLD  *)
(* challenges of a network, whatever crashes between count and store.      *)
THEOREM PoolsBounded == Spec => []ThresholdBound
  BY Invariance, PTL DEF IInv

(* For every margin and every chain that reorganises no deeper, the answer *)
(* a bitcoin miner is judged by is the one its chain gives.                *)
THEOREM HonestPasses == Spec => []HonestMinerPasses
  <1>1. IInv => HonestMinerPasses
    <2> SUFFICES ASSUME IInv, held # NoRow
                 PROVE  /\ task = "ff" => OnChain("bitcoin", held.height, held.fork)
                        /\ task = "bt" => /\ held.height <= tip["bitcoin"]
                                          /\ held.ans = Balance("bitcoin", held.height)
      BY DEF HonestMinerPasses
    <2>1. tip["bitcoin"] \in Nat /\ Confirmations \in Nat
      BY ConstantsAssumption DEF IInv, TypeOK, Heights, Networks
    <2>2. held.net = "bitcoin" /\ held.height \in Nat
      BY ConstantsAssumption DEF IInv, TypeOK, Of, FfRow, BtRow, Heights
    <2> QED
      BY <2>1, <2>2 DEF IInv, HeldInv, FfSafe, BtSafe, Settled, OnChain, Balance
  <1> QED
    BY <1>1, Invariance, PTL

-----------------------------------------------------------------------------
(* The two tables implement BoundedPool, for every value of the constants, *)
(* and the pools the validator draws from stay served.                     *)

(* The deletion follows a count of the same, untouched table.              *)
FullInv == pc = "delete" => get_challenge_count(Pool, net) >= Threshold

(* No row is newer than the clock.                                         *)
AgeInv == (\A r \in ff : r.at <= clock) /\ (\A r \in bt : r.at <= clock)

RInv == IInv /\ FullInv /\ AgeInv

-----------------------------------------------------------------------------
(* The stored row, as a record of its pool.                                *)
NewRow ==
    IF kind = "ff"
    THEN [net |-> cand.net, height |-> cand.height, fork |-> cand.fork, at |-> clock + 1]
    ELSE [key |-> cand.key, net |-> cand.net, height |-> cand.height,
          ans |-> cand.ans, at |-> clock + 1]

LEMMA StoredRow ==
    ASSUME RInv, store_challenge
    PROVE  /\ Stored = {NewRow} /\ NewRow.net = net /\ NewRow.at = clock + 1
           /\ kind = "ff" => /\ ff' = (ff \ FfPool!SameKey(NewRow)) \cup {NewRow}
                             /\ bt' = bt
           /\ kind = "bt" => /\ bt' = (bt \ BtPool!SameKey(NewRow)) \cup {NewRow}
                             /\ ff' = ff
  <1>1. /\ pc = "store" /\ SetPool(Kept \cup Stored)
        /\ kind \in {"ff", "bt"} /\ cand.net = net
        /\ ff \in SUBSET FfRow /\ bt \in SUBSET BtRow
    BY DEF store_challenge, RInv, IInv, TypeOK, CandInv, Pending
  <1>2. Stored = {NewRow} /\ NewRow.net = net /\ NewRow.at = clock + 1
    BY <1>1 DEF Stored, NewRow
  <1>3. CASE kind = "ff"
    <2>1. Kept = ff \ FfPool!SameKey(NewRow)
      BY <1>3 DEF Kept, FfPool!SameKey, SameTx, TxOf, NewRow
    <2> QED
      BY <1>1, <1>2, <1>3, <2>1 DEF SetPool
  <1>4. CASE kind = "bt"
    <2>1. Kept = bt \ BtPool!SameKey(NewRow)
      BY <1>4 DEF Kept, BtPool!SameKey, BlockKeyOf, NewRow
    <2> QED
      BY <1>1, <1>2, <1>4, <2>1 DEF SetPool
  <1> QED
    BY <1>1, <1>2, <1>3, <1>4

LEMMA RInit == Init => RInv
  BY InitInv DEF RInv, Init, FullInv, AgeInv

(* Only the generator writes, and it sets pc with what it writes.          *)
LEMMA RStep == RInv /\ [Next]_vars => RInv'
  <1> SUFFICES ASSUME RInv, [Next]_vars PROVE RInv'
    OBVIOUS
  <1> USE DEF tableVars, genVars
  <1>1. IInv'
    BY NextInv DEF RInv
  <1>2. CASE try_delete_oldest_challenge
    <2>1. pc' = "store" /\ clock' = clock /\ ff' \subseteq ff /\ bt' \subseteq bt
      BY <1>2 DEF try_delete_oldest_challenge, SetPool, Pool, RInv, IInv, TypeOK
    <2> QED
      BY <1>1, <2>1 DEF RInv, FullInv, AgeInv
  <1>3. CASE store_challenge
    <2>1. pc' # "delete" /\ clock' = clock + 1 /\ clock \in Nat
      BY <1>3, ConstantsAssumption
      DEF store_challenge, NextTask, NextNetwork, RInv, IInv, TypeOK
    <2>2. (\A r \in ff : r.at \in Nat) /\ (\A r \in bt : r.at \in Nat)
      BY DEF RInv, IInv, TypeOK, FfRow, BtRow
    <2>3. /\ NewRow.at = clock + 1
          /\ \A r \in ff' : r \in ff \/ r = NewRow
          /\ \A r \in bt' : r \in bt \/ r = NewRow
      BY <1>3, StoredRow DEF RInv, IInv, TypeOK
    <2>4. AgeInv'
      BY <2>1, <2>2, <2>3 DEF RInv, AgeInv
    <2> QED
      BY <1>1, <2>1, <2>4 DEF RInv, FullInv
  <1>4. CASE CountChallenges
    <2>1. UNCHANGED <<ff, bt, clock, net, kind>> /\ (pc' = "delete" => Full)
      BY <1>4 DEF CountChallenges
    <2> QED
      BY <1>1, <2>1 DEF RInv, FullInv, AgeInv, Full, Pool, get_challenge_count, Of
  <1>5. CASE ReadHeight \/ CreateChallenge \/ CreateNothing \/ Timeout \/ Failure
             \/ Sleep \/ Restart
    <2>1. UNCHANGED <<ff, bt, clock>> /\ pc' # "delete"
      BY <1>5 DEF ReadHeight, CreateChallenge, CreateNothing, Timeout, Failure, Sleep,
         Restart, NextTask, NextNetwork
    <2> QED
      BY <1>1, <2>1 DEF RInv, FullInv, AgeInv
  <1>6. CASE \/ \E n \in Networks : Grow(n) \/ Reorg(n)
             \/ ReadFundsFlow \/ ReadBalance \/ Answered \/ Abandoned \/ Shutdown
             \/ UNCHANGED vars
    <2>1. UNCHANGED <<ff, bt, clock, pc, net, kind>>
      BY <1>6 DEF Grow, Reorg, ReadFundsFlow, ReadBalance, get_random_challenge, Answered,
         Abandoned, Shutdown, vars
    <2> QED
      BY <1>1, <2>1 DEF RInv, FullInv, AgeInv, Pool, get_challenge_count, Of
  <1> QED
    BY <1>2, <1>3, <1>4, <1>5, <1>6 DEF Next

-----------------------------------------------------------------------------
(* Steps of the pools. *)

(* The instances count with a Cardinality of their own.                    *)
LEMMA SameCardinality ==
    ASSUME NEW S
    PROVE  FfPool!Cardinality(S) = Cardinality(S) /\ BtPool!Cardinality(S) = Cardinality(S)
  BY DEF FfPool!Cardinality, BtPool!Cardinality, Cardinality

(* What is deleted is the oldest row of a network that is full.            *)
LEMMA DeleteEvicts ==
    ASSUME RInv, try_delete_oldest_challenge
    PROVE  [FfPool!Next]_ff /\ [BtPool!Next]_bt
  <1>1. /\ pc = "delete" /\ kind \in {"ff", "bt"}
        /\ get_challenge_count(Pool, net) >= Threshold
    BY DEF try_delete_oldest_challenge, RInv, FullInv, IInv, TypeOK
  <1>2. CASE UNCHANGED <<ff, bt>>
    BY <1>2
  <1>3. CASE \E r \in Oldest(Pool, net) : SetPool(Pool \ {r})
    <2>1. PICK r \in Oldest(Pool, net) : SetPool(Pool \ {r})
      BY <1>3
    <2>2. /\ r \in Pool /\ r.net = net
          /\ \A q \in Of(Pool, net) : r.at <= q.at
      BY DEF Oldest, Of
    <2>3. CASE kind = "ff"
      <3>1. Pool = ff /\ ff' = ff \ {r} /\ bt' = bt
        BY <2>1, <2>3 DEF Pool, SetPool
      <3>2. FfPool!OfNetwork(r.net) = Of(Pool, net)
        BY <2>2, <3>1 DEF FfPool!OfNetwork, Of
      <3>3. FfPool!Evict(r)
        BY <1>1, <2>2, <3>1, <3>2, SameCardinality DEF FfPool!Evict, get_challenge_count
      <3> QED
        BY <2>2, <3>1, <3>3 DEF FfPool!Next
    <2>4. CASE kind = "bt"
      <3>1. Pool = bt /\ bt' = bt \ {r} /\ ff' = ff
        BY <2>1, <2>4 DEF Pool, SetPool
      <3>2. BtPool!OfNetwork(r.net) = Of(Pool, net)
        BY <2>2, <3>1 DEF BtPool!OfNetwork, Of
      <3>3. BtPool!Evict(r)
        BY <1>1, <2>2, <3>1, <3>2, SameCardinality DEF BtPool!Evict, get_challenge_count
      <3> QED
        BY <2>2, <3>1, <3>3 DEF BtPool!Next
    <2> QED
      BY <1>1, <2>3, <2>4
  <1> QED
    BY <1>2, <1>3 DEF try_delete_oldest_challenge

(* What is stored is newer than the table and its network has room.        *)
LEMMA StoreStores ==
    ASSUME RInv, store_challenge
    PROVE  [FfPool!Next]_ff /\ [BtPool!Next]_bt
  <1>1. /\ get_challenge_count(Pool, net) < Threshold
        /\ kind \in {"ff", "bt"} /\ clock \in Nat
        /\ \A r \in ff : r.at \in Nat /\ r.at <= clock
        /\ \A r \in bt : r.at \in Nat /\ r.at <= clock
    BY ConstantsAssumption
    DEF store_challenge, RInv, IInv, RoomInv, TypeOK, AgeInv, FfRow, BtRow
  <1>2. NewRow.net = net /\ NewRow.at = clock + 1
    BY StoredRow
  <1>3. CASE kind = "ff"
    <2>1. ff' = (ff \ FfPool!SameKey(NewRow)) \cup {NewRow} /\ bt' = bt
      BY <1>3, StoredRow
    <2>2. FfPool!OfNetwork(NewRow.net) = Of(Pool, net)
      BY <1>2, <1>3 DEF FfPool!OfNetwork, Of, Pool
    <2>3. FfPool!Store(NewRow) /\ NewRow \in ff'
      BY <1>1, <1>2, <2>1, <2>2, SameCardinality DEF FfPool!Store, get_challenge_count
    <2> QED
      BY <2>1, <2>3 DEF FfPool!Next
  <1>4. CASE kind = "bt"
    <2>1. bt' = (bt \ BtPool!SameKey(NewRow)) \cup {NewRow} /\ ff' = ff
      BY <1>4, StoredRow
    <2>2. BtPool!OfNetwork(NewRow.net) = Of(Pool, net)
      BY <1>2, <1>4 DEF BtPool!OfNetwork, Of, Pool
    <2>3. BtPool!Store(NewRow) /\ NewRow \in bt'
      BY <1>1, <1>2, <2>1, <2>2, SameCardinality DEF BtPool!Store, get_challenge_count
    <2> QED
      BY <2>1, <2>3 DEF BtPool!Next
  <1> QED
    BY <1>1, <1>3, <1>4

(* Every step is a step of each pool or leaves it alone.                   *)
LEMMA StepsMap == RInv /\ [Next]_vars => [FfPool!Next]_ff /\ [BtPool!Next]_bt
  <1> SUFFICES ASSUME RInv, [Next]_vars PROVE [FfPool!Next]_ff /\ [BtPool!Next]_bt
    OBVIOUS
  <1>1. CASE try_delete_oldest_challenge
    BY <1>1, DeleteEvicts
  <1>2. CASE store_challenge
    BY <1>2, StoreStores
  <1>3. CASE \/ \E n \in Networks : Grow(n) \/ Reorg(n)
             \/ ReadHeight \/ CreateChallenge \/ CreateNothing \/ CountChallenges
             \/ Timeout \/ Failure \/ Sleep
             \/ ReadFundsFlow \/ ReadBalance \/ Answered \/ Abandoned
             \/ Shutdown \/ Restart \/ UNCHANGED vars
    <2>1. UNCHANGED <<ff, bt>>
      BY <1>3 DEF Grow, Reorg, ReadHeight, CreateChallenge, CreateNothing, CountChallenges,
         Timeout, Failure, Sleep, ReadFundsFlow, ReadBalance, get_random_challenge, Answered,
         Abandoned, Shutdown, Restart, tableVars, vars
    <2> QED
      BY <2>1
  <1> QED
    BY <1>1, <1>2, <1>3 DEF Next

LEMMA RInvariance == Spec => []RInv
  BY RInit, RStep, PTL DEF Spec

(* challenges_funds_flow is a bounded pool, for every threshold and chain. *)
THEOREM FundsFlowRefines == Spec => FundsFlowPool
  <1>1. Init => FfPool!Init
    BY DEF Init, FfPool!Init
  <1> QED
    BY <1>1, StepsMap, RInvariance, PTL DEF Spec, FundsFlowPool, FfPool!Spec

(* So is challenges_balance_tracking, with one key for both networks.      *)
THEOREM BalanceRefines == Spec => BalancePool
  <1>1. Init => BtPool!Init
    BY DEF Init, BtPool!Init
  <1> QED
    BY <1>1, StepsMap, RInvariance, PTL DEF Spec, BalancePool, BtPool!Spec

-----------------------------------------------------------------------------
(* The pools stay served. *)

(* Heights of commune key its balance rows; a bitcoin row is keyed by a    *)
(* block the chain has left behind.                                        *)
KeySide(r) ==
    IF r.net = "commune" THEN r.key >= InitTip["commune"]
    ELSE r.key + Confirmations <= tip["bitcoin"]

KeyInv ==
    /\ tip["commune"] >= InitTip["commune"]
    /\ pc = "create" /\ net = "commune" => last >= InitTip["commune"]
    /\ Pending /\ kind = "bt" => KeySide(cand)
    /\ \A r \in bt : KeySide(r)

LEMMA KeyInit == Init => KeyInv
  BY ConstantsAssumption DEF Init, KeyInv, Pending, Networks, Heights

(* A height read now is no lower than the first one.                       *)
LEMMA KeyStep == RInv /\ KeyInv /\ [Next]_vars => KeyInv'
  <1> SUFFICES ASSUME RInv, KeyInv, [Next]_vars PROVE KeyInv'
    OBVIOUS
  <1> USE ConstantsAssumption DEF tableVars, genVars, chainVars, jobVars
  <1>0. /\ tip["commune"] \in Nat /\ tip["bitcoin"] \in Nat /\ tip["bitcoin"] <= MaxHeight
        /\ InitTip["commune"] \in Nat
        /\ net \in Networks /\ kind \in {"ff", "bt"} /\ last \in Int
    BY DEF RInv, IInv, TypeOK, Heights, Networks
  <1>1. CASE \E n \in Networks : Grow(n) \/ Reorg(n)
    <2>1. PICK n \in Networks : Grow(n) \/ Reorg(n)
      BY <1>1
    <2>2. /\ tip' = [tip EXCEPT ![n] = @ + 1] /\ UNCHANGED <<bt, pc, net, kind, last, cand>>
      BY <2>1 DEF Grow, Reorg
    <2>3. tip'["commune"] >= tip["commune"]
      BY <1>0, <2>2 DEF RInv, IInv, TypeOK, Networks
    <2>4. tip'["commune"] >= InitTip["commune"]
      <3>1. tip'["commune"] \in Nat
        BY <1>0, <2>2 DEF RInv, IInv, TypeOK, Networks
      <3> QED
        BY <1>0, <2>3, <3>1 DEF KeyInv
    <2>5. tip'["bitcoin"] >= tip["bitcoin"] /\ tip'["bitcoin"] \in Int
      BY <1>0, <2>2 DEF RInv, IInv, TypeOK, Networks
    <2>6. Pending /\ kind = "bt" => KeySide(cand)'
      <3>1. Pending /\ kind = "bt" => cand.key \in Int
        BY DEF RInv, IInv, CandInv, BtCand
      <3> QED
        BY <1>0, <2>2, <2>5, <3>1 DEF KeySide, KeyInv
    <2>7. \A r \in bt : KeySide(r)'
      <3>1. \A r \in bt : r.key \in Int
        BY DEF RInv, IInv, TypeOK, BtRow
      <3> QED
        BY <1>0, <2>5, <3>1 DEF KeySide, KeyInv
    <2> QED
      BY <2>2, <2>4, <2>6, <2>7 DEF KeyInv, Pending
  <1>2. CASE ReadHeight
    <2>1. /\ UNCHANGED <<tip, bt, net, cand>> /\ ~Pending'
          /\ pc' = "create" => last' = LastBlock(net)
      BY <1>2 DEF ReadHeight, Pending
    <2>2. pc' = "create" /\ net' = "commune" => last' >= InitTip["commune"]
      BY <2>1 DEF LastBlock, KeyInv
    <2> QED
      BY <2>1, <2>2 DEF KeyInv, KeySide
  <1>3. CASE CreateChallenge
    <2>1. PICK h \in Heights :
             /\ h <= last
             /\ cand' = IF kind = "ff"
                        THEN [net |-> net, height |-> h, fork |-> fork[net][h]]
                        ELSE [key |-> KeyOf(h), net |-> net, height |-> h,
                              ans |-> Balance(net, h)]
      BY <1>3 DEF CreateChallenge
    <2>2. pc = "create" /\ pc' = "count" /\ UNCHANGED <<tip, bt, net, kind, last>>
      BY <1>3 DEF CreateChallenge
    <2>3. ASSUME kind = "bt" PROVE KeySide(cand)'
      <3>1. cand'.key = KeyOf(h) /\ cand'.net = net
        BY <2>1, <2>3
      <3>2. CASE net = "commune"
        BY <2>2, <3>1, <3>2 DEF KeySide, KeyOf, KeyInv
      <3>3. CASE net = "bitcoin"
        <4>1. last <= tip["bitcoin"] - Confirmations
          BY <2>2, <3>3 DEF RInv, IInv, LastInv
        <4>2. cand'.key = h /\ h \in Nat
          BY <3>1, <3>3 DEF KeyOf, Heights
        <4> QED
          BY <1>0, <2>1, <2>2, <3>1, <3>3, <4>1, <4>2 DEF KeySide
      <3> QED
        BY <1>0, <3>2, <3>3 DEF Networks
    <2> QED
      BY <2>2, <2>3 DEF KeyInv, KeySide
  <1>4. CASE CountChallenges
    <2>1. pc = "count" /\ pc' \in {"delete", "store"} /\ UNCHANGED <<tip, bt, net, kind, last, cand>>
      BY <1>4 DEF CountChallenges
    <2> QED
      BY <2>1 DEF KeyInv, Pending, KeySide
  <1>5. CASE try_delete_oldest_challenge
    <2>1. /\ pc = "delete" /\ pc' = "store" /\ bt' \subseteq bt
          /\ UNCHANGED <<tip, net, kind, last, cand>>
      BY <1>5, <1>0 DEF try_delete_oldest_challenge, SetPool, Pool
    <2> QED
      BY <2>1 DEF KeyInv, Pending, KeySide
  <1>6. CASE store_challenge
    <2>1. /\ pc = "store" /\ pc' \notin {"create", "count", "delete", "store"}
          /\ UNCHANGED tip
      BY <1>6 DEF store_challenge, NextTask, NextNetwork
    <2>2. kind = "bt" => NewRow.key = cand.key /\ NewRow.net = cand.net
      BY DEF NewRow
    <2>3. \A r \in bt' : KeySide(r)
      <3>1. \A r \in bt' : r \in bt \/ (kind = "bt" /\ r = NewRow)
        BY <1>0, <1>6, StoredRow
      <3> QED
        BY <2>1, <2>2, <3>1 DEF KeyInv, KeySide, Pending
    <2> QED
      BY <2>1, <2>3 DEF KeyInv, Pending, KeySide
  <1>7. CASE CreateNothing \/ Timeout \/ Failure \/ Sleep \/ Restart
    <2>1. pc' \notin {"create", "count", "delete", "store"} /\ UNCHANGED <<tip, bt>>
      BY <1>7 DEF CreateNothing, Timeout, Failure, Sleep, Restart, NextTask, NextNetwork
    <2> QED
      BY <2>1 DEF KeyInv, Pending, KeySide
  <1>8. CASE ReadFundsFlow \/ ReadBalance \/ Answered \/ Abandoned \/ Shutdown \/ UNCHANGED vars
    <2>1. UNCHANGED <<tip, bt, pc, net, kind, last, cand>>
      BY <1>8 DEF ReadFundsFlow, ReadBalance, get_random_challenge, Answered, Abandoned,
         Shutdown, vars
    <2> QED
      BY <2>1 DEF KeyInv, Pending, KeySide
  <1> QED
    BY <1>1, <1>2, <1>3, <1>4, <1>5, <1>6, <1>7, <1>8 DEF Next

(* Of two rows one stays.                                                  *)
LEMMA OneStays ==
    ASSUME NEW T, IsFiniteSet(T), NEW n, NEW r \in T,
           Of(T, n) # {}, Threshold >= 2,
           r.net = n => get_challenge_count(T, n) >= Threshold
    PROVE  Of(T \ {r}, n) # {}
  <1>1. CASE r.net = n
    <2>1. r \in Of(T, n)
      BY <1>1 DEF Of
    <2>2. get_challenge_count(T \ {r}, n) = get_challenge_count(T, n) - 1
      BY <2>1, CountRemove
    <2>3. get_challenge_count(T \ {r}, n) # 0
      BY <1>1, <2>2, OfFinite, ConstantsAssumption
    <2> QED
      BY <2>3, FS_EmptySet DEF get_challenge_count
  <1>2. CASE r.net # n
    BY <1>2 DEF Of
  <1> QED
    BY <1>1, <1>2

(* The bitcoin blocks that may be challenged are below commune's heights.  *)
Apart == tip["bitcoin"] < InitTip["commune"] + Confirmations

(* With a threshold of at least 2, and as long as commune's heights are    *)
(* above the blocks of bitcoin that may be challenged, a pool the          *)
(* validator draws from is never emptied.                                  *)
THEOREM PoolsStayServed ==
    ASSUME Threshold >= 2
    PROVE  Spec /\ []Apart => PoolsServed
  <1> DEFINE Served == /\ Of(ff, "bitcoin") # {} => Of(ff', "bitcoin") # {}
                       /\ Of(bt, "bitcoin") # {} => Of(bt', "bitcoin") # {}
  <1>1. RInv /\ KeyInv /\ Apart /\ [Next]_vars => Served
    <2> SUFFICES ASSUME RInv, KeyInv, Apart, [Next]_vars PROVE Served
      OBVIOUS
    <2>0. /\ IsFiniteSet(ff) /\ IsFiniteSet(bt) /\ kind \in {"ff", "bt"}
          /\ net \in Networks
      BY DEF RInv, IInv, TypeOK
    <2>1. CASE UNCHANGED <<ff, bt>>
      BY <2>1
    <2>2. CASE try_delete_oldest_challenge /\ ~UNCHANGED <<ff, bt>>
      <3>1. PICK r \in Pool : /\ r.net = net
                              /\ SetPool(Pool \ {r})
        BY <2>2 DEF try_delete_oldest_challenge, Oldest, Of
      <3>2. get_challenge_count(Pool, net) >= Threshold
        BY <2>2 DEF RInv, FullInv, try_delete_oldest_challenge
      <3>3. Of(Pool, "bitcoin") # {} => Of(Pool \ {r}, "bitcoin") # {}
        BY <2>0, <3>1, <3>2, OneStays DEF Pool
      <3> QED
        BY <2>0, <3>1, <3>3 DEF SetPool, Pool
    <2>3. CASE store_challenge
      <3>1. CASE net = "bitcoin"
        BY <2>0, <2>3, <3>1, StoredRow DEF Of
      <3>2. CASE net = "commune" /\ kind = "ff"
        <4>1. \A r \in ff : r.net = "bitcoin" => r \notin FfPool!SameKey(NewRow)
          BY <2>3, <3>2, StoredRow DEF FfPool!SameKey, TxOf
        <4> QED
          BY <2>3, <3>2, <4>1, StoredRow DEF Of
      <3>3. CASE net = "commune" /\ kind = "bt"
        <4>1. NewRow.key >= InitTip["commune"] /\ NewRow.key \in Int
          <5>1. Pending /\ cand.net = net /\ cand \in BtCand
            BY <2>3, <3>3 DEF store_challenge, Pending, RInv, IInv, CandInv
          <5>2. NewRow.key = cand.key /\ cand.key >= InitTip["commune"]
            BY <3>3, <5>1 DEF NewRow, KeyInv, KeySide
          <5> QED
            BY <5>1, <5>2 DEF BtCand
        <4>2. ASSUME NEW r \in bt, r.net = "bitcoin"
              PROVE  r.key # NewRow.key
          <5>1. r.key + Confirmations <= tip["bitcoin"] /\ r.key \in Int
            BY <4>2 DEF KeyInv, KeySide, RInv, IInv, TypeOK, BtRow
          <5>2. InitTip["commune"] \in Nat /\ Confirmations \in Nat /\ tip["bitcoin"] \in Nat
            BY ConstantsAssumption DEF RInv, IInv, TypeOK, Networks, Heights
          <5> QED
            BY <4>1, <5>1, <5>2 DEF Apart
        <4>3. \A r \in bt : r.net = "bitcoin" => r \notin BtPool!SameKey(NewRow)
          BY <4>2 DEF BtPool!SameKey, BlockKeyOf
        <4> QED
          BY <2>3, <3>3, <4>3, StoredRow DEF Of
      <3> QED
        BY <2>0, <3>1, <3>2, <3>3 DEF Networks
    <2>4. CASE ~try_delete_oldest_challenge /\ ~store_challenge
      <3>1. UNCHANGED <<ff, bt>>
        BY <2>4 DEF Next, Grow, Reorg, ReadHeight, CreateChallenge, CreateNothing,
           CountChallenges, Timeout, Failure, Sleep, ReadFundsFlow, ReadBalance,
           get_random_challenge, Answered, Abandoned, Shutdown, Restart, tableVars, vars
      <3> QED
        BY <3>1
    <2> QED
      BY <2>1, <2>2, <2>3, <2>4
  <1>2. RInv /\ KeyInv /\ Apart /\ [Next]_vars => [Served]_vars
    BY <1>1
  <1>3. Spec => []KeyInv
    BY KeyInit, KeyStep, RInvariance, PTL DEF Spec
  <1> QED
    BY <1>2, <1>3, RInvariance, PTL DEF Spec, PoolsServed
=============================================================================
