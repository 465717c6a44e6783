----------------------- MODULE WeightAllocationProofs -----------------------
(***************************************************************************)
(* The arithmetic of an epoch, for every number of prompts, every          *)
(* multiplier, every division of the base weights and every number of      *)
(* miners: no weighted score exceeds 1, which validate_step asserts, no    *)
(* network falls under its minimum influence, and the vote spends its      *)
(* budget in the order of the scores and on every one of them.             *)
(***************************************************************************)
EXTENDS WeightAllocation, SumLemmas

Prompts == [Networks -> Nat]

LEMMA BasePositive ==
    Base \in [Networks -> Nat] /\ Base.bitcoin + Base.commune = 100
  BY WeightsAssumption DEF Base, Networks

-----------------------------------------------------------------------------
(* The influence of the networks. *)

(* The share of a network before the floor: at most its base, and both     *)
(* together at most the larger base.                                       *)
LEMMA FlooredBounds ==
    ASSUME NEW p \in Prompts
    PROVE  LET w == FlooredWeights(p)
               least == MinThreshold * Total(p)
           IN /\ w \in [Networks -> Nat]
              /\ \A n \in Networks : least <= w[n]
              /\ \/ Total(w) <= 100 * Total(p)
                 \/ w.bitcoin = least
                 \/ w.commune = least
  <1> DEFINE w == FlooredWeights(p)
             least == MinThreshold * Total(p)
             sb == Base.bitcoin * p.bitcoin
             sc == Base.commune * p.commune
  <1>1. p.bitcoin \in Nat /\ p.commune \in Nat
    BY DEF Prompts, Networks
  <1>2. Base.bitcoin \in Nat /\ Base.commune \in Nat /\ Base.bitcoin <= 100 /\ Base.commune <= 100
    BY BasePositive DEF Networks
  <1>3. sb \in Nat /\ sb <= 100 * p.bitcoin
    BY <1>1, <1>2, ProductNat, ProductMonotone
  <1>4. sc \in Nat /\ sc <= 100 * p.commune
    BY <1>1, <1>2, ProductNat, ProductMonotone
  <1>5. least \in Nat
    BY <1>1 DEF Total, MinThreshold
  <1>6. /\ w = [n \in Networks |-> IF Base[n] * p[n] < least THEN least ELSE Base[n] * p[n]]
        /\ w.bitcoin = IF sb < least THEN least ELSE sb
        /\ w.commune = IF sc < least THEN least ELSE sc
    BY DEF FlooredWeights, Networks
  <1>7. \A n \in Networks : w[n] \in Nat /\ least <= w[n]
    BY <1>3, <1>4, <1>5, <1>6 DEF Networks
  <1>8. w \in [Networks -> Nat]
    BY <1>6, <1>7
  <1>9. \/ Total(w) <= 100 * Total(p)
        \/ w.bitcoin = least
        \/ w.commune = least
    BY <1>1, <1>3, <1>4, <1>5, <1>6 DEF Total
  <1> QED
    BY <1>7, <1>8, <1>9

(* Scaling leaves the least network exactly at its minimum.                *)
LEMMA Scaled ==
    ASSUME NEW l \in Nat, NEW x \in Nat, NEW t \in Nat,
           l = 20 * t, l <= x, x + l > 100 * t
    PROVE  LET above == x + l - 2 * l
               room == 100 * t - 2 * l
               big == IF x > l THEN l * above + (x - l) * room ELSE x * above
               small == l * above
           IN /\ big \in Nat /\ small \in Nat
              /\ 100 * big >= 20 * (big + small)
              /\ 100 * small >= 20 * (big + small)
  <1> DEFINE above == x + l - 2 * l
             room == 100 * t - 2 * l
             big == IF x > l THEN l * above + (x - l) * room ELSE x * above
             small == l * above
  <1>1. above = x - l /\ above \in Nat /\ room = 60 * t /\ room \in Nat /\ x > l
    OBVIOUS
  <1> DEFINE y == t * above
  <1>2. y \in Nat
    BY <1>1, ProductNat
  <1>3. small = 20 * y
    BY <1>1
  <1>4. (x - l) * room = 60 * y
    BY <1>1
  <1>5. big = 80 * y
    BY <1>1, <1>3, <1>4
  <1> HIDE DEF y, big, small
  <1>6. /\ big \in Nat /\ small \in Nat
        /\ 100 * big >= 20 * (big + small)
        /\ 100 * small >= 20 * (big + small)
    BY <1>2, <1>3, <1>5
  <1> QED
    BY <1>6 DEF big, small

(* Without prompts the base weights stand, so that they have to respect    *)
(* the minimum themselves; with prompts the floor and the scaling see to it. *)
BaseAtLeastMinimum == \A n \in Networks : Base[n] >= MinThreshold

(* Without prompts nothing is floored: the base weights stand.             *)
IsFloored(p) == Total(p) # 0 \/ BaseAtLeastMinimum

LEMMA AdjustedFloor ==
    ASSUME NEW p \in Prompts
    PROVE  LET a == adjust_network_weights(p)
           IN /\ a \in [Networks -> Nat]
              /\ IsFloored(p) =>
                    \A n \in Networks : 100 * a[n] >= MinThreshold * Total(a)
  <1> DEFINE a == adjust_network_weights(p)
             w == FlooredWeights(p)
             least == MinThreshold * Total(p)
             above == Total(w) - 2 * least
             room == 100 * Total(p) - 2 * least
             scaled(x) == IF x > least THEN least * above + (x - least) * room ELSE x * above
  <1>1. Total(p) \in Nat /\ least \in Nat /\ least = 20 * Total(p)
    BY DEF Prompts, Networks, Total, MinThreshold
  <1>2. /\ w \in [Networks -> Nat] /\ \A n \in Networks : least <= w[n]
        /\ Total(w) <= 100 * Total(p) \/ w.bitcoin = least \/ w.commune = least
    BY FlooredBounds
  <1>3. w.bitcoin \in Nat /\ w.commune \in Nat /\ least <= w.bitcoin /\ least <= w.commune
    BY <1>2 DEF Networks
  <1>4. SUFFICES /\ a \in [Networks -> Nat]
                 /\ IsFloored(p) =>
                       /\ 100 * a.bitcoin >= 20 * (a.bitcoin + a.commune)
                       /\ 100 * a.commune >= 20 * (a.bitcoin + a.commune)
    BY DEF Networks, MinThreshold, Total
  <1>5. CASE Total(p) = 0
    <2>1. a = Base
      BY <1>5 DEF adjust_network_weights
    <2> HIDE DEF a
    <2> QED
      BY <1>5, <2>1, BasePositive DEF IsFloored, BaseAtLeastMinimum, MinThreshold, Networks
  <1>6. CASE Total(p) # 0 /\ Total(w) <= 100 * Total(p)
    <2>1. a = w
      BY <1>6 DEF adjust_network_weights, ScaledWeights
    <2> HIDE DEF a, w, least
    <2> QED
      BY <2>1, <1>1, <1>2, <1>3, <1>6 DEF Total
  <1>7. CASE Total(p) # 0 /\ ~(Total(w) <= 100 * Total(p))
    <2>1. /\ a = [n \in Networks |-> scaled(w[n])]
          /\ a.bitcoin = scaled(w.bitcoin) /\ a.commune = scaled(w.commune)
      BY <1>7 DEF adjust_network_weights, ScaledWeights, Networks
    <2>2. CASE w.bitcoin = least
      <3>1. /\ above = w.commune + least - 2 * least
            /\ w.commune + least > 100 * Total(p)
        BY <1>1, <1>3, <1>7, <2>2 DEF Total
      <3>2. scaled(least) = least * above
        BY <1>1
      <3> DEFINE x == w.commune
                 l == least
                 t == Total(p)
      <3>3. /\ scaled(x) = IF x > l THEN l * (x + l - 2 * l) + (x - l) * (100 * t - 2 * l)
                           ELSE x * (x + l - 2 * l)
            /\ scaled(l) = l * (x + l - 2 * l)
        BY <3>1, <3>2
      <3>4. l \in Nat /\ x \in Nat /\ t \in Nat /\ l = 20 * t /\ l <= x /\ x + l > 100 * t
        BY <1>1, <1>3, <3>1
      <3> HIDE DEF x, l, t, scaled
      <3>5. /\ scaled(x) \in Nat /\ scaled(l) \in Nat
            /\ 100 * scaled(x) >= 20 * (scaled(x) + scaled(l))
            /\ 100 * scaled(l) >= 20 * (scaled(x) + scaled(l))
        BY <3>3, <3>4, Scaled
      <3>6. a.commune = scaled(x) /\ a.bitcoin = scaled(l)
        BY <2>1, <2>2 DEF x, l
      <3>7. a \in [Networks -> Nat]
        BY <2>1, <3>5, <3>6 DEF Networks
      <3> HIDE DEF a
      <3> QED
        BY <3>5, <3>6, <3>7
    <2>3. CASE w.commune = least
      <3>1. /\ above = w.bitcoin + least - 2 * least
            /\ w.bitcoin + least > 100 * Total(p)
        BY <1>1, <1>3, <1>7, <2>3 DEF Total
      <3>2. scaled(least) = least * above
        BY <1>1
      <3> DEFINE x == w.bitcoin
                 l == least
                 t == Total(p)
      <3>3. /\ scaled(x) = IF x > l THEN l * (x + l - 2 * l) + (x - l) * (100 * t - 2 * l)
                           ELSE x * (x + l - 2 * l)
            /\ scaled(l) = l * (x + l - 2 * l)
        BY <3>1, <3>2
      <3>4. l \in Nat /\ x \in Nat /\ t \in Nat /\ l = 20 * t /\ l <= x /\ x + l > 100 * t
        BY <1>1, <1>3, <3>1
      <3> HIDE DEF x, l, t, scaled
      <3>5. /\ scaled(x) \in Nat /\ scaled(l) \in Nat
            /\ 100 * scaled(x) >= 20 * (scaled(x) + scaled(l))
            /\ 100 * scaled(l) >= 20 * (scaled(x) + scaled(l))
        BY <3>3, <3>4, Scaled
      <3>6. a.bitcoin = scaled(x) /\ a.commune = scaled(l)
        BY <2>1, <2>3 DEF x, l
      <3>7. a \in [Networks -> Nat]
        BY <2>1, <3>5, <3>6 DEF Networks
      <3> HIDE DEF a
      <3> QED
        BY <3>5, <3>6, <3>7
    <2> QED
      BY <1>2, <1>7, <2>2, <2>3
  <1> QED
    BY <1>5, <1>6, <1>7

-----------------------------------------------------------------------------
(* The scores. *)

LEMMA ScoreRange ==
    ASSUME NEW r \in Responses, NEW m \in Nat
    PROVE  score_miner(r, m) \in Nat /\ score_miner(r, m) <= One
  <1>1. CASE r = NoResponse
    BY <1>1 DEF score_miner, One
  <1>2. CASE r # NoResponse
    <2>1. score_miner(r, m) = ScoreOf(get_failed_challenges(r), m)
      BY <1>2 DEF score_miner
    <2>2. AtMost(100, m) \in Nat /\ AtMost(100, m) <= 100
      BY DEF AtMost
    <2> QED
      BY <2>1, <2>2 DEF ScoreOf, One
  <1> QED
    BY <1>1, <1>2

(* A miner that passes a challenge has 0.15 at least.                      *)
LEMMA ScoreSteps ==
    ASSUME NEW r \in Responses, NEW m \in Nat
    PROVE  score_miner(r, m) = 0 \/ score_miner(r, m) >= 150
  <1>1. CASE r = NoResponse
    BY <1>1 DEF score_miner
  <1>2. CASE r # NoResponse
    BY <1>2 DEF score_miner, ScoreOf, AtMost
  <1> QED
    BY <1>1, <1>2

LEMMA WeightedRange ==
    ASSUME NEW n \in Networks, NEW s \in Nat, s <= One, prompts \in Prompts
    PROVE  Weighted(s, n) \in Nat /\ Weighted(s, n) <= One * Total(Adjusted)
  <1>1. Adjusted \in [Networks -> Nat]
    BY AdjustedFloor DEF Adjusted
  <1>2. /\ Adjusted[n] \in Nat /\ Total(Adjusted) \in Nat
        /\ Adjusted[n] <= Total(Adjusted)
    BY <1>1 DEF Networks, Total
  <1>3. s * Adjusted[n] <= One * Adjusted[n]
    BY <1>2, ProductMonotone DEF One
  <1>4. s * Adjusted[n] \in Nat
    BY <1>2, ProductNat
  <1> QED
    BY <1>2, <1>3, <1>4 DEF Weighted, One

-----------------------------------------------------------------------------
(* The cut: who is kept, and how many. *)

LEMMA ScoresIndexed ==
    ASSUME NEW s \in Seq(Nat)
    PROVE  /\ DOMAIN s = 1..Len(s) /\ Len(s) \in Nat /\ \A v \in DOMAIN s : s[v] \in Nat
           /\ IsFiniteSet(DOMAIN s) /\ Cardinality(DOMAIN s) = Len(s)
  <1>1. DOMAIN s = 1..Len(s) /\ Len(s) \in Nat /\ \A v \in DOMAIN s : s[v] \in Nat
    OBVIOUS
  <1>2. ASSUME NEW n \in Nat PROVE IsFiniteSet(1..n) /\ Cardinality(1..n) = n
    BY FS_Interval
  <1> QED
    BY <1>1, <1>2

(* Of any two miners one is ahead of the other.                            *)
Before(s) == [u \in DOMAIN s |-> Ahead(s, u)]

LEMMA AheadOrders == ASSUME NEW s \in Seq(Nat) PROVE Ordered(DOMAIN s, Before(s))
  <1>1. /\ DOMAIN s \subseteq Int /\ IsFiniteSet(DOMAIN s)
        /\ \A w \in DOMAIN s : s[w] \in Int /\ Before(s)[w] = Ahead(s, w)
    BY ScoresIndexed DEF Before
  <1>2. Before(s) \in [DOMAIN s -> SUBSET DOMAIN s]
    BY DEF Before, Ahead
  <1>3. \A u \in DOMAIN s : u \notin Ahead(s, u)
    BY <1>1 DEF Ahead
  <1>4. \A u \in DOMAIN s, v \in DOMAIN s : u # v => u \in Ahead(s, v) \/ v \in Ahead(s, u)
    BY <1>1 DEF Ahead
  <1>5. \A u \in DOMAIN s : \A v \in Ahead(s, u) : v \in DOMAIN s /\ Ahead(s, v) \subseteq Ahead(s, u)
    BY <1>1 DEF Ahead
  <1> QED
    BY <1>1, <1>2, <1>3, <1>4, <1>5 DEF Ordered

(* The cut keeps as many miners as allowed, or all there are.              *)
LEMMA KeptSize ==
    ASSUME NEW s \in Seq(Nat), NEW k \in Nat
    PROVE  /\ Kept(s, k) \in SUBSET DOMAIN s /\ IsFiniteSet(Kept(s, k))
           /\ Cardinality(Kept(s, k)) = AtMost(k, Len(s))
  <1>1. Kept(s, k) = FirstOf(DOMAIN s, Before(s), k)
    BY DEF Kept, FirstOf, Before
  <1>2. Len(s) \in Nat /\ Cardinality(DOMAIN s) = Len(s)
    BY ScoresIndexed
  <1> QED
    BY <1>1, <1>2, AheadOrders, FirstCount DEF AtMost

(* Whoever has a higher score than somebody kept is kept as well.          *)
LEMMA HigherKept ==
    ASSUME NEW s \in Seq(Nat), NEW k \in Nat,
           NEW u \in DOMAIN s, NEW v \in Kept(s, k), s[u] > s[v]
    PROVE  u \in Kept(s, k)
  <1>1. v \in DOMAIN s /\ Cardinality(Ahead(s, v)) < k /\ u \in Ahead(s, v)
    BY DEF Kept, Ahead
  <1>2. Ordered(DOMAIN s, Before(s)) /\ Before(s)[u] = Ahead(s, u) /\ Before(s)[v] = Ahead(s, v)
    BY <1>1, AheadOrders DEF Before
  <1>3. /\ Cardinality(Ahead(s, u)) \in Nat /\ Cardinality(Ahead(s, v)) \in Nat
        /\ Cardinality(Ahead(s, u)) < Cardinality(Ahead(s, v))
    BY <1>1, <1>2, PlaceType, EarlierPlace
  <1> QED
    BY <1>1, <1>2, <1>3 DEF Kept

-----------------------------------------------------------------------------
(* The weights. *)

(* What rounding down a share of 1000 takes is less than a unit.           *)
LEMMA Rounded ==
    ASSUME NEW a \in Nat, NEW d \in Nat \ {0}
    PROVE  /\ IntWeight(a, d) \in Nat
           /\ d * IntWeight(a, d) <= 1000 * a
           /\ 1000 * a + 1 <= d * (IntWeight(a, d) + 1)
  <1> DEFINE w == IntWeight(a, d)
  <1>1. CASE a = 0
    BY <1>1 DEF IntWeight
  <1>2. CASE a # 0
    <2>1. w = (a * 1000) \div d /\ a * 1000 \in Nat
      BY <1>2 DEF IntWeight
    <2> HIDE DEF w
    <2>2. w \in Nat /\ w * d <= a * 1000 /\ a * 1000 < w * d + d
      BY <2>1, Division
    <2>3. d * w = w * d /\ d * (w + 1) = w * d + d /\ w * d \in Nat
      BY <2>2, ProductNat
    <2> QED
      BY <2>2, <2>3 DEF w
  <1> QED
    BY <1>1, <1>2

(* The same, of a weight that was stored.                                  *)
LEMMA RoundedIs ==
    ASSUME NEW a, a \in Nat, NEW d, d \in Nat \ {0}, NEW w, w = IntWeight(a, d)
    PROVE  w \in Nat /\ d * w <= 1000 * a /\ 1000 * a + 1 <= d * (w + 1)
  BY Rounded

LEMMA RoundedMonotone ==
    ASSUME NEW a \in Nat, NEW b \in Nat, NEW sum \in Nat, a <= b
    PROVE  IntWeight(a, sum) <= IntWeight(b, sum)
  <1>1. CASE a = 0 \/ sum = 0
    <2>1. IntWeight(a, sum) = 0 /\ (sum = 0 => IntWeight(b, sum) = 0)
      BY <1>1 DEF IntWeight
    <2>2. sum # 0 => IntWeight(b, sum) \in Nat
      BY Rounded
    <2> QED
      BY <2>1, <2>2
  <1>2. CASE a # 0 /\ sum # 0
    <2>1. IntWeight(a, sum) = (a * 1000) \div sum /\ IntWeight(b, sum) = (b * 1000) \div sum
      BY <1>2 DEF IntWeight
    <2>2. (a * 1000) \div sum <= (b * 1000) \div sum
      BY <1>2, DivisionMonotone
    <2> QED
      BY <2>1, <2>2
  <1> QED
    BY <1>1, <1>2

LEMMA CutType ==
    ASSUME NEW s \in Seq(Nat), NEW k \in Nat
    PROVE  LET cut == cut_to_max_allowed_weights(s, k)
           IN /\ DOMAIN cut = Kept(s, k)
              /\ \A u \in Kept(s, k) : cut[u] = s[u] /\ cut[u] \in Nat
              /\ SumFunction(cut) = SumFunctionOnSet(cut, Kept(s, k))
              /\ SumFunction(cut) \in Nat
  <1> DEFINE cut == cut_to_max_allowed_weights(s, k)
  <1>1. DOMAIN cut = Kept(s, k) /\ \A u \in Kept(s, k) : cut[u] = s[u] /\ cut[u] \in Nat
    BY KeptSize, ScoresIndexed DEF cut_to_max_allowed_weights
  <1> HIDE DEF cut
  <1>2. SumFunction(cut) = SumFunctionOnSet(cut, Kept(s, k))
    BY <1>1 DEF SumFunction
  <1>3. SumFunctionOnSet(cut, Kept(s, k)) \in Nat
    BY <1>1, KeptSize, SumNat
  <1> QED
    BY <1>1, <1>2, <1>3 DEF cut

LEMMA VoteType ==
    ASSUME NEW s \in Seq(Nat), NEW k \in Nat
    PROVE  LET sum == SumFunction(cut_to_max_allowed_weights(s, k))
               w == NewWeights(s, k)
           IN /\ DOMAIN w = Kept(s, k)
              /\ \A u \in Kept(s, k) : w[u] = IntWeight(s[u], sum) /\ w[u] \in Nat
  <1> DEFINE cut == cut_to_max_allowed_weights(s, k)
             sum == SumFunction(cut)
  <1>1. /\ DOMAIN cut = Kept(s, k) /\ sum \in Nat
        /\ \A u \in Kept(s, k) : cut[u] = s[u] /\ cut[u] \in Nat
    BY CutType
  <1>2. NewWeights(s, k) = [u \in DOMAIN cut |-> IntWeight(cut[u], sum)]
    BY DEF NewWeights
  <1> HIDE DEF cut, sum
  <1>3. \A u \in Kept(s, k) : IntWeight(s[u], sum) \in Nat
    <2>1. ASSUME NEW a \in Nat PROVE IntWeight(a, sum) \in Nat
      <3>1. sum = 0 => IntWeight(a, sum) \in Nat
        BY DEF IntWeight
      <3>2. sum # 0 => IntWeight(a, sum) \in Nat
        BY <1>1, Rounded
      <3> QED
        BY ONLY <3>1, <3>2
    <2> QED
      BY <1>1, <2>1
  <1>4. /\ DOMAIN NewWeights(s, k) = Kept(s, k)
        /\ \A u \in Kept(s, k) : NewWeights(s, k)[u] = IntWeight(s[u], sum)
    BY <1>1, <1>2
  <1> QED
    BY <1>3, <1>4 DEF sum, cut

(* The weights share out 1000, but for less than a unit each.              *)
LEMMA VoteShares ==
    ASSUME NEW s \in Seq(Nat), NEW k \in Nat
    PROVE  LET sum == SumFunction(cut_to_max_allowed_weights(s, k))
               all == SumFunction(NewWeights(s, k))
           IN /\ all \in Nat /\ all <= 1000
              /\ sum > 0 => all + Cardinality(Kept(s, k)) > 1000
  <1> DEFINE K == Kept(s, k)
             cut == cut_to_max_allowed_weights(s, k)
             sum == SumFunction(cut)
             w == NewWeights(s, k)
             all == SumFunction(w)
             size == Cardinality(K)
  <1>1. /\ IsFiniteSet(K) /\ size \in Nat
        /\ sum \in Nat /\ sum = SumFunctionOnSet(cut, K)
        /\ \A u \in K : cut[u] = s[u] /\ cut[u] \in Nat
    BY CutType, KeptSize, FS_CardinalityType
  <1>2. /\ DOMAIN w = K
        /\ \A u \in K : w[u] = IntWeight(cut[u], sum) /\ w[u] \in Nat
    BY <1>1, VoteType
  <1> HIDE DEF K, cut, sum, w
  <1>3. all = SumFunctionOnSet(w, K) /\ all \in Nat
    BY <1>1, <1>2, SumNat DEF SumFunction
  <1> HIDE DEF all, size
  <1>4. CASE sum = 0
    <2>1. \A u \in K : w[u] = 0
      BY <1>2, <1>4 DEF IntWeight
    <2>2. all = 0 * size
      BY <1>1, <1>3, <2>1, SumConstant DEF size
    <2> QED
      BY <1>1, <1>4, <2>2 DEF all, sum, cut, w
  <1>5. CASE sum # 0
    <2> DEFINE share == [u \in K |-> 1000 * cut[u]]
               given == [u \in K |-> sum * w[u]]
               one == [u \in K |-> 1]
               share1 == [u \in K |-> share[u] + one[u]]
               w1 == [u \in K |-> w[u] + one[u]]
               given1 == [u \in K |-> sum * w1[u]]
    <2>1. \A u \in K : /\ share[u] \in Int /\ given[u] \in Int /\ one[u] \in Int /\ one[u] = 1
                       /\ share1[u] \in Int /\ w1[u] \in Int /\ given1[u] \in Int
                       /\ share[u] = 1000 * cut[u] /\ given[u] = sum * w[u]
                       /\ share1[u] = share[u] + one[u] /\ w1[u] = w[u] + one[u]
                       /\ given1[u] = sum * w1[u]
      BY <1>1, <1>2, ProductNat
    <2>2. ASSUME NEW u \in K PROVE given[u] <= share[u] /\ share1[u] <= given1[u]
      <3> HIDE DEF share, given, one, share1, w1, given1
      <3>1. cut[u] \in Nat /\ sum \in Nat \ {0} /\ w[u] = IntWeight(cut[u], sum)
        BY <1>1, <1>2, <1>5
      <3>2. sum * w[u] <= 1000 * cut[u] /\ 1000 * cut[u] + 1 <= sum * (w[u] + 1)
        BY <3>1, RoundedIs
      <3> QED
        BY <2>1, <3>2
    <2> HIDE DEF share, given, one, share1, w1, given1
    <2>3. SumFunctionOnSet(given, K) = sum * all
      BY <1>1, <1>2, <1>3, <2>1, SumTimes
    <2>4. SumFunctionOnSet(share, K) = 1000 * sum
      BY <1>1, <2>1, SumTimes
    <2>5. SumFunctionOnSet(one, K) = size
      <3>1. SumFunctionOnSet(one, K) = 1 * size
        BY <1>1, <2>1, SumConstant DEF size
      <3> QED
        BY <1>1, <3>1
    <2>6. SumFunctionOnSet(share1, K) = 1000 * sum + size
      BY <1>1, <2>1, <2>4, <2>5, SumPlus
    <2>7. SumFunctionOnSet(w1, K) = all + size
      <3>1. \A u \in K : w[u] \in Int /\ one[u] \in Int /\ w1[u] = w[u] + one[u]
        BY <1>2, <2>1
      <3>2. IsFiniteSet(K)
        BY <1>1
      <3>3. SumFunctionOnSet(w1, K) = SumFunctionOnSet(w, K) + SumFunctionOnSet(one, K)
        BY ONLY <3>1, <3>2, SumPlus
      <3> QED
        BY <1>3, <2>5, <3>3
    <2>8. SumFunctionOnSet(given1, K) = sum * (all + size)
      BY <1>1, <2>1, <2>7, SumTimes
    <2>9. sum * all <= 1000 * sum /\ 1000 * sum + size <= sum * (all + size)
      <3>1. SumFunctionOnSet(given, K) <= SumFunctionOnSet(share, K)
        BY <1>1, <2>1, <2>2, SumMonotone
      <3>2. SumFunctionOnSet(share1, K) <= SumFunctionOnSet(given1, K)
        BY <1>1, <2>1, <2>2, SumMonotone
      <3> QED
        BY <3>1, <3>2, <2>3, <2>4, <2>6, <2>8
    <2>10. all <= 1000
      <3>1. SUFFICES ASSUME 1001 <= all PROVE FALSE
        BY <1>3
      <3>2. sum * 1001 <= sum * all
        BY <1>1, <1>3, <3>1, ProductMonotone
      <3>3. sum * all \in Nat
        BY <1>1, <1>3, ProductNat
      <3> QED
        BY <1>1, <1>5, <2>9, <3>2, <3>3
    <2>11. size > 0
      <3>1. SUFFICES ASSUME size = 0 PROVE FALSE
        BY <1>1
      <3>2. K = {}
        BY <1>1, <3>1, FS_EmptySet DEF size
      <3> QED
        BY <1>1, <1>5, <3>2, SumEmpty
    <2>12. all + size > 1000
      <3>1. SUFFICES ASSUME all + size <= 1000 PROVE FALSE
        BY <1>1, <1>3
      <3>2. sum * (all + size) <= sum * 1000
        BY <1>1, <1>3, <3>1, ProductMonotone
      <3>3. sum * (all + size) \in Nat
        BY <1>1, <1>3, ProductNat
      <3> QED
        BY <1>1, <2>9, <2>11, <3>2, <3>3
    <2> QED
      BY <1>3, <2>10, <2>12 DEF all, sum, cut, w, size, K
  <1> QED
    BY <1>1, <1>4, <1>5

(* Somebody who scored is kept, if anybody is kept and anybody scored: the *)
(* sum of the cut is positive.                                             *)
LEMMA CutPositive ==
    ASSUME NEW s \in Seq(Nat), NEW k \in Nat \ {0}, SumFunction(s) > 0
    PROVE  SumFunction(cut_to_max_allowed_weights(s, k)) > 0
  <1> DEFINE K == Kept(s, k)
             cut == cut_to_max_allowed_weights(s, k)
             sum == SumFunction(cut)
  <1>1. IsFiniteSet(DOMAIN s) /\ Len(s) \in Nat /\ \A u \in DOMAIN s : s[u] \in Nat
    BY ScoresIndexed
  <1>2. PICK u \in DOMAIN s : s[u] > 0
    <2>1. SumFunctionOnSet(s, DOMAIN s) > 0
      BY DEF SumFunction
    <2> QED
      BY <1>1, <2>1, SumPositive
  <1>3. K \in SUBSET DOMAIN s /\ IsFiniteSet(K) /\ Cardinality(K) = AtMost(k, Len(s))
    BY KeptSize
  <1>4. PICK v \in K : s[v] > 0
    <2>1. K # {}
      <3>1. Len(s) # 0
        BY <1>2, ScoresIndexed
      <3>2. Cardinality(K) # 0
        BY <1>1, <1>3, <3>1 DEF AtMost
      <3> HIDE DEF K
      <3> QED
        BY <3>2, FS_EmptySet
    <2>2. PICK v \in K : TRUE
      BY <2>1
    <2>3. CASE s[v] > 0
      BY <2>3
    <2>4. CASE ~(s[v] > 0)
      <3>1. s[u] > s[v]
        BY <1>1, <1>2, <1>3, <2>4
      <3>2. u \in K
        BY <3>1, HigherKept
      <3> QED
        BY <1>2, <3>2
    <2> QED
      BY <2>3, <2>4
  <1>5. /\ sum \in Nat /\ sum = SumFunctionOnSet(cut, K)
        /\ \A w \in K : cut[w] = s[w] /\ cut[w] \in Nat
    BY CutType
  <1> HIDE DEF K, cut, sum
  <1>6. cut[v] <= SumFunctionOnSet(cut, K)
    BY <1>3, <1>5, SumAtLeast
  <1> QED
    BY <1>1, <1>3, <1>4, <1>5, <1>6 DEF sum, cut

(* Among up to 38 miners nobody who has 30 of what another may have 800 of *)
(* at most is rounded to nothing.                                          *)
LEMMA LeastScoreCounts ==
    ASSUME NEW s \in Seq(Nat), NEW k \in Nat, k <= 38, NEW t \in Nat,
           \A u \in DOMAIN s : s[u] <= 800 * t,
           NEW u \in Kept(s, k), s[u] > 0, s[u] >= 30 * t
    PROVE  NewWeights(s, k)[u] > 0
  <1> DEFINE K == Kept(s, k)
             cut == cut_to_max_allowed_weights(s, k)
             sum == SumFunction(cut)
             R == K \ {u}
             top == [v \in R |-> 800 * t]
  <1>1. Len(s) \in Nat /\ \A v \in DOMAIN s : s[v] \in Nat
    BY ScoresIndexed
  <1>2. /\ K \in SUBSET DOMAIN s /\ IsFiniteSet(K)
        /\ Cardinality(K) \in Nat /\ Cardinality(K) <= k
    <2>1. K \in SUBSET DOMAIN s /\ IsFiniteSet(K) /\ Cardinality(K) = AtMost(k, Len(s))
      BY KeptSize
    <2> HIDE DEF K
    <2> QED
      BY <1>1, <2>1 DEF AtMost
  <1>3. /\ sum \in Nat /\ sum = SumFunctionOnSet(cut, K)
        /\ \A v \in K : cut[v] = s[v] /\ cut[v] \in Nat
    BY CutType
  <1>4. NewWeights(s, k)[u] = IntWeight(s[u], sum)
    BY VoteType
  <1>5. \A v \in R : top[v] = 800 * t /\ top[v] \in Int
    OBVIOUS
  <1>6. u \in K /\ u \in DOMAIN s
    BY <1>2
  <1> HIDE DEF K, cut, sum, top
  <1>7. IsFiniteSet(R) /\ Cardinality(R) \in Nat /\ Cardinality(R) <= 37
    <2>1. IsFiniteSet(R) /\ Cardinality(R) = Cardinality(K) - 1
      BY <1>2, <1>6, FS_RemoveElement
    <2>2. Cardinality(R) \in Nat
      BY <2>1, FS_CardinalityType
    <2> HIDE DEF R
    <2> QED
      BY <1>2, <2>1, <2>2
  <1>8. sum = s[u] + SumFunctionOnSet(cut, R)
    BY <1>2, <1>3, <1>6, SumRemove
  <1>9. SumFunctionOnSet(cut, R) <= SumFunctionOnSet(top, R)
    <2>1. \A v \in R : cut[v] \in Int /\ top[v] \in Int /\ cut[v] <= top[v]
      BY <1>2, <1>3, <1>5
    <2> HIDE DEF R
    <2> QED
      BY <1>7, <2>1, SumMonotone
  <1>10. SumFunctionOnSet(top, R) = (800 * t) * Cardinality(R)
    <2>1. 800 * t \in Int
      OBVIOUS
    <2> HIDE DEF R
    <2> QED
      BY <1>5, <1>7, <2>1, SumConstant
  <1>11. (800 * t) * Cardinality(R) <= (800 * t) * 37
    <2>1. 800 * t \in Nat
      OBVIOUS
    <2> HIDE DEF R
    <2> QED
      BY <1>7, <2>1, ProductMonotone
  <1>12. SumFunctionOnSet(cut, R) \in Nat
    <2>1. \A v \in R : cut[v] \in Nat
      BY <1>3
    <2> HIDE DEF R
    <2> QED
      BY <1>7, <2>1, SumNat
  <1>13. sum <= s[u] + 29600 * t
    <2>1. SumFunctionOnSet(cut, R) <= 29600 * t
      <3> DEFINE c == SumFunctionOnSet(cut, R)
                 d == SumFunctionOnSet(top, R)
                 e == (800 * t) * Cardinality(R)
      <3>1. c <= d /\ d = e /\ e <= 29600 * t /\ c \in Nat /\ e \in Int
        BY <1>7, <1>9, <1>10, <1>11, <1>12
      <3> HIDE DEF c, d, e
      <3> QED
        BY <3>1 DEF c
    <2> QED
      BY <1>1, <1>6, <1>8, <1>12, <2>1
  <1>14. sum <= 1000 * s[u] /\ sum # 0 /\ s[u] \in Nat
    BY <1>1, <1>3, <1>6, <1>8, <1>12, <1>13
  <1> DEFINE w == IntWeight(s[u], sum)
  <1>15. w \in Nat /\ 1000 * s[u] + 1 <= sum * (w + 1)
    <2>1. s[u] \in Nat /\ sum \in Nat \ {0} /\ w = IntWeight(s[u], sum)
      BY <1>3, <1>14
    <2> HIDE DEF R, w
    <2> QED
      BY <2>1, RoundedIs
  <1> HIDE DEF w
  <1>16. w # 0
    BY <1>3, <1>14, <1>15
  <1> QED
    BY <1>4, <1>15, <1>16 DEF w


-----------------------------------------------------------------------------
(* The invariant: the scores of the loop under way and the prompts they    *)
(* are weighted with; each score is that of a response, weighted; and the  *)
(* weights voted are those of the scores that are still there.             *)

Earned(x) == x \in Nat /\ x <= One /\ (x = 0 \/ x >= 150)

ScoresEarned ==
    \A u \in DOMAIN scores : \E n \in Networks, x \in Nat : Earned(x) /\ scores[u] = Weighted(x, n)

VoteComputed == vote = NoVote \/ vote = NewWeights(scores, allowed)

Inv ==
    /\ allowed \in AllowedCounts /\ prompts \in Prompts /\ scores \in Seq(Nat)
    /\ ScoreAtMostOne /\ ScoresEarned /\ VoteComputed

LEMMA InitInv == Init => Inv
  <1> SUFFICES ASSUME Init PROVE Inv
    OBVIOUS
  <1>1. allowed \in AllowedCounts /\ prompts \in Prompts
    BY AllocationAssumption DEF Init, Prompts
  <1>2. scores = <<>> /\ scores \in Seq(Nat) /\ DOMAIN scores = {} /\ vote = NoVote
    BY DEF Init
  <1> QED
    BY <1>1, <1>2 DEF Inv, ScoreAtMostOne, ScoresEarned, VoteComputed

LEMMA NextKeepsInv == Inv /\ [Next]_vars => Inv'
  <1> SUFFICES ASSUME Inv, [Next]_vars PROVE Inv'
    OBVIOUS
  <1>1. ASSUME NEW n \in Networks, NEW r \in Responses, NEW m \in Multipliers,
               ScoreMiner(n, r, m)
        PROVE  Inv'
    <2> DEFINE x == score_miner(r, m)
               s == Weighted(x, n)
    <2>1. x \in Nat /\ Earned(x) /\ s \in Nat /\ s <= One * Total(Adjusted)
      BY ScoreRange, ScoreSteps, WeightedRange, AllocationAssumption DEF Inv, Earned
    <2>2. /\ scores' = Append(scores, s) /\ prompts' = prompts /\ allowed' = allowed
          /\ Adjusted' = Adjusted /\ vote' = NoVote
      BY <1>1 DEF ScoreMiner, Adjusted
    <2>3. ASSUME NEW u \in DOMAIN scores'
          PROVE  /\ scores'[u] <= One * Total(Adjusted)
                 /\ \E k \in Networks, y \in Nat : Earned(y) /\ scores'[u] = Weighted(y, k)
      <3>1. scores \in Seq(Nat) /\ ScoreAtMostOne /\ ScoresEarned
        BY DEF Inv
      <3>2. CASE u = Len(scores) + 1
        <4>1. scores'[u] = s
          BY <2>1, <2>2, <3>1, <3>2
        <4> HIDE DEF x
        <4> QED
          BY <2>1, <4>1
      <3>3. CASE u # Len(scores) + 1
        <4> HIDE DEF s
        <4>1. u \in DOMAIN scores /\ scores'[u] = scores[u]
          BY <2>1, <2>2, <2>3, <3>1, <3>3
        <4> QED
          BY <3>1, <4>1 DEF ScoreAtMostOne, ScoresEarned
      <3> QED
        BY <3>2, <3>3
    <2>4. \A y, k : Weighted(y, k)' = Weighted(y, k)
      BY <2>2 DEF Weighted
    <2>5. ScoresEarned' /\ ScoreAtMostOne'
      BY <2>2, <2>3, <2>4 DEF ScoresEarned, ScoreAtMostOne
    <2>6. scores' \in Seq(Nat)
      BY <2>1, <2>2 DEF Inv
    <2> QED
      BY <2>2, <2>5, <2>6 DEF Inv, VoteComputed, NoVote
  <1>2. CASE SetWeights
    BY <1>2 DEF SetWeights, Inv, ScoreAtMostOne, Adjusted, ScoresEarned, Weighted, VoteComputed
  <1>3. CASE NextEpoch
    BY <1>3 DEF NextEpoch, Inv, ScoreAtMostOne, ScoresEarned, VoteComputed
  <1>4. CASE UNCHANGED vars
    BY <1>4 DEF vars, Inv, ScoreAtMostOne, Adjusted, ScoresEarned, Weighted, VoteComputed
  <1> QED
    BY <1>1, <1>2, <1>3, <1>4 DEF Next

LEMMA Invariant == Spec => []Inv
  BY InitInv, NextKeepsInv, PTL DEF Spec

-----------------------------------------------------------------------------

(* Scores and weights are natural numbers, and nobody is voted who has no  *)
(* score, in every configuration.                                          *)
THEOREM TypeCorrect == Spec => []TypeOK
  <1>1. ASSUME Inv PROVE TypeOK
    <2>1. allowed \in Nat /\ scores \in Seq(Nat) /\ prompts \in Prompts
      BY <1>1, AllocationAssumption DEF Inv
    <2>2. DOMAIN vote \in SUBSET DOMAIN scores /\ \A u \in DOMAIN vote : vote[u] \in Nat
      <3>1. CASE vote = NoVote
        BY <3>1 DEF NoVote
      <3>2. CASE vote = NewWeights(scores, allowed)
        BY <2>1, <3>2, VoteType, KeptSize
      <3> QED
        BY <1>1, <3>1, <3>2 DEF Inv, VoteComputed
    <2> QED
      BY <1>1, <2>1, <2>2, ScoresIndexed DEF TypeOK, Inv, Prompts
  <1> QED
    BY <1>1, Invariant, PTL

(* The assertion in the scoring loop never fails, whatever the prompts and *)
(* the receipts, the base weights and the number of miners.                *)
THEOREM ScoresBounded == Spec => []ScoreAtMostOne
  <1>1. Inv => ScoreAtMostOne
    BY DEF Inv
  <1> QED
    BY <1>1, Invariant, PTL

(* Once there are prompts every network keeps its minimum influence,       *)
(* whatever the base weights, those included that make the adjusted        *)
(* weights exceed 100 and be scaled (validator.py:208); without prompts it *)
(* does if the base weights give it that much.                             *)
THEOREM InfluenceKept == Spec => [](IsFloored(prompts) => InfluenceFloor)
  <1>1. Inv => (IsFloored(prompts) => InfluenceFloor)
    BY AdjustedFloor DEF Inv, InfluenceFloor, Adjusted
  <1> QED
    BY <1>1, Invariant, PTL

(* The vote orders the miners as their scores do, whatever their number    *)
(* and the number of weights allowed: a higher score is cut off and        *)
(* rounded down no sooner than a lower one.                                *)
THEOREM VotesFollowScores == Spec => []VoteFollowsScores
  <1>1. ASSUME Inv PROVE VoteFollowsScores
    <2>1. allowed \in Nat /\ scores \in Seq(Nat)
      BY <1>1, AllocationAssumption DEF Inv
    <2> SUFFICES ASSUME NEW u \in DOMAIN scores, NEW v \in DOMAIN scores,
                        v \in DOMAIN vote, scores[u] > scores[v]
                 PROVE  u \in DOMAIN vote /\ vote[u] >= vote[v]
      BY DEF VoteFollowsScores
    <2>2. vote = NewWeights(scores, allowed)
      BY <1>1 DEF Inv, VoteComputed, NoVote
    <2> DEFINE sum == SumFunction(cut_to_max_allowed_weights(scores, allowed))
    <2>3. /\ DOMAIN vote = Kept(scores, allowed)
          /\ \A w \in DOMAIN vote : vote[w] = IntWeight(scores[w], sum) /\ vote[w] \in Nat
      BY <2>1, <2>2, VoteType
    <2>4. sum \in Nat
      BY <2>1, CutType
    <2> HIDE DEF sum
    <2>5. u \in DOMAIN vote
      BY <2>1, <2>3, HigherKept
    <2>6. scores[u] \in Nat /\ scores[v] \in Nat /\ scores[v] <= scores[u]
      BY <2>1, ScoresIndexed
    <2>7. IntWeight(scores[v], sum) <= IntWeight(scores[u], sum)
      BY <2>4, <2>6, RoundedMonotone
    <2> QED
      BY <2>3, <2>5, <2>7
  <1> QED
    BY <1>1, Invariant, PTL

(* As many miners as allowed are voted, and what rounding down leaves of   *)
(* the 1000 is less than a unit for each of them. With no weight allowed   *)
(* nothing is shared out.                                                  *)
THEOREM BudgetSpent ==
    ASSUME 0 \notin AllowedCounts
    PROVE  Spec => []VoteWithinBudget
  <1>1. ASSUME Inv PROVE VoteWithinBudget
    <2> SUFFICES ASSUME vote # NoVote
                 PROVE  /\ Cardinality(DOMAIN vote) = AtMost(allowed, Len(scores))
                        /\ SumFunction(vote) <= 1000
                        /\ SumFunction(scores) > 0 => SumFunction(vote) > 1000 - allowed
      BY DEF VoteWithinBudget
    <2>1. allowed \in Nat \ {0} /\ scores \in Seq(Nat)
      BY <1>1, AllocationAssumption DEF Inv
    <2>2. vote = NewWeights(scores, allowed)
      BY <1>1 DEF Inv, VoteComputed
    <2> DEFINE sum == SumFunction(cut_to_max_allowed_weights(scores, allowed))
               size == Cardinality(Kept(scores, allowed))
    <2>3. DOMAIN vote = Kept(scores, allowed)
      BY <2>1, <2>2, VoteType
    <2>4. size = AtMost(allowed, Len(scores)) /\ size \in Nat /\ size <= allowed
      <3>1. size = AtMost(allowed, Len(scores)) /\ Len(scores) \in Nat
        BY <2>1, KeptSize
      <3> HIDE DEF size
      <3> QED
        BY <2>1, <3>1 DEF AtMost
    <2>5. /\ SumFunction(vote) \in Nat /\ SumFunction(vote) <= 1000
          /\ sum > 0 => SumFunction(vote) + size > 1000
      BY <2>1, <2>2, VoteShares
    <2>6. SumFunction(scores) > 0 => sum > 0
      BY <2>1, CutPositive
    <2> HIDE DEF sum, size
    <2> QED
      BY <2>1, <2>3, <2>4, <2>5, <2>6 DEF size
  <1> QED
    BY <1>1, Invariant, PTL

(* Rounding takes nobody's last weight while no more than 38 miners are    *)
(* voted, six more than in the deployed configuration, however many there  *)
(* are and however the networks are used.                                  *)
THEOREM ScoresCount ==
    ASSUME BaseAtLeastMinimum, \A k \in AllowedCounts : k <= 38
    PROVE  Spec => []EveryScoreCounts
  <1>1. ASSUME Inv PROVE EveryScoreCounts
    <2>1. allowed \in Nat /\ allowed <= 38 /\ scores \in Seq(Nat)
      BY <1>1, AllocationAssumption DEF Inv
    <2> SUFFICES ASSUME NEW u \in DOMAIN vote, scores[u] > 0 PROVE vote[u] > 0
      BY DEF EveryScoreCounts
    <2>2. vote = NewWeights(scores, allowed)
      BY <1>1 DEF Inv, VoteComputed, NoVote
    <2>3. u \in Kept(scores, allowed) /\ u \in DOMAIN scores
      BY <2>1, <2>2, VoteType, KeptSize
    <2> DEFINE a == Adjusted.bitcoin
               b == Adjusted.commune
               t == Total(Adjusted)
    <2>4. /\ a \in Nat /\ b \in Nat /\ t = a + b
          /\ 100 * a >= 20 * t /\ 100 * b >= 20 * t
      <3>1. /\ Adjusted \in [Networks -> Nat]
            /\ \A n \in Networks : 100 * Adjusted[n] >= MinThreshold * Total(Adjusted)
        BY <1>1, AdjustedFloor DEF Inv, Adjusted, IsFloored
      <3>2. a \in Nat /\ b \in Nat /\ t = a + b
        BY <3>1 DEF Networks, Total
      <3>3. 100 * Adjusted["bitcoin"] >= 20 * t /\ 100 * Adjusted["commune"] >= 20 * t
        BY <3>1 DEF Networks, MinThreshold
      <3> HIDE DEF t
      <3> QED
        BY <3>2, <3>3
    <2>5. ASSUME NEW v \in DOMAIN scores
          PROVE  scores[v] <= 800 * t /\ (scores[v] > 0 => scores[v] >= 30 * t)
      <3>1. PICK n \in Networks, x \in Nat : Earned(x) /\ scores[v] = Weighted(x, n)
        BY <1>1 DEF Inv, ScoresEarned
      <3> DEFINE c == Adjusted[n]
      <3>2. c \in Nat /\ 5 * c >= t /\ 5 * c <= 4 * t /\ t \in Nat
        <4>1. c = a \/ c = b
          BY DEF Networks
        <4> HIDE DEF a, b, c, t
        <4> QED
          BY <2>4, <4>1
      <3>3. scores[v] = x * c
        BY <3>1 DEF Weighted
      <3> HIDE DEF c, t
      <3>4. x * c <= 1000 * c
        <4>1. c * x <= c * 1000
          BY <3>1, <3>2, ProductMonotone DEF Earned, One
        <4> QED
          BY <3>1, <3>2, <4>1
      <3>5. x # 0 => 150 * c <= x * c
        <4>1. x # 0 => c * 150 <= c * x
          BY <3>1, <3>2, ProductMonotone DEF Earned
        <4> QED
          BY <3>1, <3>2, <4>1
      <3>6. x = 0 => x * c = 0
        BY <3>2
      <3> DEFINE y == x * c
      <3>7. y \in Nat /\ y <= 1000 * c /\ (x # 0 => 150 * c <= y) /\ (x = 0 => y = 0)
        BY <3>1, <3>2, <3>4, <3>5, <3>6, ProductNat
      <3> HIDE DEF y
      <3>8. y <= 800 * t /\ (y > 0 => y >= 30 * t)
        BY <3>1, <3>2, <3>7
      <3> QED
        BY <3>3, <3>8 DEF y
    <2>6. t \in Nat
      BY <2>4
    <2> HIDE DEF t
    <2>7. NewWeights(scores, allowed)[u] > 0
      BY <2>1, <2>3, <2>5, <2>6, LeastScoreCounts
    <2> QED
      BY <2>2, <2>7
  <1> QED
    BY <1>1, Invariant, PTL
=============================================================================
