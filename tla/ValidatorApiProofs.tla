-------------------------- MODULE ValidatorApiProofs --------------------------
(***************************************************************************)
(* The rate limiter keeps its limit for every limit and every window, with *)
(* any number of requests under way and their pipelines in any order; and  *)
(* what the routes behind it draw is complete and as paid, for every graph *)
(* of payments and paths of any length. A request that is sent on to       *)
(* miners always has a sample of them to ask, and boundedly many steps.    *)
(***************************************************************************)
EXTENDS ValidatorApi, OrganicQuery, SumLemmas

Recent == {s \in passed : InWindow(s, now)}

(* Whoever passed in the window is still stored, so that the next pipeline *)
(* counts it: what has been removed, by whatever delayed pipeline or by    *)
(* Redis, is older.                                                        *)
LimiterInv ==
    /\ now \in Nat /\ touched \in Nat /\ touched <= now
    /\ waiting \subseteq 0..now /\ hits \subseteq 0..now /\ passed \subseteq 0..now
    /\ \A s \in Recent : s \in hits /\ s <= touched
    /\ Cardinality(Recent) <= MaxRequests

LEMMA FiniteSeconds ==
    ASSUME NEW n \in Nat, NEW S \in SUBSET (0..n)
    PROVE  IsFiniteSet(S) /\ Cardinality(S) \in Nat
  <1>1. IsFiniteSet(0..n)
    BY FS_Interval
  <1> QED
    BY <1>1, FS_Subset, FS_CardinalityType

(* Fewer seconds are no more.                                              *)
LEMMA FewerSeconds ==
    ASSUME NEW n \in Nat, NEW S \in SUBSET (0..n), NEW T \in SUBSET S,
           NEW k \in Nat, Cardinality(S) <= k
    PROVE  Cardinality(T) <= k
  <1>1. IsFiniteSet(S) /\ Cardinality(S) \in Nat
    BY FiniteSeconds
  <1>2. IsFiniteSet(T) /\ Cardinality(T) \in Nat /\ Cardinality(T) <= Cardinality(S)
    BY <1>1, FS_Subset, FS_CardinalityType
  <1> QED
    BY <1>1, <1>2

-----------------------------------------------------------------------------
LEMMA InitLimiter == ApiInit => LimiterInv
  <1> SUFFICES ASSUME ApiInit PROVE LimiterInv
    OBVIOUS
  <1>1. now = 1 /\ touched = 0 /\ waiting = {} /\ hits = {} /\ passed = {} /\ Recent = {}
    BY DEF ApiInit, Recent
  <1>2. Cardinality(Recent) = 0
    BY <1>1, FS_EmptySet
  <1> QED
    BY <1>1, <1>2, ApiAssumption DEF LimiterInv

LEMMA TickLimiter == ASSUME LimiterInv, Tick PROVE LimiterInv'
  <1>1. /\ now' = now + 1 /\ UNCHANGED <<waiting, hits, touched>>
        /\ passed' = {s \in passed : InWindow(s, now + 1)}
    BY DEF Tick
  <1>2. Recent \subseteq 0..now
    BY DEF Recent, LimiterInv
  <1>3. Recent' \subseteq Recent
    <2> SUFFICES ASSUME NEW s \in Recent' PROVE s \in Recent
      OBVIOUS
    <2>1. s \in passed /\ s > (now + 1) - Window
      BY <1>1 DEF Recent, InWindow
    <2>2. s \in Nat /\ now \in Nat
      BY <2>1 DEF LimiterInv
    <2> QED
      BY <2>1, <2>2, ApiAssumption DEF Recent, InWindow
  <1>6. Cardinality(Recent') <= MaxRequests
    BY <1>2, <1>3, FewerSeconds, ApiAssumption DEF LimiterInv
  <1>4. /\ now' \in Nat /\ touched' \in Nat /\ touched' <= now'
        /\ waiting' \subseteq 0..now' /\ hits' \subseteq 0..now' /\ passed' \subseteq 0..now'
    <2>1. now \in Nat /\ 0..now \subseteq 0..(now + 1)
      BY DEF LimiterInv
    <2>2. passed' \subseteq passed
      BY <1>1
    <2>3. touched <= now + 1
      BY DEF LimiterInv
    <2>4. /\ waiting \subseteq 0..(now + 1) /\ hits \subseteq 0..(now + 1)
          /\ passed' \subseteq 0..(now + 1)
      BY <2>1, <2>2 DEF LimiterInv
    <2>5. now + 1 \in Nat /\ touched \in Nat
      BY DEF LimiterInv
    <2> QED
      BY <1>1, <2>3, <2>4, <2>5
  <1>5. \A s \in Recent' : s \in hits' /\ s <= touched'
    BY <1>1, <1>3 DEF LimiterInv
  <1> QED
    BY <1>4, <1>5, <1>6 DEF LimiterInv

(* What a pipeline keeps of the seconds that passed.                       *)
LEMMA PipelineKeeps ==
    ASSUME LimiterInv, NEW t \in waiting, NEW h \in Stored, Pipeline(h, t)
    PROVE  /\ now' = now /\ touched' = now /\ waiting' \subseteq waiting
           /\ hits' = Counted(h, t) /\ hits' \subseteq 0..now
           /\ \A s \in Recent : s \in Counted(h, t) /\ s <= now
  <1>1. /\ now' = now /\ touched' = now /\ waiting' \subseteq waiting
        /\ hits' = Counted(h, t)
    BY DEF Pipeline
  <1>2. h \in {hits, {}} /\ t \in 0..now
    BY DEF Stored, LimiterInv
  <1>3. hits' \subseteq 0..now
    BY <1>1, <1>2 DEF Counted, LimiterInv
  <1>4. ASSUME NEW s \in Recent
        PROVE  s \in Counted(h, t) /\ s <= now
    <2>1. s \in 0..now /\ s \in hits /\ s <= touched /\ s > now - Window
      <3>1. s \in passed /\ s > now - Window
        BY DEF Recent, InWindow
      <3> QED
        BY <3>1 DEF LimiterInv
    <2>2. now < touched + Window /\ ~(now >= touched + Window)
      BY <2>1, ApiAssumption DEF LimiterInv
    <2>3. h = hits
      BY <2>2 DEF Stored
    <2>4. s > t - Window
      BY <1>2, <2>1, ApiAssumption DEF LimiterInv
    <2> QED
      BY <2>1, <2>3, <2>4 DEF Counted, InWindow
  <1> QED
    BY <1>1, <1>3, <1>4

(* A pipeline without a request let through.                               *)
LEMMA RefusedLimiter ==
    ASSUME LimiterInv, NEW t \in waiting, NEW h \in Stored, Pipeline(h, t), passed' = passed
    PROVE  LimiterInv'
  <1>1. /\ now' = now /\ touched' = now /\ waiting' \subseteq waiting
        /\ hits' = Counted(h, t) /\ hits' \subseteq 0..now
        /\ \A s \in Recent : s \in Counted(h, t) /\ s <= now
    BY PipelineKeeps
  <1>2. Recent' = Recent
    BY <1>1 DEF Recent
  <1> QED
    BY <1>1, <1>2 DEF LimiterInv

LEMMA PassLimiter == ASSUME LimiterInv, NEW t \in waiting, Pass(t) PROVE LimiterInv'
  <1>1. PICK h \in Stored : Fits(h, t) /\ Pipeline(h, t)
    BY DEF Pass
  <1>2. passed' = passed \union {t} /\ t \in 0..now
    BY DEF Pass, LimiterInv
  <1>3. /\ now' = now /\ touched' = now /\ waiting' \subseteq waiting
        /\ hits' = Counted(h, t) /\ hits' \subseteq 0..now
        /\ \A s \in Recent : s \in Counted(h, t) /\ s <= now
    BY <1>1, PipelineKeeps
  <1>4. Recent' \subseteq Recent \union {t}
    BY <1>2, <1>3 DEF Recent
  <1>5. Recent' \subseteq Counted(h, t)
    BY <1>3, <1>4 DEF Counted
  <1>6. Cardinality(Recent') <= MaxRequests
    BY <1>1, <1>3, <1>5, FewerSeconds, ApiAssumption DEF Fits, LimiterInv
  <1> QED
    BY <1>2, <1>3, <1>4, <1>5, <1>6 DEF LimiterInv

LEMMA NextLimiter == LimiterInv /\ [ApiNext]_apiVars => LimiterInv'
  <1> SUFFICES ASSUME LimiterInv, [ApiNext]_apiVars PROVE LimiterInv'
    OBVIOUS
  <1>1. CASE Tick
    BY <1>1, TickLimiter
  <1>2. CASE Arrive
    <2>1. waiting' = waiting \union {now} /\ UNCHANGED <<now, hits, touched, passed>>
      BY <1>2 DEF Arrive
    <2>2. Recent' = Recent
      BY <2>1 DEF Recent
    <2> QED
      BY <2>1, <2>2 DEF LimiterInv
  <1>3. ASSUME NEW t \in waiting, TooManyRequests(t) \/ Pass(t) \/ RedisFails(t)
        PROVE  LimiterInv'
    <2>1. CASE TooManyRequests(t)
      BY <2>1, RefusedLimiter DEF TooManyRequests
    <2>2. CASE Pass(t)
      BY <2>2, PassLimiter
    <2>3. CASE RedisFails(t)
      <3>1. CASE \E h \in Stored : Pipeline(h, t)
        BY <2>3, <3>1, RefusedLimiter DEF RedisFails
      <3>2. CASE waiting' = waiting \ {t} /\ UNCHANGED <<now, hits, touched>>
        <4>1. Recent' = Recent
          BY <2>3, <3>2 DEF RedisFails, Recent
        <4> QED
          BY <2>3, <3>2, <4>1 DEF RedisFails, LimiterInv
      <3> QED
        BY <2>3, <3>1, <3>2 DEF RedisFails, vars
    <2> QED
      BY <1>3, <2>1, <2>2, <2>3
  <1>4. CASE Route \/ UNCHANGED apiVars
    <2>1. UNCHANGED limiterVars
      BY <1>4 DEF Route, NoGraph, Transform, DrawEntry, format_response, apiVars
    <2>2. Recent' = Recent /\ UNCHANGED <<now, waiting, hits, touched, passed>>
      BY <2>1 DEF limiterVars, Recent
    <2> QED
      BY <2>2 DEF LimiterInv
  <1> QED
    BY <1>1, <1>2, <1>3, <1>4 DEF ApiNext

-----------------------------------------------------------------------------
(* However late their pipelines are, the requests that pass have been read *)
(* at no more than max_requests different seconds of any window.           *)
THEOREM LimitIsKept == ApiSpec => []LimitHolds
  <1>1. LimiterInv => LimitHolds
    BY DEF LimiterInv, LimitHolds, Recent
  <1> QED
    BY <1>1, InitLimiter, NextLimiter, PTL DEF ApiSpec

-----------------------------------------------------------------------------
(* The graph. What is said of the output after every record is said of the *)
(* output under construction, and kept by each node and edge added to it.  *)

Ids == Addresses \union Transactions

Item == [type : {"node"}, id : Ids] \union [type : {"edge"}, from_id : Ids, to_id : Ids]

DrawnType(d) ==
    /\ d \in [data : Seq(Item), txs : SUBSET Transactions, addrs : SUBSET Addresses,
              edges : SUBSET (Ids \X Ids)]
    /\ \A id \in Ids : id \in d.txs \union d.addrs <=> \E i \in DOMAIN d.data : d.data[i] = Node(id)
    /\ \A x, y \in Ids : <<x, y>> \in d.edges <=> \E i \in DOMAIN d.data : d.data[i] = Edge(x, y)

Once(items) == \A i, j \in DOMAIN items : items[i] = items[j] => i = j

EndsFirst(items) ==
    \A j \in DOMAIN items : items[j].type = "edge" =>
        \A id \in {items[j].from_id, items[j].to_id} : \E i \in 1..(j - 1) : items[i] = Node(id)

Sound(d) == DrawnType(d) /\ Once(d.data) /\ EndsFirst(d.data)

(* The nodes among the items.                                              *)
Shown(d) == d.txs \union d.addrs

LEMMA Appended ==
    ASSUME NEW s \in Seq(Item), NEW e \in Item
    PROVE  /\ Append(s, e) \in Seq(Item)
           /\ DOMAIN s = 1..Len(s) /\ Len(s) \in Nat
           /\ DOMAIN Append(s, e) = 1..(Len(s) + 1)
           /\ \A i \in DOMAIN s : Append(s, e)[i] = s[i]
           /\ Append(s, e)[Len(s) + 1] = e
           /\ \A i \in DOMAIN Append(s, e) : i \in DOMAIN s \/ i = Len(s) + 1
  OBVIOUS

LEMMA ItemKinds ==
    /\ \A id \in Ids : Node(id) \in Item /\ Node(id).type = "node" /\ Node(id).id = id
    /\ \A x, y \in Ids : /\ Edge(x, y) \in Item /\ Edge(x, y).type = "edge"
                         /\ Edge(x, y).from_id = x /\ Edge(x, y).to_id = y
    /\ \A id, x, y \in Ids : Node(id) # Edge(x, y)
  BY DEF Node, Edge, Item

(* What is new may be appended, an edge when its ends are shown.           *)
LEMMA AppendedSound ==
    ASSUME NEW s \in Seq(Item), Once(s), EndsFirst(s), NEW e \in Item,
           \A i \in DOMAIN s : s[i] # e,
           e.type = "edge" => \A id \in {e.from_id, e.to_id} : \E i \in DOMAIN s : s[i] = Node(id)
    PROVE  Once(Append(s, e)) /\ EndsFirst(Append(s, e))
  <1> DEFINE t == Append(s, e)
  <1>1. /\ DOMAIN s = 1..Len(s) /\ Len(s) \in Nat /\ DOMAIN t = 1..(Len(s) + 1)
        /\ \A i \in DOMAIN s : t[i] = s[i]
        /\ t[Len(s) + 1] = e
        /\ \A i \in DOMAIN t : i \in DOMAIN s \/ i = Len(s) + 1
    BY Appended
  <1> HIDE DEF t
  <1>2. Once(t)
    BY <1>1 DEF Once
  <1>3. ASSUME NEW j \in DOMAIN t, t[j].type = "edge", NEW id \in {t[j].from_id, t[j].to_id}
        PROVE  \E i \in 1..(j - 1) : t[i] = Node(id)
    <2>1. CASE j \in DOMAIN s
      <3>1. PICK i \in 1..(j - 1) : s[i] = Node(id)
        BY <1>1, <1>3, <2>1 DEF EndsFirst
      <3>2. i \in DOMAIN s
        BY <1>1, <2>1
      <3> QED
        BY <1>1, <3>1, <3>2
    <2>2. CASE j = Len(s) + 1
      <3>1. PICK i \in DOMAIN s : s[i] = Node(id)
        BY <1>1, <1>3, <2>2
      <3>2. i \in 1..(j - 1)
        BY <1>1, <2>2
      <3> QED
        BY <1>1, <3>1, <3>2
    <2> QED
      BY <1>1, <2>1, <2>2
  <1>4. EndsFirst(t)
    BY <1>3 DEF EndsFirst
  <1> QED
    BY <1>2, <1>4 DEF t

LEMMA DrawnFields ==
    ASSUME NEW d, DrawnType(d)
    PROVE  /\ d.data \in Seq(Item) /\ d.txs \subseteq Transactions /\ d.addrs \subseteq Addresses
           /\ d.edges \subseteq Ids \X Ids
           /\ d = [data |-> d.data, txs |-> d.txs, addrs |-> d.addrs, edges |-> d.edges]
  BY DEF DrawnType

(* The two kinds of node.                                                  *)
LEMMA NodeAdded ==
    ASSUME NEW d, Sound(d), NEW id \in Ids, id \notin Shown(d),
           NEW txs \in SUBSET Transactions, NEW addrs \in SUBSET Addresses,
           txs \union addrs = Shown(d) \union {id},
           NEW e, e = [data |-> Append(d.data, Node(id)), txs |-> txs, addrs |-> addrs,
                       edges |-> d.edges]
    PROVE  Sound(e)
  <1> DEFINE s == d.data
             t == Append(s, Node(id))
  <1>1. /\ s \in Seq(Item) /\ d.edges \subseteq Ids \X Ids /\ Node(id) \in Item
        /\ Node(id).type = "node"
    BY DrawnFields, ItemKinds DEF Sound
  <1>2. \A i \in DOMAIN s : s[i] # Node(id)
    BY DEF Sound, DrawnType, Shown
  <1>3. /\ t \in Seq(Item) /\ \A i \in DOMAIN s : i \in DOMAIN t /\ t[i] = s[i]
        /\ Len(s) + 1 \in DOMAIN t /\ t[Len(s) + 1] = Node(id)
        /\ \A i \in DOMAIN t : i \in DOMAIN s \/ i = Len(s) + 1
    BY <1>1, Appended
  <1>4. Once(t) /\ EndsFirst(t)
    BY <1>1, <1>2, AppendedSound DEF Sound
  <1> HIDE DEF t
  <1>5. \A k \in Ids : (\E i \in DOMAIN t : t[i] = Node(k))
                           <=> k = id \/ \E i \in DOMAIN s : s[i] = Node(k)
    BY <1>3, ItemKinds
  <1>6. \A x, y \in Ids : (\E i \in DOMAIN t : t[i] = Edge(x, y))
                              <=> \E i \in DOMAIN s : s[i] = Edge(x, y)
    BY <1>3, ItemKinds
  <1>7. e = [data |-> t, txs |-> txs, addrs |-> addrs, edges |-> d.edges]
    BY DEF t
  <1>8. /\ e.data = t /\ e.edges = d.edges /\ e.txs \union e.addrs = d.txs \union d.addrs \union {id}
        /\ e \in [data : Seq(Item), txs : SUBSET Transactions, addrs : SUBSET Addresses,
                  edges : SUBSET (Ids \X Ids)]
    BY <1>1, <1>3, <1>7 DEF Shown
  <1>9. DrawnType(e)
    <2>1. \A k \in Ids : k \in d.txs \union d.addrs <=> \E i \in DOMAIN s : s[i] = Node(k)
      BY DEF Sound, DrawnType
    <2>2. \A x, y \in Ids : <<x, y>> \in d.edges <=> \E i \in DOMAIN s : s[i] = Edge(x, y)
      BY DEF Sound, DrawnType
    <2> HIDE DEF s
    <2>3. \A k \in Ids : k \in e.txs \union e.addrs <=> \E i \in DOMAIN t : t[i] = Node(k)
      <3> SUFFICES ASSUME NEW k \in Ids
                   PROVE  k \in e.txs \union e.addrs <=> \E i \in DOMAIN t : t[i] = Node(k)
        OBVIOUS
      <3>1. k \in e.txs \union e.addrs <=> k \in d.txs \union d.addrs \/ k = id
        BY <1>8
      <3> QED
        BY <1>5, <2>1, <3>1
    <2>4. \A x, y \in Ids : <<x, y>> \in e.edges <=> \E i \in DOMAIN t : t[i] = Edge(x, y)
      BY <1>6, <1>8, <2>2
    <2>5. /\ \A k \in Ids : k \in e.txs \union e.addrs <=> \E i \in DOMAIN e.data : e.data[i] = Node(k)
          /\ \A x, y \in Ids :
                <<x, y>> \in e.edges <=> \E i \in DOMAIN e.data : e.data[i] = Edge(x, y)
      <3>1. e.data = t
        BY <1>8
      <3> QED
        BY ONLY <2>3, <2>4, <3>1
    <2>6. e \in [data : Seq(Item), txs : SUBSET Transactions, addrs : SUBSET Addresses,
                 edges : SUBSET (Ids \X Ids)]
      BY <1>8
    <2> QED
      BY ONLY <2>5, <2>6 DEF DrawnType
  <1> QED
    BY <1>4, <1>8, <1>9 DEF Sound

LEMMA TransactionAdded ==
    ASSUME NEW d, Sound(d), NEW t \in Transactions \union {None}
    PROVE  /\ Sound(AddTransaction(d, t)) /\ AddTransaction(d, t).edges = d.edges
           /\ Shown(AddTransaction(d, t)) = Shown(d) \union ({t} \ {None})
  <1> USE GraphAssumption
  <1>1. CASE t = None \/ t \in d.txs
    BY <1>1 DEF AddTransaction, Shown
  <1>2. CASE t # None /\ t \notin d.txs
    <2> DEFINE e == [data |-> Append(d.data, Node(t)), txs |-> d.txs \union {t},
                     addrs |-> d.addrs, edges |-> d.edges]
    <2>1. /\ d.txs \subseteq Transactions /\ d.addrs \subseteq Addresses
          /\ d = [data |-> d.data, txs |-> d.txs, addrs |-> d.addrs, edges |-> d.edges]
      BY DrawnFields DEF Sound
    <2>2. AddTransaction(d, t) = e
      BY <1>2, <2>1 DEF AddTransaction
    <2>3. t \in Ids /\ t \notin Shown(d) /\ e.txs \union e.addrs = Shown(d) \union {t}
      BY <1>2, <2>1 DEF Ids, Shown
    <2>4. Sound(e)
      BY <1>2, <2>1, <2>3, NodeAdded
    <2> QED
      BY <1>2, <2>2, <2>3, <2>4 DEF Shown
  <1> QED
    BY <1>1, <1>2

LEMMA AddressAdded ==
    ASSUME NEW d, Sound(d), NEW a \in Addresses \union {None}
    PROVE  /\ Sound(AddAddress(d, a)) /\ AddAddress(d, a).edges = d.edges
           /\ Shown(AddAddress(d, a)) = Shown(d) \union ({a} \ {None})
  <1> USE GraphAssumption
  <1>1. CASE a = None \/ a \in d.addrs
    BY <1>1 DEF AddAddress, Shown
  <1>2. CASE a # None /\ a \notin d.addrs
    <2> DEFINE e == [data |-> Append(d.data, Node(a)), txs |-> d.txs,
                     addrs |-> d.addrs \union {a}, edges |-> d.edges]
    <2>1. /\ d.txs \subseteq Transactions /\ d.addrs \subseteq Addresses
          /\ d = [data |-> d.data, txs |-> d.txs, addrs |-> d.addrs, edges |-> d.edges]
      BY DrawnFields DEF Sound
    <2>2. AddAddress(d, a) = e
      BY <1>2, <2>1 DEF AddAddress
    <2>3. /\ a \in Ids /\ a \notin Shown(d) /\ d.txs \union (d.addrs \union {a}) = Shown(d) \union {a}
          /\ d.txs \in SUBSET Transactions /\ d.addrs \union {a} \in SUBSET Addresses
      BY <1>2, <2>1 DEF Ids, Shown
    <2>4. Sound(e)
      BY <2>3, NodeAdded
    <2> QED
      BY <1>2, <2>2, <2>3, <2>4 DEF Shown
  <1> QED
    BY <1>1, <1>2

(* The edge a payment s stands for, between x and y.                       *)
Line(s, x, y) == IF s = NoPayment \/ x = None \/ y = None THEN {} ELSE {<<x, y>>}

LEMMA EdgeAdded ==
    ASSUME NEW d, Sound(d), NEW s, NEW x \in Shown(d) \union {None}, NEW y \in Shown(d) \union {None}
    PROVE  /\ Sound(AddEdge(d, s, x, y)) /\ Shown(AddEdge(d, s, x, y)) = Shown(d)
           /\ AddEdge(d, s, x, y).edges = d.edges \union Line(s, x, y)
  <1>1. CASE s = NoPayment \/ x = None \/ y = None \/ <<x, y>> \in d.edges
    BY <1>1 DEF AddEdge, Shown, Line
  <1>2. CASE s # NoPayment /\ x # None /\ y # None /\ <<x, y>> \notin d.edges
    <2> DEFINE items == d.data
               e == [data |-> Append(items, Edge(x, y)), txs |-> d.txs, addrs |-> d.addrs,
                     edges |-> d.edges \union {<<x, y>>}]
               t == Append(items, Edge(x, y))
    <2>1. /\ items \in Seq(Item) /\ d.edges \subseteq Ids \X Ids
          /\ d.txs \subseteq Transactions /\ d.addrs \subseteq Addresses
          /\ d = [data |-> d.data, txs |-> d.txs, addrs |-> d.addrs, edges |-> d.edges]
      BY DrawnFields DEF Sound
    <2>2. AddEdge(d, s, x, y) = e
      BY <1>2, <2>1 DEF AddEdge
    <2>3. x \in Ids /\ y \in Ids /\ x \in Shown(d) /\ y \in Shown(d)
      BY <1>2, <2>1 DEF Shown, Ids
    <2>4. /\ Edge(x, y) \in Item /\ Edge(x, y).from_id = x /\ Edge(x, y).to_id = y
      BY <2>3, ItemKinds
    <2>5. /\ \A i \in DOMAIN items : items[i] # Edge(x, y)
          /\ \A id \in {x, y} : \E i \in DOMAIN items : items[i] = Node(id)
      BY <1>2, <2>3 DEF Sound, DrawnType, Shown
    <2>6. /\ t \in Seq(Item) /\ \A i \in DOMAIN items : i \in DOMAIN t /\ t[i] = items[i]
          /\ Len(items) + 1 \in DOMAIN t /\ t[Len(items) + 1] = Edge(x, y)
          /\ \A i \in DOMAIN t : i \in DOMAIN items \/ i = Len(items) + 1
      BY <2>1, <2>4, Appended
    <2>7. Once(t) /\ EndsFirst(t)
      BY <2>1, <2>4, <2>5, AppendedSound DEF Sound
    <2> HIDE DEF t
    <2>8. \A k \in Ids : (\E i \in DOMAIN t : t[i] = Node(k))
                             <=> \E i \in DOMAIN items : items[i] = Node(k)
      BY <2>3, <2>6, ItemKinds
    <2>9. \A u, v \in Ids : (\E i \in DOMAIN t : t[i] = Edge(u, v))
                                <=> <<u, v>> = <<x, y>> \/ \E i \in DOMAIN items : items[i] = Edge(u, v)
      BY <2>3, <2>6, ItemKinds
    <2>10. /\ e.data = t /\ e.txs = d.txs /\ e.addrs = d.addrs /\ e.edges = d.edges \union {<<x, y>>}
           /\ e \in [data : Seq(Item), txs : SUBSET Transactions, addrs : SUBSET Addresses,
                     edges : SUBSET (Ids \X Ids)]
      BY <2>1, <2>3, <2>6 DEF t
    <2> HIDE DEF e
    <2>11. DrawnType(e)
      BY <2>8, <2>9, <2>10 DEF Sound, DrawnType
    <2> QED
      BY <1>2, <2>2, <2>7, <2>10, <2>11 DEF Sound, Shown, Line
  <1> QED
    BY <1>1, <1>2

-----------------------------------------------------------------------------
(* process_path goes from element to element; its recursion has the one    *)
(* solution that is found by going.                                        *)

Start(d) == [d |-> d, prev_node |-> None, prev_tx |-> None]

IsWalk(w, d, path, n) ==
    w = [i \in 0..n |-> IF i = 0 THEN Start(d) ELSE Onward(w[i - 1], path[i])]

LEMMA WalkExists ==
    ASSUME NEW d, NEW path, NEW n \in Nat
    PROVE  \E w : IsWalk(w, d, path, n)
  <1> DEFINE Q == {k \in Nat : \E w : IsWalk(w, d, path, k)}
  <1>1. 0 \in Q
    <2> DEFINE w == [i \in 0..0 |-> Start(d)]
    <2>1. w = [i \in 0..0 |-> IF i = 0 THEN Start(d) ELSE Onward(w[i - 1], path[i])]
      OBVIOUS
    <2> QED
      BY <2>1 DEF IsWalk
  <1>2. ASSUME NEW k \in Q PROVE k + 1 \in Q
    <2>1. PICK w : w = [i \in 0..k |-> IF i = 0 THEN Start(d) ELSE Onward(w[i - 1], path[i])]
      BY DEF IsWalk
    <2> DEFINE v == [i \in 0..(k + 1) |-> IF i = k + 1 THEN Onward(w[k], path[k + 1]) ELSE w[i]]
    <2>2. k \in Nat /\ \A i \in 0..k : v[i] = w[i]
      OBVIOUS
    <2>3. ASSUME NEW i \in 0..(k + 1)
          PROVE  v[i] = IF i = 0 THEN Start(d) ELSE Onward(v[i - 1], path[i])
      <3>1. CASE i = k + 1
        <4>1. v[i] = Onward(w[k], path[k + 1]) /\ v[i - 1] = w[k] /\ i # 0
          BY <2>2, <3>1
        <4> QED
          BY <3>1, <4>1
      <3>2. CASE i \in 1..k
        <4>1. v[i] = w[i] /\ v[i - 1] = w[i - 1] /\ w[i] = Onward(w[i - 1], path[i])
          BY <2>1, <2>2, <3>2
        <4> QED
          BY <3>2, <4>1
      <3>3. CASE i = 0
        <4>1. v[0] = w[0] /\ w[0] = Start(d)
          BY <2>1, <2>2
        <4> QED
          BY <3>3, <4>1
      <3> QED
        BY <2>2, <3>1, <3>2, <3>3
    <2>4. v = [i \in 0..(k + 1) |-> v[i]]
      OBVIOUS
    <2> HIDE DEF v
    <2>5. v = [i \in 0..(k + 1) |-> IF i = 0 THEN Start(d) ELSE Onward(v[i - 1], path[i])]
      BY <2>3, <2>4
    <2> QED
      BY <2>2, <2>5 DEF IsWalk
  <1> HIDE DEF Q
  <1>3. Q = Nat
    <2>1. Q \in SUBSET Nat
      BY DEF Q
    <2> QED
      BY <1>1, <1>2, <2>1, NatStep
  <1> QED
    BY <1>3 DEF Q

LEMMA WalkSteps ==
    ASSUME NEW d, NEW path \in Seq(Ids)
    PROVE  \E w : /\ w[0] = Start(d)
                  /\ \A i \in 1..Len(path) : w[i] = Onward(w[i - 1], path[i])
                  /\ process_path(d, path) = w[Len(path)].d
  <1> DEFINE w == CHOOSE v : IsWalk(v, d, path, Len(path))
  <1>1. process_path(d, path) = w[Len(path)].d
    BY DEF process_path, IsWalk, Start
  <1>2. Len(path) \in Nat
    OBVIOUS
  <1>3. IsWalk(w, d, path, Len(path))
    BY <1>2, WalkExists
  <1> HIDE DEF w
  <1>4. w[0] = Start(d) /\ \A i \in 1..Len(path) : w[i] = Onward(w[i - 1], path[i])
    BY <1>2, <1>3 DEF IsWalk
  <1> QED
    BY <1>1, <1>4

(* What is known half way: the node before was drawn.                      *)
Underway(w) ==
    /\ w = [d |-> w.d, prev_node |-> w.prev_node, prev_tx |-> w.prev_tx]
    /\ Sound(w.d)
    /\ w.prev_node \in Shown(w.d) \union {None}
    /\ w.prev_tx \in Transactions \union {None}

LEMMA StepSound ==
    ASSUME NEW w, Underway(w), NEW x \in Ids
    PROVE  /\ Underway(Onward(w, x))
           /\ x \in Transactions =>
                /\ Onward(w, x).prev_tx = x /\ Onward(w, x).prev_node = w.prev_node
                /\ Onward(w, x).d.edges = w.d.edges
           /\ x \in Addresses =>
                /\ Onward(w, x).prev_tx = w.prev_tx /\ Onward(w, x).prev_node = x
                /\ Onward(w, x).d.edges = w.d.edges \union
                      (IF w.prev_tx = None \/ w.prev_node = None THEN {} ELSE {<<w.prev_node, x>>})
  <1> USE GraphAssumption
  <1>1. CASE x \in Transactions
    <2>1. /\ Sound(AddTransaction(w.d, x)) /\ AddTransaction(w.d, x).edges = w.d.edges
          /\ Shown(AddTransaction(w.d, x)) = Shown(w.d) \union ({x} \ {None})
      BY <1>1, TransactionAdded DEF Underway
    <2>2. Onward(w, x) = [d |-> AddTransaction(w.d, x), prev_node |-> w.prev_node, prev_tx |-> x]
      BY <1>1 DEF Onward, Underway
    <2> QED
      BY <1>1, <2>1, <2>2 DEF Underway
  <1>2. CASE x \in Addresses
    <2> DEFINE e == AddAddress(w.d, x)
               over == IF w.prev_tx = None THEN NoPayment ELSE <<w.prev_tx, x>>
    <2>1. x # None /\ x \notin Transactions
      BY <1>2
    <2>2. Sound(e) /\ e.edges = w.d.edges /\ Shown(e) = Shown(w.d) \union {x}
      BY <1>2, <2>1, AddressAdded DEF Underway
    <2>3. Onward(w, x) = [d |-> AddEdge(e, over, w.prev_node, x), prev_node |-> x,
                          prev_tx |-> w.prev_tx]
      BY <2>1 DEF Onward
    <2>4. over = NoPayment <=> w.prev_tx = None
      BY <2>1 DEF NoPayment
    <2> HIDE DEF e, over
    <2>5. w.prev_node \in Shown(e) \union {None} /\ x \in Shown(e) \union {None}
      BY <2>2 DEF Underway
    <2>6. /\ Sound(AddEdge(e, over, w.prev_node, x))
          /\ Shown(AddEdge(e, over, w.prev_node, x)) = Shown(e)
          /\ AddEdge(e, over, w.prev_node, x).edges = e.edges \union Line(over, w.prev_node, x)
      <3>1. \A a, b \in Shown(e) \union {None} :
               /\ Sound(AddEdge(e, over, a, b)) /\ Shown(AddEdge(e, over, a, b)) = Shown(e)
               /\ AddEdge(e, over, a, b).edges = e.edges \union Line(over, a, b)
        BY <2>2, EdgeAdded
      <3> QED
        BY <2>5, <3>1
    <2>7. Line(over, w.prev_node, x) =
              IF w.prev_tx = None \/ w.prev_node = None THEN {} ELSE {<<w.prev_node, x>>}
      BY <2>1, <2>4 DEF Line
    <2>8. /\ Onward(w, x).d = AddEdge(e, over, w.prev_node, x)
          /\ Onward(w, x).prev_node = x /\ Onward(w, x).prev_tx = w.prev_tx
      BY <2>3
    <2>9. Underway(Onward(w, x))
      BY <2>2, <2>3, <2>6, <2>8 DEF Underway
    <2>10. Onward(w, x).d.edges = w.d.edges \union
              (IF w.prev_tx = None \/ w.prev_node = None THEN {} ELSE {<<w.prev_node, x>>})
      BY <2>2, <2>6, <2>7, <2>8
    <2> QED
      BY <2>1, <2>8, <2>9, <2>10
  <1> QED
    BY <1>1, <1>2 DEF Ids

LEMMA PathSound ==
    ASSUME NEW d, Sound(d), NEW path \in Seq(Ids)
    PROVE  Sound(process_path(d, path))
  <1>1. PICK w : /\ w[0] = Start(d)
                 /\ \A i \in 1..Len(path) : w[i] = Onward(w[i - 1], path[i])
                 /\ process_path(d, path) = w[Len(path)].d
    BY WalkSteps
  <1> DEFINE Q == {k \in Nat : k <= Len(path) => Underway(w[k])}
  <1>2. 0 \in Q
    BY <1>1 DEF Start, Underway
  <1>3. ASSUME NEW k \in Q PROVE k + 1 \in Q
    <2> SUFFICES ASSUME k + 1 <= Len(path) PROVE Underway(w[k + 1])
      OBVIOUS
    <2>1. Underway(w[k]) /\ w[k + 1] = Onward(w[k], path[k + 1]) /\ path[k + 1] \in Ids
      BY <1>1
    <2> QED
      BY <2>1, StepSound
  <1> HIDE DEF Q
  <1>4. Q = Nat
    <2>1. Q \in SUBSET Nat
      BY DEF Q
    <2> QED
      BY <1>2, <1>3, <2>1, NatStep
  <1>5. Len(path) \in Nat
    OBVIOUS
  <1>6. Underway(w[Len(path)])
    BY <1>4, <1>5 DEF Q
  <1> QED
    BY <1>1, <1>6 DEF Underway

(* Addresses and transactions take turns on a path along the payments.     *)
Alternates(path) ==
    /\ path \in Seq(Ids)
    /\ Len(path) > 0 => path[1] \in Addresses
    /\ \A i \in 1..(Len(path) - 1) : path[i] \in Addresses <=> path[i + 1] \in Transactions

Over(path, n) ==
    {<<path[i], path[i + 2]>> : i \in {k \in 1..(n - 2) : path[k] \in Addresses}}

(* Half way, the payments that were passed are drawn, and the last address *)
(* and the last transaction are at hand.                                   *)
Along(w, d, path, k) ==
    /\ Underway(w)
    /\ w.d.edges = d.edges \union Over(path, k)
    /\ k = 0 => w.prev_tx = None
    /\ k > 0 /\ path[k] \in Addresses => w.prev_node = path[k]
    /\ k > 0 /\ path[k] \in Transactions =>
          k > 1 /\ w.prev_tx = path[k] /\ w.prev_node = path[k - 1]
    /\ k = 1 => w.prev_tx = None

LEMMA OneFurther ==
    ASSUME NEW d, NEW path, Alternates(path), NEW k \in Nat, k + 1 <= Len(path),
           NEW w, Along(w, d, path, k)
    PROVE  Along(Onward(w, path[k + 1]), d, path, k + 1)
  <1> USE GraphAssumption
  <1> DEFINE x == path[k + 1]
             v == Onward(w, x)
  <1>1. /\ Len(path) \in Nat /\ x \in Ids /\ \A i \in 1..Len(path) : path[i] \in Ids
    BY DEF Alternates
  <1>2. /\ Underway(v)
        /\ x \in Transactions =>
             v.prev_tx = x /\ v.prev_node = w.prev_node /\ v.d.edges = w.d.edges
        /\ x \in Addresses =>
             /\ v.prev_tx = w.prev_tx /\ v.prev_node = x
             /\ v.d.edges = w.d.edges \union
                   (IF w.prev_tx = None \/ w.prev_node = None THEN {} ELSE {<<w.prev_node, x>>})
    BY <1>1, StepSound DEF Along
  <1>3. k > 1 => Over(path, k + 1) = Over(path, k) \union
                    (IF path[k - 1] \in Addresses THEN {<<path[k - 1], x>>} ELSE {})
    <2> SUFFICES ASSUME k > 1
                 PROVE  Over(path, k + 1) = Over(path, k) \union
                    (IF path[k - 1] \in Addresses THEN {<<path[k - 1], x>>} ELSE {})
      OBVIOUS
    <2>1. /\ 1..((k + 1) - 2) = (1..(k - 2)) \union {k - 1}
          /\ (k - 1) + 2 = k + 1
      OBVIOUS
    <2> QED
      BY <2>1 DEF Over
  <1>4. k <= 1 => Over(path, k + 1) = {} /\ Over(path, k) = {}
    BY DEF Over
  <1> HIDE DEF v
  <1>5. ASSUME x \in Transactions PROVE Along(v, d, path, k + 1)
    <2>1. k > 0 /\ path[k] \in Addresses /\ x \notin Addresses
      BY <1>1, <1>5 DEF Alternates
    <2>2. k > 1 => path[k - 1] \notin Addresses
      BY <1>1, <2>1 DEF Alternates
    <2>3. Over(path, k + 1) = Over(path, k)
      <3>1. CASE k > 1
        BY <1>3, <2>2, <3>1
      <3>2. CASE k <= 1
        BY <1>4, <3>2
      <3> QED
        BY <3>1, <3>2
    <2>4. w.prev_node = path[k] /\ w.d.edges = d.edges \union Over(path, k)
      BY <2>1 DEF Along
    <2> QED
      BY <1>2, <1>5, <2>1, <2>3, <2>4 DEF Along
  <1>6. ASSUME x \in Addresses PROVE Along(v, d, path, k + 1)
    <2>0. x \notin Transactions /\ w.d.edges = d.edges \union Over(path, k)
      BY <1>6 DEF Along
    <2>1. CASE k = 0
      <3>1. w.prev_tx = None
        BY <2>1 DEF Along
      <3>2. v.d.edges = d.edges \union Over(path, 1) /\ v.prev_tx = None /\ v.prev_node = x
        BY <1>2, <1>4, <1>6, <2>0, <2>1, <3>1
      <3> QED
        BY <1>2, <2>0, <2>1, <3>2 DEF Along
    <2>2. CASE k > 0
      <3>1. path[k] \notin Addresses
        BY <1>1, <1>6, <2>0, <2>2 DEF Alternates
      <3>2. path[k] \in Transactions
        BY <1>1, <2>2, <3>1 DEF Ids
      <3>3. k > 1 /\ w.prev_tx = path[k] /\ w.prev_node = path[k - 1]
        BY <2>2, <3>2 DEF Along
      <3>4. path[k - 1] \in Addresses
        BY <1>1, <3>2, <3>3 DEF Alternates
      <3>5. v.d.edges = d.edges \union Over(path, k + 1) /\ v.prev_node = x
        BY <1>2, <1>3, <1>6, <2>0, <3>2, <3>3, <3>4
      <3> QED
        BY <1>2, <2>0, <3>3, <3>5 DEF Along
    <2> QED
      BY <2>1, <2>2
  <1> QED
    BY <1>1, <1>5, <1>6 DEF Ids, v

LEMMA PathEdges ==
    ASSUME NEW d, Sound(d), NEW path, Alternates(path)
    PROVE  process_path(d, path).edges = d.edges \union Overtaken(path)
  <1>1. path \in Seq(Ids) /\ Len(path) \in Nat
    BY DEF Alternates
  <1>2. PICK w : /\ w[0] = Start(d)
                 /\ \A i \in 1..Len(path) : w[i] = Onward(w[i - 1], path[i])
                 /\ process_path(d, path) = w[Len(path)].d
    BY <1>1, WalkSteps
  <1> DEFINE Q == {k \in Nat : k <= Len(path) => Along(w[k], d, path, k)}
  <1>3. 0 \in Q
    <2>1. Over(path, 0) = {}
      BY DEF Over
    <2> QED
      BY <1>2, <2>1 DEF Start, Underway, Along
  <1>4. ASSUME NEW k \in Q PROVE k + 1 \in Q
    <2> SUFFICES ASSUME k + 1 <= Len(path) PROVE Along(w[k + 1], d, path, k + 1)
      OBVIOUS
    <2>1. k \in Nat /\ Along(w[k], d, path, k) /\ w[k + 1] = Onward(w[k], path[k + 1])
      BY <1>1, <1>2
    <2> QED
      BY <2>1, OneFurther
  <1> HIDE DEF Q
  <1>5. Q = Nat
    <2>1. Q \in SUBSET Nat
      BY DEF Q
    <2> QED
      BY <1>3, <1>4, <2>1, NatStep
  <1>6. Along(w[Len(path)], d, path, Len(path))
    BY <1>1, <1>5 DEF Q
  <1> QED
    BY <1>2, <1>6 DEF Along, Over, Overtaken

-----------------------------------------------------------------------------
(* What the queries return.                                                *)

RecordOK(r) ==
    /\ r.t1 \in Transactions
    /\ r.a1 \in Addresses \union {None} /\ r.a2 \in Addresses \union {None}
    /\ r.s1 \in (Ids \X Ids) \union {NoPayment} /\ r.s2 \in (Ids \X Ids) \union {NoPayment}
    /\ r.path \in Seq(Ids)

(* The sender is a1 and the recipient a2.                                  *)
PaidForward(r) ==
    /\ r.s1 = NoPayment \/ (r.s1 = <<r.a1, r.t1>> /\ r.a1 \in Addresses)
    /\ r.s2 = NoPayment \/ (r.s2 = <<r.t1, r.a2>> /\ r.a2 \in Addresses)
    /\ Alternates(r.path)

LEMMA Payments ==
    /\ \A t \in Transactions :
          /\ \A s \in PaidBy(t) : s[1] \in Addresses /\ s = <<s[1], t>>
          /\ \A s \in PaidTo(t) : s[2] \in Addresses /\ s = <<t, s[2]>>
    /\ \A s \in Sent : s \in Ids \X Ids
    /\ NoPayment[1] = None /\ NoPayment[2] = None
  BY GraphAssumption DEF PaidBy, PaidTo, Ids, NoPayment

LEMMA PathsType ==
    ASSUME NEW direction, NEW a \in Addresses, NEW p \in Paths(direction, a)
    PROVE  p \in Seq(Ids) /\ (direction = "right" => Alternates(p))
  <1>1. PICK k \in 1..Hops : p \in [1..(k + 1) -> Ids]
    BY DEF Paths, Ids
  <1>2. k + 1 \in Nat
    BY GraphAssumption
  <1>3. p \in Seq(Ids) /\ Len(p) = k + 1
    BY <1>1, <1>2
  <1>4. p[1] = a /\ \A i \in 1..(Len(p) - 1) : Follows(direction, p[i], p[i + 1])
    BY DEF Paths
  <1>5. ASSUME direction = "right", NEW i \in 1..(Len(p) - 1)
        PROVE  p[i] \in Addresses <=> p[i + 1] \in Transactions
    <2>1. <<p[i], p[i + 1]>> \in Sent
      BY <1>4, <1>5 DEF Follows
    <2> QED
      BY <2>1, GraphAssumption
  <1> QED
    BY <1>3, <1>4, <1>5 DEF Alternates

LEMMA RecordTypes ==
    ASSUME NEW q \in Queries, NEW r \in Matches(q)
    PROVE  RecordOK(r) /\ (q \in {"address", "right"} => PaidForward(r))
  <1> USE GraphAssumption, Payments
  <1>1. <<>> \in Seq(Ids) /\ Alternates(<<>>)
    BY DEF Alternates
  <1>2. CASE q = "blocks"
    <2>0. PICK t \in Transactions :
             \E s1 \in Optional(PaidTo(t)), s2 \in Optional(PaidBy(t)) :
                r = Record(t, s1[2], s1, s2[1], s2, <<>>)
      BY <1>2 DEF Matches, BlocksMatch
    <2>1. PICK s1 \in Optional(PaidTo(t)), s2 \in Optional(PaidBy(t)) :
             r = Record(t, s1[2], s1, s2[1], s2, <<>>)
      BY <2>0
    <2>2. /\ s1 = NoPayment \/ (s1 \in PaidTo(t) /\ s1 \in Sent)
          /\ s2 = NoPayment \/ (s2 \in PaidBy(t) /\ s2 \in Sent)
      BY DEF Optional, PaidTo, PaidBy
    <2> QED
      BY <1>1, <1>2, <2>1, <2>2 DEF Record, RecordOK
  <1>3. CASE q = "around"
    <2>0. PICK t \in Transactions : \E s1 \in PaidTo(t), s2 \in PaidTo(t) :
             r = Record(t, s1[2], s1, s2[2], s2, <<>>)
      BY <1>3 DEF Matches, AroundMatch
    <2>1. PICK s1 \in PaidTo(t), s2 \in PaidTo(t) :
             r = Record(t, s1[2], s1, s2[2], s2, <<>>)
      BY <2>0
    <2>2. s1 \in Sent /\ s2 \in Sent
      BY DEF PaidTo
    <2> QED
      BY <1>1, <1>3, <2>1, <2>2 DEF Record, RecordOK
  <1>4. CASE q = "address"
    <2>a. r \in AddressMatch
      BY <1>4 DEF Matches
    <2>b. PICK t \in Transactions : \E a \in Ends(t) : r \in SentFrom(t, a)
      BY <2>a DEF AddressMatch
    <2>c. PICK a \in Ends(t) : r \in SentFrom(t, a)
      BY <2>b
    <2>1. PICK s1 \in Optional({s \in PaidBy(t) : s[1] = a}), s2 \in Optional(PaidTo(t)) :
             r = Record(t, a, s1, s2[2], s2, <<>>)
      BY <2>c DEF SentFrom
    <2>2. /\ a \in Addresses
          /\ s1 = NoPayment \/ (s1 \in PaidBy(t) /\ s1 \in Sent /\ s1[1] = a)
          /\ s2 = NoPayment \/ (s2 \in PaidTo(t) /\ s2 \in Sent)
      BY <2>c DEF Ends, Optional, PaidTo, PaidBy
    <2> QED
      BY <1>1, <1>4, <2>1, <2>2 DEF Record, RecordOK, PaidForward
  <1>5. CASE q = "right"
    <2>0. PICK t \in Transactions : \E s1 \in PaidBy(t), s2 \in PaidTo(t) :
             \E p \in Paths("right", s2[2]) : r = Record(t, s1[1], s1, s2[2], s2, p)
      BY <1>5 DEF Matches, FlowRight
    <2>a. PICK s1 \in PaidBy(t), s2 \in PaidTo(t) :
             \E p \in Paths("right", s2[2]) : r = Record(t, s1[1], s1, s2[2], s2, p)
      BY <2>0
    <2>1. PICK p \in Paths("right", s2[2]) : r = Record(t, s1[1], s1, s2[2], s2, p)
      BY <2>a
    <2>2. s1 \in Sent /\ s2 \in Sent
      BY DEF PaidTo, PaidBy
    <2>3. p \in Seq(Ids) /\ Alternates(p)
      BY PathsType
    <2> QED
      BY <1>5, <2>1, <2>2, <2>3 DEF Record, RecordOK, PaidForward
  <1>6. CASE q = "left"
    <2>0. PICK t \in Transactions : \E s1 \in PaidTo(t), s2 \in PaidBy(t) :
             \E p \in Paths("left", s2[1]) : r = Record(t, s1[2], s1, s2[1], s2, p)
      BY <1>6 DEF Matches, FlowLeft
    <2>a. PICK s1 \in PaidTo(t), s2 \in PaidBy(t) :
             \E p \in Paths("left", s2[1]) : r = Record(t, s1[2], s1, s2[1], s2, p)
      BY <2>0
    <2>1. PICK p \in Paths("left", s2[1]) : r = Record(t, s1[2], s1, s2[1], s2, p)
      BY <2>a
    <2>2. s1 \in Sent /\ s2 \in Sent
      BY DEF PaidTo, PaidBy
    <2>3. p \in Seq(Ids)
      BY PathsType
    <2> QED
      BY <1>6, <2>1, <2>2, <2>3 DEF Record, RecordOK
  <1> QED
    BY <1>2, <1>3, <1>4, <1>5, <1>6

-----------------------------------------------------------------------------
(* One record.                                                             *)

LEMMA EntrySound ==
    ASSUME NEW d, Sound(d), NEW r, RecordOK(r)
    PROVE  /\ Sound(process_transaction_entry(d, r))
           /\ PaidForward(r) =>
                process_transaction_entry(d, r).edges =
                    d.edges \union ({r.s1, r.s2} \ {NoPayment}) \union Overtaken(r.path)
  <1> USE GraphAssumption
  <1> DEFINE d1 == AddTransaction(d, r.t1)
             d2 == AddAddress(d1, r.a1)
             d3 == AddAddress(d2, r.a2)
             d4 == AddEdge(d3, r.s1, r.a1, r.t1)
             d5 == AddEdge(d4, r.s2, r.t1, r.a2)
  <1>1. /\ r.t1 \in Transactions /\ r.t1 # None
        /\ r.a1 \in Addresses \union {None} /\ r.a2 \in Addresses \union {None}
        /\ r.path \in Seq(Ids)
    BY DEF RecordOK
  <1>2. Sound(d1) /\ d1.edges = d.edges /\ r.t1 \in Shown(d1)
    BY <1>1, TransactionAdded
  <1> HIDE DEF d1
  <1>3. Sound(d2) /\ d2.edges = d1.edges /\ Shown(d2) = Shown(d1) \union ({r.a1} \ {None})
    BY <1>1, <1>2, AddressAdded
  <1> HIDE DEF d2
  <1>4. Sound(d3) /\ d3.edges = d2.edges /\ Shown(d3) = Shown(d2) \union ({r.a2} \ {None})
    BY <1>1, <1>3, AddressAdded
  <1> HIDE DEF d3
  <1>5. /\ r.t1 \in Shown(d3) \union {None} /\ r.a1 \in Shown(d3) \union {None}
        /\ r.a2 \in Shown(d3) \union {None}
    BY <1>1, <1>2, <1>3, <1>4
  <1>6. Sound(d4) /\ Shown(d4) = Shown(d3) /\ d4.edges = d3.edges \union Line(r.s1, r.a1, r.t1)
    <2>1. \A x, y \in Shown(d3) \union {None} :
             LET e == AddEdge(d3, r.s1, x, y)
             IN Sound(e) /\ Shown(e) = Shown(d3) /\ e.edges = d3.edges \union Line(r.s1, x, y)
      BY <1>4, EdgeAdded
    <2> QED
      BY <1>5, <2>1
  <1> HIDE DEF d4
  <1>7. Sound(d5) /\ d5.edges = d4.edges \union Line(r.s2, r.t1, r.a2)
    <2>1. \A x, y \in Shown(d4) \union {None} :
             LET e == AddEdge(d4, r.s2, x, y)
             IN Sound(e) /\ Shown(e) = Shown(d4) /\ e.edges = d4.edges \union Line(r.s2, x, y)
      <3>1. Sound(d4)
        BY <1>6
      <3> QED
        BY <3>1, EdgeAdded
    <2> QED
      BY <1>5, <1>6, <2>1
  <1>8. process_transaction_entry(d, r) = process_path(d5, r.path)
    BY DEF process_transaction_entry, d1, d2, d3, d4
  <1> HIDE DEF d5
  <1>9. Sound(process_path(d5, r.path))
    BY <1>1, <1>7, PathSound
  <1>10. ASSUME PaidForward(r)
         PROVE  process_path(d5, r.path).edges =
                    d.edges \union ({r.s1, r.s2} \ {NoPayment}) \union Overtaken(r.path)
    <2>1. process_path(d5, r.path).edges = d5.edges \union Overtaken(r.path)
      BY <1>7, <1>10, PathEdges DEF PaidForward
    <2>2. /\ Line(r.s1, r.a1, r.t1) = {r.s1} \ {NoPayment}
          /\ Line(r.s2, r.t1, r.a2) = {r.s2} \ {NoPayment}
      BY <1>1, <1>10 DEF PaidForward, Line, NoPayment
    <2> QED
      BY <1>2, <1>3, <1>4, <1>6, <1>7, <2>1, <2>2
  <1> QED
    BY <1>8, <1>9, <1>10

LEMMA OvertakenType == ASSUME NEW path \in Seq(Ids) PROVE Overtaken(path) \subseteq Ids \X Ids
  <1>1. Len(path) \in Nat /\ \A i \in 1..Len(path) : path[i] \in Ids
    OBVIOUS
  <1>2. \A i \in 1..(Len(path) - 2) : i \in 1..Len(path) /\ i + 2 \in 1..Len(path)
    BY <1>1
  <1> QED
    BY <1>1, <1>2 DEF Overtaken

-----------------------------------------------------------------------------
GraphInv ==
    /\ query \in Queries /\ records \in 0..MaxRecords
    /\ Sound(Drawn)
    /\ matched \subseteq Ids \X Ids
    /\ query \in {"address", "right"} => edge_ids = matched

LEMMA EmptyGraph ==
    Sound([data |-> <<>>, txs |-> {}, addrs |-> {}, edges |-> {}])
  <1> DEFINE d == [data |-> <<>>, txs |-> {}, addrs |-> {}, edges |-> {}]
  <1>1. <<>> \in Seq(Item) /\ DOMAIN <<>> = {}
    OBVIOUS
  <1> QED
    BY <1>1 DEF Sound, DrawnType, Once, EndsFirst

LEMMA InitGraph == Init => GraphInv
  BY EmptyGraph, GraphAssumption DEF Init, GraphInv, Drawn

LEMMA NextGraph == GraphInv /\ [Next]_vars => GraphInv'
  <1> SUFFICES ASSUME GraphInv, [Next]_vars PROVE GraphInv'
    OBVIOUS
  <1>1. CASE ProcessEntry
    <2>1. PICK r \in Matches(query) :
             /\ output_data' = process_transaction_entry(Drawn, r).data
             /\ transaction_ids' = process_transaction_entry(Drawn, r).txs
             /\ address_ids' = process_transaction_entry(Drawn, r).addrs
             /\ edge_ids' = process_transaction_entry(Drawn, r).edges
             /\ matched' = matched \union ({r.s1, r.s2} \ {NoPayment}) \union Overtaken(r.path)
      BY <1>1 DEF ProcessEntry
    <2> DEFINE d == process_transaction_entry(Drawn, r)
    <2>2. RecordOK(r) /\ (query \in {"address", "right"} => PaidForward(r))
      BY RecordTypes DEF GraphInv
    <2>3. /\ Sound(d)
          /\ query \in {"address", "right"} =>
                d.edges = Drawn.edges \union ({r.s1, r.s2} \ {NoPayment}) \union Overtaken(r.path)
      BY <2>2, EntrySound DEF GraphInv
    <2> HIDE DEF d
    <2>4. d = Drawn' /\ Drawn.edges = edge_ids
      <3>1. d = [data |-> d.data, txs |-> d.txs, addrs |-> d.addrs, edges |-> d.edges]
        BY <2>3, DrawnFields DEF Sound
      <3> QED
        BY <2>1, <3>1 DEF Drawn, d
    <2>5. matched' \subseteq Ids \X Ids
      BY <2>1, <2>2, OvertakenType DEF GraphInv, RecordOK
    <2>6. records' \in 0..MaxRecords /\ query' = query
      BY <1>1, GraphAssumption DEF ProcessEntry, GraphInv
    <2>7. query \in {"address", "right"} => edge_ids' = matched'
      BY <2>1, <2>3, <2>4 DEF GraphInv, d
    <2> QED
      BY <2>3, <2>4, <2>5, <2>6, <2>7 DEF GraphInv
  <1>2. CASE SkipEntry
    BY <1>2, GraphAssumption DEF SkipEntry, GraphInv, Drawn
  <1>3. CASE transform_result
    BY <1>3, EmptyGraph, GraphAssumption DEF transform_result, GraphInv, Drawn
  <1>4. CASE UNCHANGED vars
    BY <1>4 DEF vars, GraphInv, Drawn
  <1> QED
    BY <1>1, <1>2, <1>3, <1>4 DEF Next

(* Behind the routes and the limiter a transformer does what it does alone. *)
THEOREM RoutesDrawGraphs == ApiSpec => Spec
  <1>1. ApiInit => Init
    BY DEF ApiInit
  <1>2. [ApiNext]_apiVars => [Next]_vars
    BY DEF ApiNext, apiVars, vars, Tick, Arrive, TooManyRequests, Pass, RedisFails, Pipeline,
           Route, NoGraph, Transform, DrawEntry, format_response, Next
  <1> QED
    BY <1>1, <1>2, PTL DEF ApiSpec, Spec

LEMMA GraphHolds == ApiSpec => []GraphInv
  BY InitGraph, NextGraph, RoutesDrawGraphs, PTL DEF Spec

(* The items under their kind.                                             *)
LEMMA EdgesAreDrawn == ASSUME GraphInv PROVE edge_ids = EdgesDrawn
  <1>1. /\ output_data \in Seq(Item) /\ edge_ids \subseteq Ids \X Ids
        /\ \A x, y \in Ids : <<x, y>> \in edge_ids
                                 <=> \E i \in DOMAIN output_data : output_data[i] = Edge(x, y)
    BY DEF GraphInv, Sound, DrawnType, Drawn
  <1>2. \A e \in Item : e.type = "edge" =>
           e.from_id \in Ids /\ e.to_id \in Ids /\ e = Edge(e.from_id, e.to_id)
    BY DEF Item, Edge
  <1>3. \A i \in DOMAIN output_data : output_data[i] \in Item
    BY <1>1
  <1>4. ASSUME NEW p \in edge_ids PROVE p \in EdgesDrawn
    <2>1. PICK x \in Ids, y \in Ids : p = <<x, y>>
      BY <1>1
    <2>2. PICK i \in DOMAIN output_data : output_data[i] = Edge(x, y)
      BY <1>1, <2>1
    <2>3. Edge(x, y).type = "edge" /\ Edge(x, y).from_id = x /\ Edge(x, y).to_id = y
      BY ItemKinds
    <2> QED
      BY <2>1, <2>2, <2>3 DEF EdgesDrawn, Items
  <1>5. ASSUME NEW p \in EdgesDrawn PROVE p \in edge_ids
    <2>1. PICK i \in DOMAIN output_data :
             output_data[i].type = "edge" /\ p = <<output_data[i].from_id, output_data[i].to_id>>
      BY DEF EdgesDrawn, Items
    <2> QED
      BY <1>1, <1>2, <1>3, <2>1
  <1> QED
    BY <1>4, <1>5

(* The ids a transformer keeps are those of what it has drawn, for every   *)
(* payment graph, query and number of records.                             *)
THEOREM GraphTypeCorrect == ApiSpec => []TypeOK
  <1>1. GraphInv => TypeOK
    BY EdgesAreDrawn DEF GraphInv, Sound, DrawnType, Drawn, TypeOK, Ids
  <1> QED
    BY <1>1, GraphHolds, PTL

(* However many records speak of a node or a payment, and on paths however *)
(* long, it is drawn once.                                                 *)
THEOREM ItemsDrawnOnce == ApiSpec => []DrawnOnce
  <1>1. GraphInv => DrawnOnce
    BY DEF GraphInv, Sound, Once, Drawn, DrawnOnce
  <1> QED
    BY <1>1, GraphHolds, PTL

(* No edge is drawn before its two nodes.                                  *)
THEOREM EndsAreDrawn == ApiSpec => []EdgesHaveNodes
  <1>1. GraphInv => EdgesHaveNodes
    BY DEF GraphInv, Sound, EndsFirst, Drawn, EdgesHaveNodes
  <1> QED
    BY <1>1, GraphHolds, PTL

(* For an address and for funds flows to the right the edges drawn are the *)
(* payments of the records, and those along their paths, and no others.    *)
THEOREM PaymentsAreDrawn == ApiSpec => []SentAsPaid
  <1>1. GraphInv => SentAsPaid
    BY EdgesAreDrawn DEF GraphInv, SentAsPaid, EdgesArePayments
  <1> QED
    BY <1>1, GraphHolds, PTL
-----------------------------------------------------------------------------
(* Organic queries.                                                        *)

Said == {"waiting", "data", "nothing"}

AreAnswers(a) == DOMAIN a \in SUBSET Miners /\ a \in [DOMAIN a -> Said]

QueryInv ==
    /\ QueryTypeOK
    /\ answers \in [Clients -> {answers[c] : c \in Clients}]
    /\ \A c \in Clients : AreAnswers(answers[c])

Row == [network : Networks, timestamp : 1..MaxStores] \union {NoRow}

LEMMA NoAnswers ==
    /\ AreAnswers([k \in {} |-> "waiting"])
    /\ DOMAIN [k \in {} |-> "waiting"] = {}
  BY DEF AreAnswers

LEMMA InitQuery == QueryInit => QueryInv
  <1> SUFFICES ASSUME QueryInit PROVE QueryInv
    OBVIOUS
  <1> USE QueryAssumption
  <1>1. /\ rows \in [Miners -> Row] /\ clock \in 0..MaxStores
    BY DEF QueryInit, Row
  <1>2. request \in [Clients -> [pc : {"idle", "received", "asking"} \union Ended,
                                 route : Routes, network : Networks]]
    BY DEF QueryInit, Idle, Routes, Networks
  <1>3. ASSUME NEW c \in Clients
        PROVE  answers[c] = [k \in {} |-> "waiting"] /\ AreAnswers(answers[c]) /\ Asked(c) = {}
    BY NoAnswers DEF QueryInit, Asked
  <1>4. Cardinality({}) = 0
    BY FS_EmptySet
  <1>5. QueryTypeOK
    <2>1. ASSUME NEW c \in Clients
          PROVE  /\ Asked(c) \subseteq Miners /\ Cardinality(Asked(c)) <= SelectCount
                 /\ \A k \in Asked(c) : answers[c][k] \in {"waiting", "data", "nothing"}
      BY ONLY <1>3, <1>4, QueryAssumption
    <2> QED
      BY ONLY <1>1, <1>2, <2>1 DEF QueryTypeOK, Row
  <1>6. answers \in [Clients -> {answers[c] : c \in Clients}]
    BY DEF QueryInit
  <1> QED
    BY <1>3, <1>5, <1>6 DEF QueryInv

(* An epoch stores a row.                                                  *)
LEMMA StoreQuery ==
    ASSUME QueryInv, NEW m \in Miners, store_miner_metadata(m)
    PROVE  QueryInv'
  <1> USE QueryAssumption
  <1>1. PICK network \in Networks :
            rows' = [rows EXCEPT ![m] = [network |-> network, timestamp |-> clock']]
    BY DEF store_miner_metadata
  <1>2. /\ clock \in 0..MaxStores /\ clock < MaxStores /\ clock' = clock + 1
        /\ UNCHANGED <<request, answers>>
    BY DEF store_miner_metadata, QueryInv, QueryTypeOK
  <1>3. clock' \in 1..MaxStores
    BY <1>2
  <1>4. rows \in [Miners -> Row]
    BY DEF QueryInv, QueryTypeOK, Row
  <1>5. rows' \in [Miners -> Row]
    BY <1>1, <1>3, <1>4 DEF Row
  <1>6. QueryTypeOK'
    BY <1>2, <1>3, <1>5 DEF QueryInv, QueryTypeOK, Row, Asked
  <1> QED
    BY <1>2, <1>6 DEF QueryInv, AreAnswers

(* A step of a request: it leaves the rows alone, and the other requests.  *)
StepOf(c, r, a) ==
    /\ UNCHANGED <<rows, clock>>
    /\ request' = [request EXCEPT ![c] = r]
    /\ answers' = [answers EXCEPT ![c] = a]

Requests == [pc : {"idle", "received", "asking"} \union Ended, route : Routes, network : Networks]

FewAsked(a) == AreAnswers(a) /\ Cardinality(DOMAIN a) <= SelectCount

LEMMA StepQuery ==
    ASSUME QueryInv, NEW c \in Clients, NEW r \in Requests, NEW a, FewAsked(a), StepOf(c, r, a)
    PROVE  QueryInv'
  <1>1. /\ rows \in [Miners -> Row] /\ clock \in 0..MaxStores /\ UNCHANGED <<rows, clock>>
        /\ request \in [Clients -> Requests]
    BY DEF QueryInv, QueryTypeOK, Row, Requests, StepOf
  <1>2. request' \in [Clients -> Requests]
    BY <1>1 DEF StepOf
  <1>3. ASSUME NEW d \in Clients PROVE FewAsked(answers'[d])
    <2>1. CASE d = c
      BY <2>1 DEF StepOf, QueryInv
    <2>2. CASE d # c
      BY <2>2 DEF StepOf, QueryInv, QueryTypeOK, FewAsked, Asked
    <2> QED
      BY <2>1, <2>2
  <1>4. QueryTypeOK'
    <2>1. ASSUME NEW d \in Clients
          PROVE  /\ Asked(d)' \subseteq Miners /\ Cardinality(Asked(d)') <= SelectCount
                 /\ \A k \in Asked(d)' : answers'[d][k] \in {"waiting", "data", "nothing"}
      BY <1>3 DEF FewAsked, AreAnswers, Asked, Said
    <2> QED
      BY <1>1, <1>2, <2>1 DEF QueryTypeOK, Row, Requests
  <1>5. answers' \in [Clients -> {answers'[d] : d \in Clients}]
    BY DEF StepOf, QueryInv
  <1> QED
    BY <1>3, <1>4, <1>5 DEF QueryInv, FewAsked

(* What is asked of the miners fits, however the sample falls.             *)
LEMMA SampleFits ==
    ASSUME NEW ks \in SUBSET Miners, NEW top \in TopMiners(ks)
    PROVE  FewAsked([k \in top |-> "waiting"])
  <1>1. top \in SUBSET Miners /\ Cardinality(top) <= SelectCount
    <2>1. Cardinality(ks) \in Nat /\ SelectCount \in Nat
      BY QueryAssumption, FS_Subset, FS_CardinalityType
    <2>2. Stalest(ks) \in SUBSET ks
      BY DEF Stalest
    <2>3. CASE Cardinality(ks) < SelectCount
      <3>1. top = ks
        BY <2>3 DEF TopMiners
      <3> QED
        BY <2>1, <2>3, <3>1
    <2>4. CASE ~(Cardinality(ks) < SelectCount)
      <3>1. top \in SUBSET Stalest(ks) /\ Cardinality(top) = SelectCount
        BY <2>4 DEF TopMiners
      <3> QED
        BY <2>1, <2>2, <3>1
    <2> QED
      BY <2>3, <2>4
  <1> DEFINE a == [k \in top |-> "waiting"]
  <1>2. DOMAIN a = top /\ a \in [top -> Said]
    BY DEF Said
  <1> HIDE DEF a
  <1>3. FewAsked(a)
    BY <1>1, <1>2 DEF FewAsked, AreAnswers
  <1> QED
    BY <1>3 DEF a

(* Another word of a miner.                                                *)
LEMMA AnswerFits ==
    ASSUME NEW a, FewAsked(a), NEW m \in DOMAIN a, NEW word \in Said
    PROVE  FewAsked([a EXCEPT ![m] = word])
  <1>1. PICK b : b = [a EXCEPT ![m] = word]
    OBVIOUS
  <1>2. a \in [DOMAIN a -> Said]
    BY DEF FewAsked, AreAnswers
  <1>3. DOMAIN b = DOMAIN a /\ b \in [DOMAIN a -> Said]
    BY <1>1, <1>2
  <1> QED
    BY <1>1, <1>3 DEF FewAsked, AreAnswers

(* The state of client c.                                                  *)
LEMMA ClientType ==
    ASSUME QueryInv, NEW c \in Clients
    PROVE  /\ request[c] \in Requests /\ FewAsked(answers[c])
           /\ request = [d \in Clients |-> request[d]] /\ answers = [d \in Clients |-> answers[d]]
  BY DEF QueryInv, QueryTypeOK, Requests, FewAsked, Asked

LEMMA GoesOn ==
    ASSUME QueryInv, NEW c \in Clients, NEW p \in {"asking"} \union Ended, To(c, p)
    PROVE  \E r \in Requests :
            r.pc = p /\ r = [request[c] EXCEPT !.pc = p] /\ request' = [request EXCEPT ![c] = r]
  <1>1. request[c] \in Requests
    BY ClientType
  <1>2. PICK r : r = [request[c] EXCEPT !.pc = p]
    OBVIOUS
  <1>3. r \in Requests /\ r.pc = p
    BY <1>1, <1>2 DEF Requests
  <1>4. request' = [request EXCEPT ![c] = r]
    BY <1>2 DEF To
  <1> QED
    BY <1>2, <1>3, <1>4

(* Each step of a request is one.                                          *)
LEMMA ClientSteps ==
    ASSUME QueryInv, NEW c \in Clients,
           \/ Receive(c) \/ Refuse(c) \/ Serve(c)
           \/ \E k \in Miners : Answer(c, k) \/ NoAnswer(c, k)
    PROVE  \E r \in Requests : \E a : FewAsked(a) /\ StepOf(c, r, a)
  <1> USE ClientType
  <1>1. CASE Receive(c)
    <2> DEFINE a == [k \in {} |-> "waiting"]
    <2>1. PICK route \in Routes, network \in Networks :
            request' = [request EXCEPT ![c] = [pc |-> "received", route |-> route, network |-> network]]
      BY <1>1 DEF Receive
    <2>2. PICK r \in Requests : r = [pc |-> "received", route |-> route, network |-> network]
      BY DEF Requests
    <2>3. FewAsked(a)
      BY NoAnswers, FS_EmptySet, QueryAssumption DEF FewAsked
    <2>4. StepOf(c, r, a)
      BY <1>1, <2>1, <2>2 DEF Receive, StepOf
    <2> HIDE DEF a
    <2> QED
      BY <2>3, <2>4
  <1>2. CASE Refuse(c) \/ OtherNetwork(c) \/ Gathered(c)
    <2>1. \E p \in {"asking"} \union Ended : To(c, p)
      BY <1>2 DEF Refuse, OtherNetwork, Gathered, Ended
    <2>2. PICK r \in Requests : request' = [request EXCEPT ![c] = r]
      BY <2>1, GoesOn
    <2>3. StepOf(c, r, answers[c])
      BY <1>2, <2>2 DEF Refuse, OtherNetwork, Gathered, StepOf
    <2> QED
      BY <2>3
  <1>3. CASE ReadMiners(c)
    <2>1. PICK top \in TopMiners(get_miners_by_network(request[c].network)) :
            answers' = [answers EXCEPT ![c] = [k \in top |-> "waiting"]]
      BY <1>3 DEF ReadMiners
    <2>2. get_miners_by_network(request[c].network) \in SUBSET Miners
      BY DEF get_miners_by_network
    <2> DEFINE a == [k \in top |-> "waiting"]
    <2>3. FewAsked(a)
      BY <2>2, SampleFits
    <2>4. PICK r \in Requests : request' = [request EXCEPT ![c] = r]
      BY <1>3, GoesOn DEF ReadMiners
    <2>5. StepOf(c, r, a)
      BY <1>3, <2>1, <2>4 DEF ReadMiners, StepOf
    <2> HIDE DEF a
    <2> QED
      BY <2>3, <2>5
  <1>4. CASE \E k \in Miners : Answer(c, k) \/ NoAnswer(c, k)
    <2>1. PICK k \in Waiting(c), word \in Said : answers' = [answers EXCEPT ![c][k] = word]
      BY <1>4 DEF Answer, NoAnswer, Said
    <2>2. PICK a : a = [answers[c] EXCEPT ![k] = word]
      OBVIOUS
    <2>3. FewAsked(a)
      BY <2>1, <2>2, AnswerFits DEF Waiting, Asked
    <2>4. UNCHANGED <<rows, clock, request>> /\ request' = [request EXCEPT ![c] = request[c]]
      BY <1>4 DEF Answer, NoAnswer
    <2>5. StepOf(c, request[c], a)
      BY <2>1, <2>2, <2>4 DEF StepOf
    <2> QED
      BY <2>3, <2>5
  <1> QED
    BY <1>1, <1>2, <1>3, <1>4 DEF Serve

LEMMA NextQuery == QueryInv /\ [QueryNext]_queryVars => QueryInv'
  <1> SUFFICES ASSUME QueryInv, [QueryNext]_queryVars PROVE QueryInv'
    OBVIOUS
  <1>1. CASE \E k \in Miners : store_miner_metadata(k)
    BY <1>1, StoreQuery
  <1>2. CASE \E c \in Clients :
              \/ Receive(c) \/ Refuse(c) \/ Serve(c)
              \/ \E k \in Miners : Answer(c, k) \/ NoAnswer(c, k)
    <2>1. PICK c \in Clients : \E r \in Requests : \E a : FewAsked(a) /\ StepOf(c, r, a)
      BY <1>2, ClientSteps
    <2> QED
      BY <2>1, StepQuery
  <1>3. CASE UNCHANGED queryVars
    BY <1>3 DEF queryVars, QueryInv, QueryTypeOK, Asked, AreAnswers
  <1> QED
    BY <1>1, <1>2, <1>3 DEF QueryNext

LEMMA QueryHolds == QuerySpec => []QueryInv
  BY InitQuery, NextQuery, PTL DEF QuerySpec

(* Rows, requests and answers keep their types, and no request asks more   *)
(* than select_count miners, however many clients and miners there are.    *)
THEOREM QueryTypeCorrect == QuerySpec => []QueryTypeOK
  <1>1. QueryInv => QueryTypeOK
    BY DEF QueryInv
  <1> QED
    BY <1>1, QueryHolds, PTL

-----------------------------------------------------------------------------
(* What RequestsEnd rests on besides fairness: each step of a request      *)
(* brings its end nearer.                                                  *)

Outstanding(a) == {k \in DOMAIN a : a[k] = "waiting"}

(* The steps a request has left at most, in state r with answers a.        *)
RequestLeft(r, a) ==
    CASE r.pc = "received" -> SelectCount + 2
      [] r.pc = "asking" -> Cardinality(Outstanding(a)) + 1
      [] OTHER -> 0

(* Whatever happens to a request under way brings its end nearer, and what *)
(* happens to others does not touch it.                                    *)
RequestAdvances ==
    [][\A c \in Clients :
        request[c].pc \in {"received", "asking"} =>
            \/ UNCHANGED <<request[c], answers[c]>>
            \/ RequestLeft(request'[c], answers'[c]) < RequestLeft(request[c], answers[c])]_queryVars

LEMMA OutstandingType ==
    ASSUME NEW a, FewAsked(a)
    PROVE  /\ IsFiniteSet(Outstanding(a)) /\ Cardinality(Outstanding(a)) \in Nat
           /\ Cardinality(Outstanding(a)) <= SelectCount
  <1>1. DOMAIN a \in SUBSET Miners /\ Cardinality(DOMAIN a) <= SelectCount
    BY DEF FewAsked, AreAnswers
  <1>2. IsFiniteSet(DOMAIN a) /\ Cardinality(DOMAIN a) \in Nat
    BY <1>1, QueryAssumption, FS_Subset, FS_CardinalityType
  <1>3. Outstanding(a) \in SUBSET (DOMAIN a)
    BY DEF Outstanding
  <1> QED
    BY <1>1, <1>2, <1>3, QueryAssumption, FS_Subset, FS_CardinalityType

(* A step of a request under way.                                          *)
LEMMA ClientAdvances ==
    ASSUME QueryInv, NEW c \in Clients, request[c].pc \in {"received", "asking"},
           \/ Receive(c) \/ Refuse(c) \/ Serve(c)
           \/ \E k \in Miners : Answer(c, k) \/ NoAnswer(c, k)
    PROVE  RequestLeft(request'[c], answers'[c]) < RequestLeft(request[c], answers[c])
  <1> USE ClientType, QueryAssumption
  <1>0. /\ \A p : To(c, p) => request'[c].pc = p
        /\ Cardinality(Outstanding(answers[c])) \in Nat
        /\ "received" \notin Ended /\ "asking" \notin Ended /\ "idle" \notin Ended
        /\ ~Receive(c)
    BY OutstandingType DEF To, Requests, Ended, Receive
  <1>1. CASE Refuse(c) \/ OtherNetwork(c) \/ Gathered(c)
    <2>1. request'[c].pc \in Ended
      BY <1>0, <1>1 DEF Refuse, OtherNetwork, Gathered, Ended
    <2>2. RequestLeft(request'[c], answers'[c]) = 0
      BY <1>0, <2>1 DEF RequestLeft
    <2>3. RequestLeft(request[c], answers[c]) \in Nat \ {0}
      BY <1>0 DEF RequestLeft
    <2> QED
      BY <2>2, <2>3
  <1>2. CASE ReadMiners(c)
    <2>1. PICK top \in TopMiners(get_miners_by_network(request[c].network)) :
            answers' = [answers EXCEPT ![c] = [k \in top |-> "waiting"]]
      BY <1>2 DEF ReadMiners
    <2>2. get_miners_by_network(request[c].network) \in SUBSET Miners
      BY DEF get_miners_by_network
    <2>3. FewAsked(answers'[c])
      <3>1. answers'[c] = [k \in top |-> "waiting"]
        BY <2>1
      <3>2. FewAsked([k \in top |-> "waiting"])
        BY <2>2, SampleFits
      <3> QED
        BY <3>1, <3>2
    <2>4. request[c].pc = "received" /\ request'[c].pc = "asking"
      BY <1>0, <1>2 DEF ReadMiners
    <2>5. /\ Cardinality(Outstanding(answers'[c])) \in Nat
          /\ Cardinality(Outstanding(answers'[c])) <= SelectCount
      BY <2>3, OutstandingType
    <2> QED
      BY <2>4, <2>5 DEF RequestLeft
  <1>3. CASE \E k \in Miners : Answer(c, k) \/ NoAnswer(c, k)
    <2>1. PICK k \in Waiting(c), word \in {"data", "nothing"} :
            answers' = [answers EXCEPT ![c][k] = word]
      BY <1>3 DEF Answer, NoAnswer
    <2>2. request[c].pc = "asking" /\ UNCHANGED request
      BY <1>3 DEF Answer, NoAnswer
    <2>3. PICK a : a = [answers[c] EXCEPT ![k] = word]
      OBVIOUS
    <2>4. answers'[c] = a
      BY <2>1, <2>3
    <2>5. k \in Outstanding(answers[c]) /\ Outstanding(a) = Outstanding(answers[c]) \ {k}
      BY <2>1, <2>3 DEF Outstanding, Waiting, Asked
    <2>6. /\ IsFiniteSet(Outstanding(answers[c]))
          /\ Cardinality(Outstanding(a)) = Cardinality(Outstanding(answers[c])) - 1
      BY <2>5, OutstandingType, FS_RemoveElement
    <2> QED
      BY <1>0, <2>2, <2>4, <2>6 DEF RequestLeft
  <1> QED
    BY <1>0, <1>1, <1>2, <1>3 DEF Serve

(* A request under way takes at most select_count + 2 steps, whatever the  *)
(* miners, the epochs and the other clients do.                            *)
THEOREM RequestsAdvance == QuerySpec => RequestAdvances
  <1>1. ASSUME QueryInv, [QueryNext]_queryVars
        PROVE  [\A c \in Clients :
                  request[c].pc \in {"received", "asking"} =>
                    \/ UNCHANGED <<request[c], answers[c]>>
                    \/ RequestLeft(request'[c], answers'[c])
                         < RequestLeft(request[c], answers[c])]_queryVars
    <2> SUFFICES ASSUME queryVars' # queryVars, NEW c \in Clients,
                        request[c].pc \in {"received", "asking"}
                 PROVE  \/ UNCHANGED <<request[c], answers[c]>>
                        \/ RequestLeft(request'[c], answers'[c])
                             < RequestLeft(request[c], answers[c])
      OBVIOUS
    <2>1. CASE \E k \in Miners : store_miner_metadata(k)
      BY <2>1 DEF store_miner_metadata
    <2>2. CASE \E d \in Clients :
                \/ Receive(d) \/ Refuse(d) \/ Serve(d)
                \/ \E k \in Miners : Answer(d, k) \/ NoAnswer(d, k)
      <3>1. PICK d \in Clients :
                \/ Receive(d) \/ Refuse(d) \/ Serve(d)
                \/ \E k \in Miners : Answer(d, k) \/ NoAnswer(d, k)
        BY <2>2
      <3>2. CASE d = c
        BY <1>1, <3>1, <3>2, ClientAdvances
      <3>3. CASE d # c
        <4>1. \E r \in Requests : \E a : StepOf(d, r, a)
          BY <1>1, <3>1, ClientSteps
        <4> QED
          BY <1>1, <3>3, <4>1, ClientType DEF StepOf
      <3> QED
        BY <3>2, <3>3
    <2> QED
      BY <1>1, <2>1, <2>2 DEF QueryNext
  <1> QED
    BY <1>1, QueryHolds, PTL DEF QuerySpec, RequestAdvances
=============================================================================
