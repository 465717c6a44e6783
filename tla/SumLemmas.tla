----------------------------- MODULE SumLemmas -----------------------------
(***************************************************************************)
(* Lemmas the proofs of several components need: products and quotients,   *)
(* places in an order, and the sums of the community modules               *)
(* (SumFunction), which the code computes with sum() over scores, amounts  *)
(* and balance changes. What is true of every finite set is proved by a    *)
(* smallest counterexample.                                                *)
(***************************************************************************)
EXTENDS Integers, FiniteSets, Functions, FiniteSetTheorems, WellFoundedInduction, TLAPS

(* Products of natural numbers, for provers that do not multiply.          *)
LEMMA ProductNat == ASSUME NEW a \in Nat, NEW b \in Nat PROVE a * b \in Nat
  OBVIOUS

LEMMA ProductMonotone ==
    ASSUME NEW a \in Nat, NEW b \in Nat, NEW c \in Nat, b <= c
    PROVE  a * b <= a * c
  <1>1. a * c - a * b = a * (c - b)
    OBVIOUS
  <1>2. a * (c - b) \in Nat
    BY ProductNat
  <1> QED
    BY <1>1, <1>2

(* What dividing by a positive number leaves.                              *)
LEMMA Division ==
    ASSUME NEW x \in Nat, NEW d \in Nat \ {0}
    PROVE  /\ x \div d \in Nat
           /\ (x \div d) * d <= x
           /\ x < (x \div d) * d + d
  OBVIOUS

(* Who divides more by the same gets no less.                              *)
LEMMA DivisionMonotone ==
    ASSUME NEW x \in Nat, NEW y \in Nat, NEW d \in Nat \ {0}, x <= y
    PROVE  x \div d <= y \div d
  <1> DEFINE a == x \div d
             b == y \div d
  <1>1. /\ a \in Nat /\ a * d <= x
        /\ b \in Nat /\ y < b * d + d
    BY Division
  <1> HIDE DEF a, b
  <1>2. SUFFICES ASSUME b + 1 <= a PROVE FALSE
    BY <1>1 DEF a, b
  <1>3. d * (b + 1) <= d * a
    BY <1>1, <1>2, ProductMonotone
  <1>4. d * (b + 1) = b * d + d /\ d * a = a * d /\ a * d \in Nat /\ b * d \in Nat
    BY <1>1, ProductNat
  <1> QED
    BY <1>1, <1>3, <1>4

-----------------------------------------------------------------------------
(* Places. Of a finite set in which of any two one is before the other,    *)
(* as many as there are places have fewer before them than there are.      *)

(* before[u] are those before u.                                           *)
Ordered(S, before) ==
    /\ IsFiniteSet(S) /\ before \in [S -> SUBSET S]
    /\ \A u \in S : u \notin before[u]
    /\ \A u \in S, v \in S : u # v => u \in before[v] \/ v \in before[u]
    /\ \A u \in S : \A v \in before[u] : before[v] \subseteq before[u]

FirstOf(S, before, k) == {u \in S : Cardinality(before[u]) < k}

LEMMA PlaceType ==
    ASSUME NEW S, NEW before, Ordered(S, before), NEW u \in S
    PROVE  /\ IsFiniteSet(before[u]) /\ Cardinality(before[u]) \in Nat
           /\ Cardinality(before[u]) <= Cardinality(S) - 1
  <1>1. before[u] \in SUBSET (S \ {u}) /\ IsFiniteSet(S)
    BY DEF Ordered
  <1>2. IsFiniteSet(S \ {u}) /\ Cardinality(S \ {u}) = Cardinality(S) - 1
    BY <1>1, FS_RemoveElement
  <1> QED
    BY <1>1, <1>2, FS_Subset, FS_CardinalityType

(* Whoever is before another has fewer before it.                          *)
LEMMA EarlierPlace ==
    ASSUME NEW S, NEW before, Ordered(S, before), NEW u \in S, NEW v \in before[u]
    PROVE  Cardinality(before[v]) < Cardinality(before[u])
  <1>1. v \in S /\ before[v] \in SUBSET before[u] /\ v \in before[u] /\ v \notin before[v]
    BY DEF Ordered
  <1>2. before[v] # before[u]
    BY <1>1
  <1>3. /\ IsFiniteSet(before[u]) /\ Cardinality(before[u]) \in Nat
        /\ Cardinality(before[v]) \in Nat
    BY <1>1, PlaceType
  <1>4. Cardinality(before[v]) <= Cardinality(before[u])
    BY <1>1, <1>3, FS_Subset
  <1>5. Cardinality(before[v]) # Cardinality(before[u])
    BY <1>1, <1>2, <1>3, FS_Subset
  <1> QED
    BY <1>3, <1>4, <1>5

LEMMA FirstCount ==
    ASSUME NEW S, NEW before, Ordered(S, before), NEW k \in Nat
    PROVE  /\ FirstOf(S, before, k) \in SUBSET S /\ IsFiniteSet(FirstOf(S, before, k))
           /\ Cardinality(FirstOf(S, before, k))
                = IF k < Cardinality(S) THEN k ELSE Cardinality(S)
  <1> DEFINE n == Cardinality(S)
             most == IF k < n THEN k ELSE n
             First == FirstOf(S, before, k)
             rank == [u \in S |-> Cardinality(before[u])]
             kept == [u \in First |-> rank[u]]
  <1>1. IsFiniteSet(S) /\ n \in Nat /\ First \in SUBSET S /\ IsFiniteSet(First)
    BY FS_CardinalityType, FS_Subset DEF Ordered, FirstOf
  <1>2. ASSUME NEW m \in Nat PROVE IsFiniteSet(0..(m - 1)) /\ Cardinality(0..(m - 1)) = m
    BY <1>2, FS_Interval
  <1>3. rank \in Injection(S, 0..(n - 1))
    <2>1. \A u \in S : rank[u] \in 0..(n - 1)
      BY <1>1, PlaceType
    <2>2. ASSUME NEW u \in S, NEW v \in S, u # v PROVE rank[u] # rank[v]
      <3>1. Cardinality(before[u]) \in Nat /\ Cardinality(before[v]) \in Nat
        BY PlaceType
      <3>2. u \in before[v] \/ v \in before[u]
        BY <2>2 DEF Ordered
      <3> QED
        BY <3>1, <3>2, EarlierPlace
    <2>3. rank \in [S -> 0..(n - 1)]
      BY <2>1
    <2> HIDE DEF rank, n
    <2> QED
      BY <2>2, <2>3 DEF Injection, IsInjective
  <1>4. \A i \in 0..(n - 1) : \E u \in S : rank[u] = i
    <2>1. rank \in Surjection(S, 0..(n - 1))
      <3> HIDE DEF rank
      <3> QED
        BY <1>1, <1>2, <1>3, FS_Injection
    <2> HIDE DEF rank, n
    <2> QED
      BY <2>1 DEF Surjection
  <1>5. most \in Nat
    BY <1>1
  <1>6. First = {u \in S : rank[u] \in 0..(most - 1)}
    <2>1. \A u \in S : Cardinality(before[u]) < k <=> rank[u] \in 0..(most - 1)
      BY <1>1, PlaceType
    <2> HIDE DEF rank, most
    <2> QED
      BY <2>1 DEF FirstOf
  <1>7. kept \in [First -> 0..(most - 1)]
    <2> HIDE DEF rank, most, First
    <2> QED
      BY <1>6
  <1>8. kept \in Injection(First, 0..(most - 1))
    <2> HIDE DEF rank, most, First
    <2> QED
      BY <1>1, <1>3, <1>7 DEF Injection, IsInjective
  <1>9. kept \in Surjection(First, 0..(most - 1))
    <2>1. ASSUME NEW i \in 0..(most - 1) PROVE \E u \in First : kept[u] = i
      <3>1. i \in 0..(n - 1)
        BY <1>1
      <3>2. PICK u \in S : rank[u] = i
        BY <1>4, <3>1
      <3> HIDE DEF rank, most, First
      <3> QED
        BY <1>6, <3>2
    <2> HIDE DEF kept, most, First
    <2> QED
      BY <1>7, <2>1 DEF Surjection
  <1>10. Cardinality(First) = most
    <2> HIDE DEF kept, most, First
    <2> QED
      BY <1>2, <1>5, <1>8, <1>9, FS_Injection
  <1> QED
    BY <1>1, <1>10

-----------------------------------------------------------------------------
(* Induction over data. *)


(* A nonempty set of natural numbers has a least element.                  *)
LEMMA LeastNat ==
    ASSUME NEW Q \in SUBSET Nat, Q # {}
    PROVE  \E m \in Q : \A q \in Q : m <= q
  <1>1. PICK R : IsWellFoundedOn(R, Nat) /\ \A x, y \in Nat : x < y => <<x, y>> \in R
    <2> DEFINE R == OpToRel(<, Nat)
    <2>1. IsWellFoundedOn(R, Nat)
      BY NatLessThanWellFounded
    <2>2. \A x, y \in Nat : x < y => <<x, y>> \in R
      BY DEF OpToRel
    <2> HIDE DEF R
    <2> QED
      BY <2>1, <2>2
  <1>2. PICK m \in Q : \A q \in Q : ~(<<q, m>> \in R)
    <2>1. IsWellFoundedOn(R, Nat) /\ Q \subseteq Nat /\ Q # {}
      BY <1>1
    <2>2. \E m \in Q : \A q \in Q : ~(<<q, m>> \in R)
      BY ONLY <2>1, WFMin
    <2> QED
      BY <2>2
  <1>3. \A q \in Q : ~(q < m)
    BY <1>1, <1>2
  <1> QED
    BY <1>2, <1>3

(* Counting up from 0 reaches every natural number.                        *)
LEMMA NatStep ==
    ASSUME NEW Q \in SUBSET Nat, 0 \in Q, \A k \in Q : k + 1 \in Q
    PROVE  Q = Nat
  <1>1. SUFFICES ASSUME Nat \ Q # {} PROVE FALSE
    OBVIOUS
  <1>2. PICK m \in Nat \ Q : \A q \in Nat \ Q : m <= q
    BY <1>1, LeastNat
  <1>3. m - 1 \in Q
    BY <1>2
  <1> QED
    BY <1>2, <1>3

(* Induction over the subsets of a finite set: a property of them is the   *)
(* set of those that have it, and whatever has it below a subset has it.   *)
LEMMA SubsetInduction ==
    ASSUME NEW S, IsFiniteSet(S), NEW Q,
           \A T \in SUBSET S : (\A U \in SUBSET T : U # T => U \in Q) => T \in Q
    PROVE  SUBSET S \subseteq Q
  <1>1. SUFFICES ASSUME (SUBSET S) \ Q # {} PROVE FALSE
    OBVIOUS
  <1> DEFINE sizes == {Cardinality(T) : T \in (SUBSET S) \ Q}
  <1>2. sizes \in SUBSET Nat /\ sizes # {}
    BY <1>1, FS_Subset, FS_CardinalityType
  <1>3. PICK T \in (SUBSET S) \ Q : \A U \in (SUBSET S) \ Q : Cardinality(T) <= Cardinality(U)
    <2>1. PICK m \in sizes : \A k \in sizes : m <= k
      <3> HIDE DEF sizes
      <3> QED
        BY <1>2, LeastNat
    <2> QED
      BY <2>1
  <1>4. ASSUME NEW U \in SUBSET T, U # T PROVE U \in Q
    <2>1. IsFiniteSet(T) /\ U \in SUBSET S
      BY FS_Subset
    <2>2. Cardinality(U) <= Cardinality(T) /\ Cardinality(U) # Cardinality(T)
      BY <1>4, <2>1, FS_Subset
    <2>3. Cardinality(U) \in Nat /\ Cardinality(T) \in Nat
      BY <2>1, FS_Subset, FS_CardinalityType
    <2> QED
      BY <1>3, <2>1, <2>2, <2>3
  <1> QED
    BY <1>3, <1>4

(* The same, one element at a time.                                        *)
LEMMA ElementInduction ==
    ASSUME NEW S, IsFiniteSet(S), NEW Q, {} \in Q,
           \A T \in SUBSET S : \A x \in S \ T : T \in Q => T \cup {x} \in Q
    PROVE  S \in Q
  <1>1. ASSUME NEW T \in SUBSET S, \A U \in SUBSET T : U # T => U \in Q
        PROVE  T \in Q
    <2>1. CASE T = {}
      BY <2>1
    <2>2. CASE T # {}
      <3>1. PICK x \in T : TRUE
        BY <2>2
      <3>2. T \ {x} \in Q
        BY <1>1
      <3>3. (T \ {x}) \cup {x} = T
        OBVIOUS
      <3> QED
        BY <3>2, <3>3
    <2> QED
      BY <2>1, <2>2
  <1> QED
    BY <1>1, SubsetInduction

-----------------------------------------------------------------------------
(* The recursive function behind the sums of the community modules.        *)

Pick(s) == CHOOSE x \in s : TRUE

(* What the function computes for one set, from what it does for less.     *)
Unfold(f, h, s) == IF s = {} THEN 0 ELSE f[Pick(s)] + h[s \ {Pick(s)}]

Sums(f, h, S) == h = [s \in SUBSET S |-> Unfold(f, h, s)]

(* A recursive function is the chosen solution of its equation ...          *)
LEMMA SumIsChosen ==
    ASSUME NEW f, NEW S
    PROVE  SumFunctionOnSet(f, S) = (CHOOSE h : Sums(f, h, S))[S]
  BY DEF SumFunctionOnSet, FoldFunctionOnSet, MapThenFoldSet, Sums, Unfold, Pick

(* ... which has one: over the sets of up to n elements, for every n.       *)
LEMMA SumsExist ==
    ASSUME NEW f, NEW S, IsFiniteSet(S)
    PROVE  \E h : Sums(f, h, S)
  <1> DEFINE Small(n) == {s \in SUBSET S : Cardinality(s) <= n}
             Q == {n \in Nat : \E h : h = [s \in Small(n) |-> Unfold(f, h, s)]}
  <1>1. \A s \in SUBSET S : Cardinality(s) \in Nat /\ Cardinality(s) <= Cardinality(S)
    BY FS_Subset, FS_CardinalityType
  <1>2. ASSUME NEW s \in SUBSET S, s # {}
        PROVE  s \ {Pick(s)} \in SUBSET S /\ Cardinality(s \ {Pick(s)}) = Cardinality(s) - 1
    BY <1>2, FS_Subset, FS_RemoveElement DEF Pick
  <1>3. 0 \in Q
    <2> DEFINE h == [s \in Small(0) |-> 0]
    <2>1. \A s \in Small(0) : s = {}
      BY <1>1, FS_Subset, FS_EmptySet
    <2>2. h = [s \in Small(0) |-> Unfold(f, h, s)]
      BY <2>1 DEF Unfold
    <2> QED
      BY <2>2
  <1>4. ASSUME NEW n \in Q PROVE n + 1 \in Q
    <2>1. PICK h : h = [s \in Small(n) |-> Unfold(f, h, s)]
      BY <1>4
    <2> DEFINE g == [s \in Small(n + 1) |-> Unfold(f, h, s)]
    <2>2. \A s \in Small(n) : s \in Small(n + 1) /\ g[s] = h[s]
      BY <1>1, <2>1
    <2>3. ASSUME NEW s \in Small(n + 1) PROVE Unfold(f, g, s) = Unfold(f, h, s)
      <3>1. CASE s = {}
        BY <3>1 DEF Unfold
      <3>2. CASE s # {}
        <4>1. s \ {Pick(s)} \in Small(n)
          BY <1>1, <1>2, <3>2
        <4> QED
          BY <2>2, <4>1, <3>2 DEF Unfold
      <3> QED
        BY <3>1, <3>2
    <2>4. g = [s \in Small(n + 1) |-> Unfold(f, g, s)]
      BY <2>3
    <2> HIDE DEF g, Small
    <2>5. \E k : k = [s \in Small(n + 1) |-> Unfold(f, k, s)]
      BY <2>4
    <2> QED
      BY <2>5
  <1>5. Cardinality(S) \in Q
    <2> HIDE DEF Q
    <2>1. Q \in SUBSET Nat
      BY DEF Q
    <2> QED
      BY <1>1, <1>3, <1>4, <2>1, NatStep
  <1>6. Small(Cardinality(S)) = SUBSET S
    BY <1>1
  <1> QED
    BY <1>5, <1>6 DEF Sums

(* Over a smaller set it computes the same.                                *)
LEMMA SumsAgree ==
    ASSUME NEW f, NEW S, IsFiniteSet(S), NEW R \in SUBSET S,
           NEW h, Sums(f, h, S), NEW g, Sums(f, g, R)
    PROVE  h[R] = g[R]
  <1> DEFINE Q == {T \in SUBSET R : h[T] = g[T]}
  <1>1. ASSUME NEW T \in SUBSET R, \A U \in SUBSET T : U # T => U \in Q
        PROVE  T \in Q
    <2>1. h[T] = Unfold(f, h, T) /\ g[T] = Unfold(f, g, T)
      BY DEF Sums
    <2>2. T # {} => T \ {Pick(T)} \in Q
      BY <1>1 DEF Pick
    <2> QED
      BY <2>1, <2>2 DEF Unfold
  <1>2. IsFiniteSet(R)
    BY FS_Subset
  <1>3. SUBSET R \subseteq Q
    <2> HIDE DEF Q
    <2> QED
      BY <1>1, <1>2, SubsetInduction
  <1> QED
    BY <1>3

-----------------------------------------------------------------------------
(* What a sum is, without the recursion. *)

(* Nothing to add up.                                                      *)
LEMMA SumEmpty ==
    ASSUME NEW f
    PROVE  SumFunctionOnSet(f, {}) = 0
  <1>1. PICK h : Sums(f, h, {})
    BY SumsExist, FS_EmptySet
  <1>2. Sums(f, CHOOSE g : Sums(f, g, {}), {})
    BY <1>1
  <1> QED
    BY <1>2, SumIsChosen DEF Sums, Unfold

(* The summand the code of the module takes out first.                     *)
LEMMA SumPick ==
    ASSUME NEW f, NEW S, IsFiniteSet(S), S # {}
    PROVE  SumFunctionOnSet(f, S) = f[Pick(S)] + SumFunctionOnSet(f, S \ {Pick(S)})
  <1> DEFINE R == S \ {Pick(S)}
             h == CHOOSE k : Sums(f, k, S)
             g == CHOOSE k : Sums(f, k, R)
  <1>1. IsFiniteSet(R) /\ R \in SUBSET S
    BY FS_Subset
  <1>2. Sums(f, h, S) /\ Sums(f, g, R)
    BY <1>1, SumsExist
  <1>3. SumFunctionOnSet(f, S) = h[S] /\ SumFunctionOnSet(f, R) = g[R]
    BY SumIsChosen
  <1>4. h[R] = g[R]
    <2> HIDE DEF h, g, R
    <2> QED
      BY <1>1, <1>2, SumsAgree
  <1>5. h[S] = f[Pick(S)] + h[R]
    <2> HIDE DEF h
    <2> QED
      BY <1>2 DEF Sums, Unfold
  <1> QED
    BY <1>3, <1>4, <1>5

(* Type correctness.                                                       *)
LEMMA SumInt ==
    ASSUME NEW f, NEW S, IsFiniteSet(S), \A x \in S : f[x] \in Int
    PROVE  SumFunctionOnSet(f, S) \in Int
  <1> DEFINE Q == {T \in SUBSET S : SumFunctionOnSet(f, T) \in Int}
  <1>1. ASSUME NEW T \in SUBSET S, \A U \in SUBSET T : U # T => U \in Q
        PROVE  T \in Q
    <2>1. CASE T = {}
      BY <2>1, SumEmpty
    <2>2. CASE T # {}
      <3>1. Pick(T) \in T /\ T \ {Pick(T)} \in Q /\ IsFiniteSet(T)
        BY <1>1, <2>2, FS_Subset DEF Pick
      <3>2. SumFunctionOnSet(f, T) = f[Pick(T)] + SumFunctionOnSet(f, T \ {Pick(T)})
        BY <2>2, <3>1, SumPick
      <3> QED
        BY <3>1, <3>2
    <2> QED
      BY <2>1, <2>2
  <1>2. SUBSET S \subseteq Q
    <2> HIDE DEF Q
    <2> QED
      BY <1>1, SubsetInduction
  <1> QED
    BY <1>2

(* Any element may be taken out first, not only the one the code picks.    *)
LEMMA SumRemove ==
    ASSUME NEW f, NEW S, IsFiniteSet(S), \A y \in S : f[y] \in Int, NEW x \in S
    PROVE  SumFunctionOnSet(f, S) = f[x] + SumFunctionOnSet(f, S \ {x})
  <1> DEFINE Q == {T \in SUBSET S : \A y \in T :
                       SumFunctionOnSet(f, T) = f[y] + SumFunctionOnSet(f, T \ {y})}
  <1>1. ASSUME NEW T \in SUBSET S, \A U \in SUBSET T : U # T => U \in Q, NEW y \in T
        PROVE  SumFunctionOnSet(f, T) = f[y] + SumFunctionOnSet(f, T \ {y})
    <2> DEFINE c == Pick(T)
    <2>1. c \in T /\ T \ {c} \in Q /\ IsFiniteSet(T)
      BY <1>1, FS_Subset DEF Pick
    <2>2. SumFunctionOnSet(f, T) = f[c] + SumFunctionOnSet(f, T \ {c})
      BY <2>1, SumPick
    <2> HIDE DEF c
    <2>3. CASE y = c
      BY <2>2, <2>3
    <2>4. CASE y # c
      <3> DEFINE R == (T \ {c}) \ {y}
      <3>1. SumFunctionOnSet(f, T \ {c}) = f[y] + SumFunctionOnSet(f, R)
        BY <2>1, <2>4
      <3>2. T \ {y} \in Q /\ c \in T \ {y} /\ (T \ {y}) \ {c} = R
        BY <1>1, <2>1, <2>4
      <3>3. SumFunctionOnSet(f, T \ {y}) = f[c] + SumFunctionOnSet(f, R)
        BY <3>2
      <3>4. SumFunctionOnSet(f, R) \in Int
        BY FS_Subset, SumInt
      <3>5. f[c] \in Int /\ f[y] \in Int
        BY <2>1
      <3> HIDE DEF Q, R
      <3> QED
        BY <2>2, <3>1, <3>3, <3>4, <3>5
    <2> QED
      BY <2>3, <2>4
  <1>2. SUBSET S \subseteq Q
    <2>1. \A T \in SUBSET S : (\A U \in SUBSET T : U # T => U \in Q) => T \in Q
      BY <1>1
    <2> HIDE DEF Q
    <2> QED
      BY <2>1, SubsetInduction
  <1> QED
    BY <1>2

(* One summand more.                                                       *)
LEMMA SumAdd ==
    ASSUME NEW f, NEW S, IsFiniteSet(S), \A y \in S : f[y] \in Int,
           NEW x, x \notin S, f[x] \in Int
    PROVE  SumFunctionOnSet(f, S \cup {x}) = f[x] + SumFunctionOnSet(f, S)
  <1>1. IsFiniteSet(S \cup {x}) /\ (S \cup {x}) \ {x} = S
    BY FS_AddElement
  <1> QED
    BY <1>1, SumRemove

(* Only the summands count.                                                *)
LEMMA SumSame ==
    ASSUME NEW f, NEW g, NEW S, IsFiniteSet(S), \A x \in S : f[x] \in Int /\ g[x] = f[x]
    PROVE  SumFunctionOnSet(g, S) = SumFunctionOnSet(f, S)
  <1> DEFINE Q == {T \in SUBSET S : SumFunctionOnSet(g, T) = SumFunctionOnSet(f, T)}
  <1>1. {} \in Q
    BY SumEmpty
  <1>2. ASSUME NEW T \in SUBSET S, NEW x \in S \ T, T \in Q PROVE T \cup {x} \in Q
    <2>1. IsFiniteSet(T)
      BY FS_Subset
    <2>2. /\ SumFunctionOnSet(f, T \cup {x}) = f[x] + SumFunctionOnSet(f, T)
          /\ SumFunctionOnSet(g, T \cup {x}) = g[x] + SumFunctionOnSet(g, T)
      BY <2>1, SumAdd
    <2> QED
      BY <1>2, <2>2
  <1>3. S \in Q
    <2> HIDE DEF Q
    <2> QED
      BY <1>1, <1>2, ElementInduction
  <1> QED
    BY <1>3

(* Larger summands, no smaller sum.                                        *)
LEMMA SumMonotone ==
    ASSUME NEW f, NEW g, NEW S, IsFiniteSet(S),
           \A x \in S : f[x] \in Int /\ g[x] \in Int /\ f[x] <= g[x]
    PROVE  SumFunctionOnSet(f, S) <= SumFunctionOnSet(g, S)
  <1> DEFINE Q == {T \in SUBSET S : SumFunctionOnSet(f, T) <= SumFunctionOnSet(g, T)}
  <1>1. {} \in Q
    BY SumEmpty
  <1>2. ASSUME NEW T \in SUBSET S, NEW x \in S \ T, T \in Q PROVE T \cup {x} \in Q
    <2>1. IsFiniteSet(T)
      BY FS_Subset
    <2>2. /\ SumFunctionOnSet(f, T \cup {x}) = f[x] + SumFunctionOnSet(f, T)
          /\ SumFunctionOnSet(g, T \cup {x}) = g[x] + SumFunctionOnSet(g, T)
      BY <2>1, SumAdd
    <2>3. SumFunctionOnSet(f, T) \in Int /\ SumFunctionOnSet(g, T) \in Int
      BY <2>1, SumInt
    <2> QED
      BY <1>2, <2>2, <2>3
  <1>3. S \in Q
    <2> HIDE DEF Q
    <2> QED
      BY <1>1, <1>2, ElementInduction
  <1> QED
    BY <1>3

(* The sum of what two functions have together.                            *)
LEMMA SumPlus ==
    ASSUME NEW f, NEW g, NEW h, NEW S, IsFiniteSet(S),
           \A x \in S : f[x] \in Int /\ g[x] \in Int /\ h[x] = f[x] + g[x]
    PROVE  SumFunctionOnSet(h, S) = SumFunctionOnSet(f, S) + SumFunctionOnSet(g, S)
  <1> DEFINE Q == {T \in SUBSET S : SumFunctionOnSet(h, T)
                                       = SumFunctionOnSet(f, T) + SumFunctionOnSet(g, T)}
  <1>1. {} \in Q
    BY SumEmpty
  <1>2. ASSUME NEW T \in SUBSET S, NEW x \in S \ T, T \in Q PROVE T \cup {x} \in Q
    <2>1. IsFiniteSet(T)
      BY FS_Subset
    <2>2. \A y \in S : h[y] \in Int
      OBVIOUS
    <2>3. /\ SumFunctionOnSet(f, T \cup {x}) = f[x] + SumFunctionOnSet(f, T)
          /\ SumFunctionOnSet(g, T \cup {x}) = g[x] + SumFunctionOnSet(g, T)
          /\ SumFunctionOnSet(h, T \cup {x}) = h[x] + SumFunctionOnSet(h, T)
      BY <2>1, <2>2, SumAdd
    <2>4. SumFunctionOnSet(f, T) \in Int /\ SumFunctionOnSet(g, T) \in Int
      BY <2>1, SumInt
    <2> QED
      BY <1>2, <2>3, <2>4
  <1>3. S \in Q
    <2> HIDE DEF Q
    <2> QED
      BY <1>1, <1>2, ElementInduction
  <1> QED
    BY <1>3

(* A common factor.                                                        *)
LEMMA SumTimes ==
    ASSUME NEW f, NEW g, NEW S, IsFiniteSet(S), NEW c \in Int,
           \A x \in S : f[x] \in Int /\ g[x] = c * f[x]
    PROVE  SumFunctionOnSet(g, S) = c * SumFunctionOnSet(f, S)
  <1> DEFINE Q == {T \in SUBSET S : SumFunctionOnSet(g, T) = c * SumFunctionOnSet(f, T)}
  <1>1. {} \in Q
    BY SumEmpty
  <1>2. ASSUME NEW T \in SUBSET S, NEW x \in S \ T, T \in Q PROVE T \cup {x} \in Q
    <2>1. IsFiniteSet(T)
      BY FS_Subset
    <2>2. \A y \in S : g[y] \in Int
      OBVIOUS
    <2>3. /\ SumFunctionOnSet(f, T \cup {x}) = f[x] + SumFunctionOnSet(f, T)
          /\ SumFunctionOnSet(g, T \cup {x}) = g[x] + SumFunctionOnSet(g, T)
      BY <2>1, <2>2, SumAdd
    <2>4. SumFunctionOnSet(f, T) \in Int /\ f[x] \in Int
      BY <2>1, SumInt
    <2>5. \A a, b \in Int : c * (a + b) = c * a + c * b
      OBVIOUS
    <2> QED
      BY <1>2, <2>3, <2>4, <2>5
  <1>3. S \in Q
    <2> HIDE DEF Q
    <2> QED
      BY <1>1, <1>2, ElementInduction
  <1> QED
    BY <1>3

(* As many summands as the set has elements.                               *)
LEMMA SumConstant ==
    ASSUME NEW f, NEW S, IsFiniteSet(S), NEW c \in Int, \A x \in S : f[x] = c
    PROVE  SumFunctionOnSet(f, S) = c * Cardinality(S)
  <1> DEFINE Q == {T \in SUBSET S : SumFunctionOnSet(f, T) = c * Cardinality(T)}
  <1>1. {} \in Q
    BY SumEmpty, FS_EmptySet
  <1>2. ASSUME NEW T \in SUBSET S, NEW x \in S \ T, T \in Q PROVE T \cup {x} \in Q
    <2>1. IsFiniteSet(T) /\ Cardinality(T) \in Nat
      BY FS_Subset, FS_CardinalityType
    <2>2. /\ SumFunctionOnSet(f, T \cup {x}) = f[x] + SumFunctionOnSet(f, T)
          /\ Cardinality(T \cup {x}) = Cardinality(T) + 1
      BY <2>1, SumAdd, FS_AddElement
    <2>3. \A k \in Nat : c * (k + 1) = c + c * k
      OBVIOUS
    <2> QED
      BY <1>2, <2>1, <2>2, <2>3
  <1>3. S \in Q
    <2> HIDE DEF Q
    <2> QED
      BY <1>1, <1>2, ElementInduction
  <1> QED
    BY <1>3

(* Nothing negative comes of natural numbers.                              *)
LEMMA SumNat ==
    ASSUME NEW f, NEW S, IsFiniteSet(S), \A x \in S : f[x] \in Nat
    PROVE  SumFunctionOnSet(f, S) \in Nat
  <1> DEFINE zero == [x \in S |-> 0]
  <1>1. SumFunctionOnSet(zero, S) = 0 * Cardinality(S) /\ Cardinality(S) \in Nat
    BY SumConstant, FS_CardinalityType
  <1>2. SumFunctionOnSet(zero, S) <= SumFunctionOnSet(f, S)
    BY SumMonotone
  <1> HIDE DEF zero
  <1> QED
    BY <1>1, <1>2, SumInt

(* A part of the summands, and what is left.                               *)
LEMMA SumUnion ==
    ASSUME NEW f, NEW S, IsFiniteSet(S), NEW R, IsFiniteSet(R), S \cap R = {},
           \A x \in S \cup R : f[x] \in Int
    PROVE  SumFunctionOnSet(f, S \cup R) = SumFunctionOnSet(f, S) + SumFunctionOnSet(f, R)
  <1> DEFINE Q == {T \in SUBSET R : SumFunctionOnSet(f, S \cup T)
                                       = SumFunctionOnSet(f, S) + SumFunctionOnSet(f, T)}
  <1>1. {} \in Q
    <2>1. S \cup {} = S /\ SumFunctionOnSet(f, S) \in Int
      BY SumInt
    <2> QED
      BY <2>1, SumEmpty
  <1>2. ASSUME NEW T \in SUBSET R, NEW x \in R \ T, T \in Q PROVE T \cup {x} \in Q
    <2>1. /\ IsFiniteSet(T) /\ IsFiniteSet(S \cup T)
          /\ x \notin S \cup T /\ S \cup (T \cup {x}) = (S \cup T) \cup {x}
      BY FS_Subset, FS_Union
    <2>2. /\ SumFunctionOnSet(f, T \cup {x}) = f[x] + SumFunctionOnSet(f, T)
          /\ SumFunctionOnSet(f, S \cup (T \cup {x})) = f[x] + SumFunctionOnSet(f, S \cup T)
      BY <2>1, SumAdd
    <2>3. SumFunctionOnSet(f, T) \in Int /\ SumFunctionOnSet(f, S) \in Int /\ f[x] \in Int
      BY <2>1, SumInt
    <2> QED
      BY <1>2, <2>2, <2>3
  <1>3. R \in Q
    <2> HIDE DEF Q
    <2> QED
      BY <1>1, <1>2, ElementInduction
  <1> QED
    BY <1>3

(* A sum of natural numbers is no less than one of them, and positive only *)
(* if one of them is.                                                      *)
LEMMA SumAtLeast ==
    ASSUME NEW f, NEW S, IsFiniteSet(S), \A x \in S : f[x] \in Nat, NEW x \in S
    PROVE  f[x] <= SumFunctionOnSet(f, S)
  <1>1. SumFunctionOnSet(f, S) = f[x] + SumFunctionOnSet(f, S \ {x})
    BY SumRemove
  <1>2. SumFunctionOnSet(f, S \ {x}) \in Nat
    BY FS_RemoveElement, SumNat
  <1> QED
    BY <1>1, <1>2

LEMMA SumPositive ==
    ASSUME NEW f, NEW S, IsFiniteSet(S), \A x \in S : f[x] \in Nat, SumFunctionOnSet(f, S) > 0
    PROVE  \E x \in S : f[x] > 0
  <1>1. SUFFICES ASSUME \A x \in S : f[x] = 0 PROVE FALSE
    OBVIOUS
  <1>2. SumFunctionOnSet(f, S) = 0 * Cardinality(S) /\ Cardinality(S) \in Nat
    BY <1>1, SumConstant, FS_CardinalityType
  <1> QED
    BY <1>2

(* Shares of c that are rounded down add up to no more than c.             *)
LEMMA SharesFit ==
    ASSUME NEW f, NEW w, NEW S, IsFiniteSet(S), NEW c \in Nat,
           \A x \in S : f[x] \in Nat /\ w[x] \in Nat,
           SumFunctionOnSet(f, S) > 0,
           \A x \in S : SumFunctionOnSet(f, S) * w[x] <= c * f[x]
    PROVE  SumFunctionOnSet(w, S) <= c
  <1> DEFINE d == SumFunctionOnSet(f, S)
             all == SumFunctionOnSet(w, S)
             share == [x \in S |-> c * f[x]]
             given == [x \in S |-> d * w[x]]
  <1>1. d \in Nat /\ all \in Nat
    BY SumNat
  <1>2. /\ \A x \in S : share[x] = c * f[x] /\ share[x] \in Int
        /\ \A x \in S : given[x] = d * w[x] /\ given[x] \in Int
    BY <1>1, ProductNat
  <1>3. \A x \in S : given[x] <= share[x]
    BY <1>2
  <1> HIDE DEF share, given
  <1>4. SumFunctionOnSet(given, S) = d * all /\ SumFunctionOnSet(share, S) = c * d
    <2>1. \A x \in S : w[x] \in Int /\ given[x] = d * w[x]
      BY <1>2
    <2>2. \A x \in S : f[x] \in Int /\ share[x] = c * f[x]
      BY <1>2
    <2> HIDE DEF d
    <2>3. SumFunctionOnSet(given, S) = d * all
      BY <1>1, <2>1, SumTimes
    <2>4. SumFunctionOnSet(share, S) = c * SumFunctionOnSet(f, S)
      BY <2>2, SumTimes
    <2> QED
      BY <2>3, <2>4 DEF d
  <1>5. d * all <= c * d
    BY <1>2, <1>3, <1>4, SumMonotone
  <1>6. d > 0
    OBVIOUS
  <1> HIDE DEF d, all
  <1>7. SUFFICES ASSUME c + 1 <= all PROVE FALSE
    BY <1>1 DEF all
  <1>8. d * (c + 1) <= d * all
    BY <1>1, <1>7, ProductMonotone
  <1>9. d * (c + 1) = c * d + d /\ c * d \in Nat /\ d * all \in Nat
    BY <1>1, ProductNat
  <1> QED
    BY <1>1, <1>5, <1>6, <1>8, <1>9

(* Adding up by groups: first the summands of each group, then the groups. *)
LEMMA SumByGroup ==
    ASSUME NEW f, NEW S, IsFiniteSet(S), \A x \in S : f[x] \in Int,
           NEW group, NEW G, IsFiniteSet(G), \A x \in S : group[x] \in G,
           NEW part, \A a \in G : part[a] \in SUBSET S /\ \A x \in S : x \in part[a] <=> group[x] = a,
           NEW g, \A a \in G : g[a] = SumFunctionOnSet(f, part[a])
    PROVE  SumFunctionOnSet(g, G) = SumFunctionOnSet(f, S)
  <1> DEFINE Of(H) == {x \in S : group[x] \in H}
             Q == {H \in SUBSET G : SumFunctionOnSet(g, H) = SumFunctionOnSet(f, Of(H))}
  <1>1. \A a \in G : IsFiniteSet(part[a]) /\ g[a] \in Int
    <2>1. \A a \in G : IsFiniteSet(part[a])
      BY FS_Subset
    <2>2. \A a \in G : SumFunctionOnSet(f, part[a]) \in Int
      BY <2>1, SumInt
    <2> QED
      BY <2>1, <2>2
  <1>2. {} \in Q
    <2>1. Of({}) = {}
      OBVIOUS
    <2> QED
      BY <2>1, SumEmpty
  <1>3. ASSUME NEW H \in SUBSET G, NEW a \in G \ H, H \in Q PROVE H \cup {a} \in Q
    <2> DEFINE A == part[a]
    <2>1. /\ IsFiniteSet(H) /\ IsFiniteSet(Of(H)) /\ IsFiniteSet(A)
          /\ Of(H) \cap A = {} /\ Of(H \cup {a}) = Of(H) \cup A
      BY <1>1, FS_Subset
    <2>2. SumFunctionOnSet(g, H \cup {a}) = g[a] + SumFunctionOnSet(g, H)
      BY <1>1, <2>1, SumAdd
    <2>3. SumFunctionOnSet(f, Of(H) \cup A) = SumFunctionOnSet(f, Of(H)) + SumFunctionOnSet(f, A)
      BY <2>1, SumUnion
    <2>4. SumFunctionOnSet(f, A) \in Int /\ SumFunctionOnSet(f, Of(H)) \in Int
      BY <2>1, SumInt
    <2>5. g[a] = SumFunctionOnSet(f, A)
      OBVIOUS
    <2>6. SumFunctionOnSet(g, H) = SumFunctionOnSet(f, Of(H))
      BY <1>3
    <2>7. SumFunctionOnSet(g, H \cup {a}) = SumFunctionOnSet(f, Of(H) \cup A)
      <3> HIDE DEF A, Of
      <3> QED
        BY <2>2, <2>3, <2>4, <2>5, <2>6
    <2>8. Of(H \cup {a}) = Of(H) \cup A
      BY <2>1
    <2> QED
      BY <2>7, <2>8
  <1>4. G \in Q
    <2> HIDE DEF Q
    <2> QED
      BY <1>2, <1>3, ElementInduction
  <1>5. Of(G) = S
    OBVIOUS
  <1> QED
    BY <1>4, <1>5
=============================================================================
