------------------------- MODULE BitcoinNodeProofs --------------------------
(***************************************************************************)
(* BitcoinNode and Miner, for every number of ranges and retries, every    *)
(* height of the chain, every block a node may return and every indexer:   *)
(* the ranges of select_block cover the chain without overlapping and      *)
(* favour newer blocks; a challenge asks for what a miner that has indexed *)
(* the block finds there; such a miner passes, and no pass is unearned.    *)
(***************************************************************************)
EXTENDS Miner, SumLemmas

(* Products grow with either factor (ProductMonotone).                     *)
LEMMA TimesMonotone ==
    ASSUME NEW a \in Nat, NEW b \in Nat, NEW c \in Nat, a <= b
    PROVE  a * c <= b * c
  <1>1. b * c - a * c = (b - a) * c
    OBVIOUS
  <1>2. (b - a) * c \in Nat
    BY ProductNat
  <1> QED
    BY <1>1, <1>2

(* The ranges but for the last are as long as PartSize, the last is longer *)
(* by the remainder.                                                       *)
LEMMA Parts ==
    ASSUME NEW l \in Nat
    PROVE  /\ PartSize(l) \in Nat
           /\ Chunks * PartSize(l) <= l + 1
           /\ l + 1 < Chunks * PartSize(l) + Chunks
           /\ l + 1 >= Chunks => PartSize(l) >= 1
  <1>1. Chunks \in Nat \ {0} /\ l + 1 \in Nat
    BY NodeAssumption
  <1>2. /\ PartSize(l) \in Nat
        /\ PartSize(l) * Chunks <= l + 1
        /\ l + 1 < PartSize(l) * Chunks + Chunks
    BY <1>1, Division DEF PartSize
  <1>3. PartSize(l) * Chunks = Chunks * PartSize(l)
    BY <1>1, <1>2
  <1>4. PartSize(l) = 0 => PartSize(l) * Chunks = 0
    BY <1>1
  <1> QED
    BY <1>1, <1>2, <1>3, <1>4

(* The first block of a range, counted from the length of the others.      *)
LEMMA Edges ==
    ASSUME NEW p \in Nat, NEW i \in Nat \ {0}
    PROVE  (i - 1) * p \in Nat /\ i * p = (i - 1) * p + p
  <1>1. i - 1 \in Nat
    OBVIOUS
  <1>2. i * p = (i - 1) * p + p
    OBVIOUS
  <1> QED
    BY <1>1, <1>2, ProductNat

LEMMA Covered ==
    ASSUME NEW l \in Nat, l + 1 >= Chunks, NEW b \in 0..l
    PROVE  \E i \in 1..Chunks : b \in RangeOf(l, i)
  <1> DEFINE p == PartSize(l)
  <1>1. p \in Nat \ {0} /\ Chunks \in Nat \ {0}
    BY Parts, NodeAssumption
  <1>2. CASE b < (Chunks - 1) * p
    <2> DEFINE q == b \div p
    <2>1. q \in Nat /\ q * p <= b /\ b < q * p + p
      <3>1. b \in Nat
        OBVIOUS
      <3> HIDE DEF p
      <3> QED
        BY <1>1, <3>1, Division
    <2> HIDE DEF q
    <2>2. q < Chunks - 1
      <3>1. SUFFICES ASSUME Chunks - 1 <= q PROVE FALSE
        BY <1>1, <2>1
      <3>2. Chunks - 1 \in Nat /\ (Chunks - 1) * p <= q * p
        BY <1>1, <2>1, <3>1, TimesMonotone
      <3> QED
        BY <1>1, <1>2, <2>1, <3>2, ProductNat
    <2>3. q + 1 \in 1..Chunks /\ q + 1 # Chunks
      BY <1>1, <2>1, <2>2
    <2>4. (q + 1) * p = q * p + p /\ q * p \in Nat
      BY <1>1, <2>1, ProductNat
    <2>5. b \in (q * p)..((q + 1) * p - 1)
      BY <1>1, <2>1, <2>4
    <2>6. RangeOf(l, q + 1) = (q * p)..((q + 1) * p - 1)
      BY <2>1, <2>3 DEF RangeOf
    <2> QED
      BY <2>3, <2>5, <2>6
  <1>3. CASE (Chunks - 1) * p <= b
    <2>1. RangeOf(l, Chunks) = ((Chunks - 1) * p)..l
      BY DEF RangeOf
    <2>2. (Chunks - 1) * p \in Nat
      BY <1>1, Edges
    <2> QED
      BY <1>1, <1>3, <2>1, <2>2
  <1>4. (Chunks - 1) * p \in Nat
    BY <1>1, Edges
  <1> QED
    BY <1>2, <1>3, <1>4

LEMMA Apart ==
    ASSUME NEW l \in Nat, NEW i \in 1..Chunks, NEW j \in 1..Chunks, i < j,
           NEW b \in 0..l, b \in RangeOf(l, i)
    PROVE  b \notin RangeOf(l, j)
  <1> DEFINE p == PartSize(l)
  <1>1. p \in Nat /\ Chunks \in Nat \ {0}
    BY Parts, NodeAssumption
  <1>2. i \in Nat /\ j \in Nat /\ j - 1 \in Nat /\ i <= j - 1 /\ i # Chunks
    BY <1>1
  <1>3. i * p \in Nat /\ (j - 1) * p \in Nat /\ i * p <= (j - 1) * p
    BY <1>1, <1>2, ProductNat, TimesMonotone
  <1>4. b <= i * p - 1
    BY <1>1, <1>2, <1>3 DEF RangeOf
  <1>5. b < (j - 1) * p
    BY <1>3, <1>4
  <1> QED
    BY <1>3, <1>5 DEF RangeOf

(* select_block may draw any block, and from one range only.               *)
LEMMA BlockOnce ==
    ASSUME NEW l \in Nat, l + 1 >= Chunks, NEW b \in 0..l
    PROVE  \E i \in 1..Chunks :
              /\ b \in RangeOf(l, i)
              /\ \A j \in 1..Chunks : b \in RangeOf(l, j) => j = i
  <1>1. PICK i \in 1..Chunks : b \in RangeOf(l, i)
    BY Covered
  <1>2. ASSUME NEW j \in 1..Chunks, b \in RangeOf(l, j) PROVE j = i
    <2>1. ~(i < j)
      BY <1>1, <1>2, Apart
    <2>2. ~(j < i)
      BY <1>1, <1>2, Apart
    <2> QED
      BY <2>1, <2>2, NodeAssumption
  <1> QED
    BY <1>1, <1>2

(* How many blocks a range has: the last makes up for the division.        *)
LEMMA Lengths ==
    ASSUME NEW l \in Nat, NEW i \in 1..Chunks
    PROVE  /\ i < Chunks => Cardinality(RangeOf(l, i)) = PartSize(l)
           /\ Cardinality(RangeOf(l, Chunks)) = l + 1 - (Chunks - 1) * PartSize(l)
  <1> DEFINE p == PartSize(l)
  <1>1. p \in Nat /\ Chunks \in Nat \ {0} /\ i \in Nat \ {0} /\ Chunks * p <= l + 1
    BY Parts, NodeAssumption
  <1>2. /\ (i - 1) * p \in Nat /\ i * p = (i - 1) * p + p
        /\ (Chunks - 1) * p \in Nat /\ Chunks * p = (Chunks - 1) * p + p
    BY <1>1, Edges
  <1>3. ASSUME i < Chunks PROVE Cardinality(RangeOf(l, i)) = p
    <2>1. RangeOf(l, i) = ((i - 1) * p)..(i * p - 1)
      BY <1>1, <1>3 DEF RangeOf
    <2> HIDE DEF p
    <2>2. Cardinality(((i - 1) * p)..(i * p - 1)) = p
      BY <1>1, <1>2, FS_Interval
    <2> QED
      BY <2>1, <2>2
  <1>4. RangeOf(l, Chunks) = ((Chunks - 1) * p)..l
    BY DEF RangeOf
  <1> HIDE DEF p
  <1>5. Cardinality(((Chunks - 1) * p)..l) = l + 1 - (Chunks - 1) * p
    BY <1>1, <1>2, FS_Interval
  <1> QED
    BY <1>3, <1>4, <1>5 DEF p

(* The last range is longer by less than a weight, which its weight makes  *)
(* up for when the ranges are long enough.                                 *)
LEMMA LastWeighsMore ==
    ASSUME NEW c \in Nat \ {0}, NEW p \in Nat, NEW i \in 1..c, NEW size \in Nat,
           i < c, p >= (c - 1) * (c - 1), size <= p + (c - 1)
    PROVE  i * size <= c * p
  <1>1. c - 1 \in Nat /\ i \in Nat /\ i <= c - 1
    OBVIOUS
  <1>2. i * size <= (c - 1) * size
    BY <1>1, TimesMonotone
  <1>3. size * (c - 1) <= (p + (c - 1)) * (c - 1)
    BY <1>1, TimesMonotone
  <1>4. (p + (c - 1)) * (c - 1) = (c - 1) * p + (c - 1) * (c - 1)
    BY <1>1
  <1>5. c * p = (c - 1) * p + p
    BY <1>1
  <1>6. size * (c - 1) = (c - 1) * size
    BY <1>1
  <1>7. /\ i * size \in Nat /\ (c - 1) * size \in Nat /\ (c - 1) * p \in Nat
        /\ (c - 1) * (c - 1) \in Nat
    BY <1>1, ProductNat
  <1> QED
    BY <1>2, <1>3, <1>4, <1>5, <1>6, <1>7

LEMMA Likelier ==
    ASSUME NEW l \in Nat, PartSize(l) >= (Chunks - 1) * (Chunks - 1),
           NEW i \in 1..Chunks, NEW j \in 1..Chunks, i < j
    PROVE  Weight(i) * Cardinality(RangeOf(l, j)) <= Weight(j) * Cardinality(RangeOf(l, i))
  <1> DEFINE p == PartSize(l)
  <1>1. p \in Nat /\ Chunks \in Nat \ {0} /\ Chunks * p <= l + 1 /\ l + 1 < Chunks * p + Chunks
    BY Parts, NodeAssumption
  <1>2. i \in Nat \ {0} /\ j \in Nat \ {0} /\ i < Chunks /\ j <= Chunks
    BY <1>1
  <1>3. Cardinality(RangeOf(l, i)) = p
    BY <1>2, Lengths
  <1>4. CASE j < Chunks
    <2>1. Cardinality(RangeOf(l, j)) = p
      BY <1>4, Lengths
    <2>2. i * p <= j * p
      BY <1>1, <1>2, TimesMonotone
    <2> QED
      BY <1>3, <2>1, <2>2 DEF Weight
  <1>5. CASE j = Chunks
    <2> DEFINE size == l + 1 - (Chunks - 1) * p
    <2>1. Cardinality(RangeOf(l, j)) = size
      BY <1>5, Lengths
    <2>2. (Chunks - 1) * p \in Nat /\ Chunks * p = (Chunks - 1) * p + p
      BY <1>1, Edges
    <2>3. size \in Nat /\ size <= p + (Chunks - 1)
      BY <1>1, <2>2
    <2> HIDE DEF p, size
    <2>4. p >= (Chunks - 1) * (Chunks - 1)
      BY DEF p
    <2>5. i * size <= Chunks * p
      BY <1>1, <1>2, <2>3, <2>4, LastWeighsMore
    <2> QED
      BY <1>3, <1>5, <2>1, <2>5 DEF Weight
  <1>6. j < Chunks \/ j = Chunks
    BY <1>1, <1>2
  <1> QED
    BY <1>4, <1>5, <1>6, Zenon

-----------------------------------------------------------------------------
(* The amounts of a transaction. *)

LEMMA FiniteHolders == IsFiniteSet(Holders)
  BY NodeAssumption, FS_AddElement DEF Holders

LEMMA OutputFields ==
    ASSUME NEW outs \in Seq(Outputs), NEW i \in DOMAIN outs
    PROVE  outs[i].value \in Nat /\ outs[i].addr \in Holders
  <1>1. outs[i] \in Outputs
    OBVIOUS
  <1> QED
    BY <1>1 DEF Outputs

LEMMA ValueNat ==
    ASSUME NEW outs \in Seq(Outputs), NEW I \in SUBSET DOMAIN outs
    PROVE  IsFiniteSet(I) /\ Value(outs, I) \in Nat
  <1> DEFINE f == [i \in I |-> outs[i].value]
  <1>1. IsFiniteSet(I)
    <2>1. DOMAIN outs = 1..Len(outs) /\ Len(outs) \in Nat
      OBVIOUS
    <2>2. \A l \in Nat : IsFiniteSet(1..l)
      BY FS_Interval
    <2>3. IsFiniteSet(DOMAIN outs)
      BY <2>1, <2>2
    <2> QED
      BY <2>3, FS_Subset
  <1>2. DOMAIN f = I /\ \A i \in I : f[i] \in Nat
    BY OutputFields
  <1> HIDE DEF f
  <1>3. SumFunctionOnSet(f, I) \in Nat
    BY <1>1, <1>2, SumNat
  <1> QED
    BY <1>1, <1>2, <1>3 DEF Value, SumFunction, f

(* What an address puts in and gets out is some of the transaction's.      *)
LEMMA AmountsNat ==
    ASSUME NEW t \in Transactions, NEW failed, NEW a
    PROVE  /\ Value(t.ins, InputsOf(t, failed, a)) \in Nat
           /\ Value(t.outs, OutputsOf(t, a)) \in Nat
  <1>1. t.ins \in Seq(Outputs) /\ t.outs \in Seq(Outputs)
    BY DEF Transactions
  <1>2. InputsOf(t, failed, a) \in SUBSET DOMAIN t.ins /\ OutputsOf(t, a) \in SUBSET DOMAIN t.outs
    BY DEF InputsOf, OutputsOf, Counted
  <1> QED
    BY <1>1, <1>2, ValueNat

(* Netting leaves an address on one side, with what it gains or loses.     *)
LEMMA NettedType ==
    ASSUME NEW t \in Transactions, NEW failed, NEW a \in Holders
    PROVE  /\ Netted(t, failed)[a].in \in Nat /\ Netted(t, failed)[a].out \in Nat
           /\ Netted(t, {})[a].in = IF Gain(t, a) < 0 THEN -Gain(t, a) ELSE 0
           /\ Netted(t, {})[a].out = IF Gain(t, a) > 0 THEN Gain(t, a) ELSE 0
           /\ Gain(t, a) \in Int
  <1>1. ASSUME NEW lost_
        PROVE  LET in == Value(t.ins, InputsOf(t, lost_, a))
                   out == Value(t.outs, OutputsOf(t, a))
               IN /\ in \in Nat /\ out \in Nat
                  /\ Netted(t, lost_)[a].in = IF in > out THEN in - out ELSE 0
                  /\ Netted(t, lost_)[a].out = IF in > out THEN 0 ELSE out - in
    <2> DEFINE in == Value(t.ins, InputsOf(t, lost_, a))
               out == Value(t.outs, OutputsOf(t, a))
    <2>1. Netted(t, lost_)[a] = IF in > out THEN [in |-> in - out, out |-> 0]
                                ELSE [in |-> 0, out |-> out - in]
      BY DEF Netted
    <2>2. in \in Nat /\ out \in Nat
      BY AmountsNat
    <2> HIDE DEF in, out
    <2>3. /\ Netted(t, lost_)[a].in = IF in > out THEN in - out ELSE 0
          /\ Netted(t, lost_)[a].out = IF in > out THEN 0 ELSE out - in
      BY <2>1
    <2> QED
      BY <2>2, <2>3 DEF in, out
  <1>2. Netted(t, failed)[a].in \in Nat /\ Netted(t, failed)[a].out \in Nat
    BY <1>1
  <1> DEFINE in == Value(t.ins, InputsOf(t, {}, a))
             out == Value(t.outs, OutputsOf(t, a))
  <1>3. Gain(t, a) = out - in
    BY DEF Gain
  <1>4. /\ in \in Nat /\ out \in Nat
        /\ Netted(t, {})[a].in = IF in > out THEN in - out ELSE 0
        /\ Netted(t, {})[a].out = IF in > out THEN 0 ELSE out - in
    BY <1>1
  <1> HIDE DEF in, out
  <1> QED
    BY <1>2, <1>3, <1>4

LEMMA TotalsNat ==
    ASSUME NEW t \in Transactions, NEW failed
    PROVE  Totals(t, failed).in \in Nat /\ Totals(t, failed).out \in Nat
  <1> DEFINE net == Netted(t, failed)
             ins == [a \in Holders |-> net[a].in]
             outs == [a \in Holders |-> net[a].out]
  <1>1. Totals(t, failed).in = SumFunction(ins) /\ Totals(t, failed).out = SumFunction(outs)
    BY DEF Totals
  <1>2. /\ DOMAIN ins = Holders /\ DOMAIN outs = Holders
        /\ \A a \in Holders : ins[a] \in Nat /\ outs[a] \in Nat
    BY NettedType
  <1> HIDE DEF ins, outs
  <1>3. SumFunctionOnSet(ins, Holders) \in Nat /\ SumFunctionOnSet(outs, Holders) \in Nat
    BY <1>2, FiniteHolders, SumNat
  <1> QED
    BY <1>1, <1>2, <1>3 DEF SumFunction

(* Without a lost lookup the amounts are those a miner looks for.          *)
LEMMA TotalsIndexed ==
    ASSUME NEW t \in Transactions
    PROVE  Totals(t, {}) = Indexed(t)
  <1> DEFINE net == Netted(t, {})
             ins == [a \in Holders |-> net[a].in]
             outs == [a \in Holders |-> net[a].out]
             loss == [a \in Holders |-> IF Gain(t, a) < 0 THEN Gain(t, a) ELSE 0]
             gain == [a \in Holders |-> IF Gain(t, a) > 0 THEN Gain(t, a) ELSE 0]
  <1>1. /\ Totals(t, {}) = [in |-> SumFunction(ins), out |-> SumFunction(outs)]
        /\ Indexed(t) = [in |-> -SumFunction(loss), out |-> SumFunction(gain)]
    BY DEF Totals, Indexed
  <1>2. outs = gain
    BY NettedType
  <1>3. /\ DOMAIN ins = Holders /\ DOMAIN loss = Holders
        /\ \A a \in Holders : loss[a] \in Int /\ ins[a] = (-1) * loss[a]
    BY NettedType
  <1> HIDE DEF ins, outs, loss, gain
  <1>4. SumFunctionOnSet(ins, Holders) = (-1) * SumFunctionOnSet(loss, Holders)
    BY <1>3, FiniteHolders, SumTimes
  <1>5. SumFunctionOnSet(loss, Holders) \in Int
    BY <1>3, FiniteHolders, SumInt
  <1>6. SumFunction(ins) = -SumFunction(loss)
    BY <1>3, <1>4, <1>5 DEF SumFunction
  <1> QED
    BY <1>1, <1>2, <1>6

(* What the addresses gain together is what the transaction makes more     *)
(* than it spends.                                                         *)
LEMMA GainsAddUp ==
    ASSUME NEW t \in Transactions,
           NEW g, \A a \in Holders : g[a] = Gain(t, a)
    PROVE  SumFunctionOnSet(g, Holders) = Left(t) /\ Left(t) \in Int
  <1> DEFINE outs == [i \in Counted(t) |-> t.outs[i].value]
             outAddr == [i \in Counted(t) |-> t.outs[i].addr]
             ins == [i \in DOMAIN t.ins |-> t.ins[i].value]
             inAddr == [i \in DOMAIN t.ins |-> t.ins[i].addr]
             outsOf == [a \in Holders |-> OutputsOf(t, a)]
             insOf == [a \in Holders |-> InputsOf(t, {}, a)]
             got == [a \in Holders |-> Value(t.outs, OutputsOf(t, a))]
             spent == [a \in Holders |-> Value(t.ins, InputsOf(t, {}, a))]
             minus == [a \in Holders |-> (-1) * spent[a]]
  <1>1. t.ins \in Seq(Outputs) /\ t.outs \in Seq(Outputs)
    BY DEF Transactions
  <1>2. Counted(t) \in SUBSET DOMAIN t.outs
    BY DEF Counted
  <1>3. /\ IsFiniteSet(Counted(t)) /\ IsFiniteSet(DOMAIN t.ins)
        /\ Value(t.outs, Counted(t)) \in Nat /\ Value(t.ins, DOMAIN t.ins) \in Nat
    BY <1>1, <1>2, ValueNat
  <1>4. /\ Value(t.outs, Counted(t)) = SumFunctionOnSet(outs, Counted(t))
        /\ Value(t.ins, DOMAIN t.ins) = SumFunctionOnSet(ins, DOMAIN t.ins)
    BY DEF Value, SumFunction
  <1>5. /\ \A i \in Counted(t) : outs[i] \in Int /\ outAddr[i] \in Holders
        /\ \A i \in DOMAIN t.ins : ins[i] \in Int /\ inAddr[i] \in Holders
    BY <1>1, <1>2, OutputFields
  <1>6. ASSUME NEW a \in Holders
        PROVE  /\ got[a] = SumFunctionOnSet(outs, outsOf[a]) /\ outsOf[a] \in SUBSET Counted(t)
               /\ \A i \in Counted(t) : i \in outsOf[a] <=> outAddr[i] = a
    <2> DEFINE I == OutputsOf(t, a)
               f == [i \in I |-> t.outs[i].value]
    <2>1. I = outsOf[a] /\ I = {i \in Counted(t) : outAddr[i] = a}
      BY DEF OutputsOf
    <2>2. got[a] = SumFunctionOnSet(f, I)
      BY DEF Value, SumFunction
    <2>3. IsFiniteSet(I)
      BY <1>3, <2>1, FS_Subset
    <2>4. \A i \in I : outs[i] \in Int /\ f[i] = outs[i]
      BY <1>5, <2>1
    <2> HIDE DEF I, f, outs
    <2>5. SumFunctionOnSet(f, I) = SumFunctionOnSet(outs, I)
      BY <2>3, <2>4, SumSame
    <2> QED
      BY <2>1, <2>2, <2>5
  <1>7. ASSUME NEW a \in Holders
        PROVE  /\ spent[a] = SumFunctionOnSet(ins, insOf[a]) /\ insOf[a] \in SUBSET DOMAIN t.ins
               /\ \A i \in DOMAIN t.ins : i \in insOf[a] <=> inAddr[i] = a
    <2> DEFINE I == InputsOf(t, {}, a)
               f == [i \in I |-> t.ins[i].value]
    <2>1. I = insOf[a] /\ I = {i \in DOMAIN t.ins : inAddr[i] = a}
      BY DEF InputsOf
    <2>2. spent[a] = SumFunctionOnSet(f, I)
      BY DEF Value, SumFunction
    <2>3. IsFiniteSet(I)
      BY <1>3, <2>1, FS_Subset
    <2>4. \A i \in I : ins[i] \in Int /\ f[i] = ins[i]
      BY <1>5, <2>1
    <2> HIDE DEF I, f, ins
    <2>5. SumFunctionOnSet(f, I) = SumFunctionOnSet(ins, I)
      BY <2>3, <2>4, SumSame
    <2> QED
      BY <2>1, <2>2, <2>5
  <1>8. \A a \in Holders : /\ got[a] \in Int /\ spent[a] \in Int
                           /\ minus[a] \in Int /\ minus[a] = (-1) * spent[a]
                           /\ g[a] = got[a] + minus[a]
    BY AmountsNat DEF Gain
  <1>9. Left(t) = Value(t.outs, Counted(t)) - Value(t.ins, DOMAIN t.ins)
    BY DEF Left
  <1> HIDE DEF outs, outAddr, ins, inAddr, outsOf, insOf, got, spent, minus
  <1>10. SumFunctionOnSet(got, Holders) = SumFunctionOnSet(outs, Counted(t))
    BY <1>3, <1>5, <1>6, FiniteHolders, SumByGroup
  <1>11. SumFunctionOnSet(spent, Holders) = SumFunctionOnSet(ins, DOMAIN t.ins)
    <2> DEFINE D == DOMAIN t.ins
    <2>1. /\ IsFiniteSet(D) /\ \A i \in D : ins[i] \in Int /\ inAddr[i] \in Holders
          /\ \A a \in Holders : /\ spent[a] = SumFunctionOnSet(ins, insOf[a])
                                /\ insOf[a] \in SUBSET D
                                /\ \A i \in D : i \in insOf[a] <=> inAddr[i] = a
      BY <1>3, <1>5, <1>7
    <2> HIDE DEF D
    <2>2. SumFunctionOnSet(spent, Holders) = SumFunctionOnSet(ins, D)
      BY <2>1, FiniteHolders, SumByGroup
    <2> QED
      BY <2>2 DEF D
  <1>12. SumFunctionOnSet(minus, Holders) = (-1) * SumFunctionOnSet(spent, Holders)
    BY <1>8, FiniteHolders, SumTimes
  <1>13. SumFunctionOnSet(g, Holders)
            = SumFunctionOnSet(got, Holders) + SumFunctionOnSet(minus, Holders)
    BY <1>8, FiniteHolders, SumPlus
  <1> QED
    BY <1>3, <1>4, <1>9, <1>10, <1>11, <1>12, <1>13

-----------------------------------------------------------------------------
(* The creation of a challenge. While a block is counted without a lost    *)
(* lookup, the changes add up to what its transactions so far have left.   *)

Lefts(b) == [i \in DOMAIN b |-> Left(b[i])]

Counting ==
    pc = "count" =>
        /\ job = "balance" /\ n \in 1..(Len(block) + 1)
        /\ lost = 0 => SumFunctionOnSet(changes, Holders)
                           = SumFunctionOnSet(Lefts(block), 1..(n - 1))

NodeInv ==
    /\ TypeOK
    /\ block \in Seq(Transactions)
    /\ pc = "select" => retries >= 1
    /\ pc \in {"select", "fetch"} => n = 1 /\ changes = NoChanges
    /\ pc = "pick" => job = "funds_flow"
    /\ Counting
    /\ pc = "done" /\ job = "funds_flow" => n \in DOMAIN block
    /\ MinerAgrees

LEMMA RangeInside ==
    ASSUME NEW l \in Nat, NEW i \in 1..Chunks
    PROVE  RangeOf(l, i) \in SUBSET (0..l)
  <1> DEFINE p == PartSize(l)
  <1>1. /\ p \in Nat /\ Chunks \in Nat \ {0} /\ i \in Nat \ {0} /\ i <= Chunks
        /\ Chunks * p <= l + 1
    BY Parts, NodeAssumption
  <1>2. (i - 1) * p \in Nat /\ i * p \in Nat /\ Chunks * p \in Nat
    BY <1>1, Edges, ProductNat
  <1>3. i * p <= Chunks * p
    BY <1>1, TimesMonotone
  <1>4. RangeOf(l, i) = ((i - 1) * p)..(IF i = Chunks THEN l ELSE i * p - 1)
    BY DEF RangeOf
  <1> HIDE DEF p
  <1> QED
    BY <1>1, <1>2, <1>3, <1>4

LEMMA LeftsType ==
    ASSUME NEW b \in Seq(Transactions)
    PROVE  /\ DOMAIN b = 1..Len(b) /\ Len(b) \in Nat /\ IsFiniteSet(DOMAIN b)
           /\ \A i \in DOMAIN b : b[i] \in Transactions /\ Lefts(b)[i] = Left(b[i]) /\ Lefts(b)[i] \in Int
           /\ Surplus(b) = SumFunctionOnSet(Lefts(b), DOMAIN b)
  <1>1. DOMAIN b = 1..Len(b) /\ Len(b) \in Nat /\ \A i \in DOMAIN b : b[i] \in Transactions
    OBVIOUS
  <1>2. \A l \in Nat : IsFiniteSet(1..l)
    BY FS_Interval
  <1>3. ASSUME NEW t \in Transactions PROVE Left(t) \in Int
    <2> DEFINE g == [a \in Holders |-> Gain(t, a)]
    <2>1. \A a \in Holders : g[a] = Gain(t, a)
      OBVIOUS
    <2> HIDE DEF g
    <2> QED
      BY <2>1, GainsAddUp
  <1>4. \A i \in DOMAIN b : Lefts(b)[i] = Left(b[i]) /\ Lefts(b)[i] \in Int
    BY <1>1, <1>3 DEF Lefts
  <1>5. Surplus(b) = SumFunctionOnSet(Lefts(b), DOMAIN b)
    BY DEF Surplus, SumFunction, Lefts
  <1> QED
    BY <1>1, <1>2, <1>4, <1>5

LEMMA InitNode == Init => NodeInv
  <1> SUFFICES ASSUME Init PROVE NodeInv
    OBVIOUS
  <1>1. TypeOK
    <2>1. terminate \in BOOLEAN /\ job \in Jobs /\ pc \in Ends
      BY DEF Init, Ends, Jobs
    <2>2. 0 \in 0..MaxHeight /\ Retries \in 0..Retries /\ 0 \in 0..0 /\ 0 \in 0..MaxLost
      BY NodeAssumption
    <2>3. /\ last \in 0..MaxHeight /\ retries \in 0..Retries /\ height \in 0..last
          /\ n \in Nat /\ lost \in 0..MaxLost
      BY <2>2 DEF Init
    <2>4. changes \in [Holders -> Int]
      BY DEF Init, NoChanges
    <2>5. made.in \in Nat /\ made.out \in Int
      BY DEF Init, NothingMade
    <2> QED
      BY <2>1, <2>3, <2>4, <2>5 DEF TypeOK
  <1>2. block \in Seq(Transactions)
    BY DEF Init
  <1> QED
    BY <1>1, <1>2 DEF Init, NodeInv, Counting, MinerAgrees

(* A lookup that is lost is remembered.                                    *)
LEMMA NothingLost ==
    ASSUME TypeOK, NEW t \in Transactions, NEW failed \in Failing(t)
    PROVE  /\ lost + Cardinality(failed) \in 0..MaxLost
           /\ lost + Cardinality(failed) = 0 => lost = 0 /\ failed = {}
  <1>1. failed \in SUBSET DOMAIN t.ins /\ lost + Cardinality(failed) <= MaxLost
    BY DEF Failing
  <1>2. IsFiniteSet(failed)
    BY <1>1, ValueNat DEF Transactions
  <1>3. Cardinality(failed) \in Nat /\ (Cardinality(failed) = 0 => failed = {})
    BY <1>2, FS_CardinalityType, FS_EmptySet
  <1> QED
    BY <1>1, <1>3, NodeAssumption DEF TypeOK

LEMMA PickNode ==
    ASSUME NodeInv, PickTransaction
    PROVE  NodeInv'
  <1>1. PICK i \in DOMAIN block :
            /\ n' = i
            /\ \/ Raises(block[i]) /\ pc' = "raised" /\ lost' = lost /\ made' = made
               \/ /\ \E failed \in Failing(block[i]) :
                        /\ made' = Totals(block[i], failed)
                        /\ lost' = lost + Cardinality(failed)
                  /\ pc' = IF made'.out = 0 THEN "pick" ELSE "done"
    BY DEF PickTransaction
  <1>2. /\ pc = "pick" /\ job = "funds_flow" /\ job' = job /\ block' = block
        /\ UNCHANGED <<terminate, last, retries, height, changes>>
    BY DEF PickTransaction, NodeInv
  <1>3. block \in Seq(Transactions) /\ i \in Nat /\ block[i] \in Transactions /\ TypeOK
    BY LeftsType DEF NodeInv
  <1>4. CASE pc' = "raised" /\ lost' = lost /\ made' = made
    BY <1>1, <1>2, <1>3, <1>4 DEF NodeInv, TypeOK, Ends, Jobs, Counting, MinerAgrees
  <1>5. ASSUME NEW failed \in Failing(block[i]),
               made' = Totals(block[i], failed), lost' = lost + Cardinality(failed),
               pc' = IF made'.out = 0 THEN "pick" ELSE "done"
        PROVE  NodeInv'
    <2>1. lost' \in 0..MaxLost /\ (lost' = 0 => failed = {})
      BY <1>3, <1>5, NothingLost
    <2>2. made'.in \in Nat /\ made'.out \in Int
      BY <1>3, <1>5, TotalsNat
    <2>3. TypeOK'
      BY <1>1, <1>2, <1>3, <1>5, <2>1, <2>2 DEF TypeOK, Ends, Jobs
    <2>4. lost' = 0 => made' = Indexed(block[i])
      BY <1>3, <1>5, <2>1, TotalsIndexed
    <2>5. MinerAgrees'
      <3>1. Indexed(block[i])' = Indexed(block'[i])
        BY <1>2
      <3> QED
        BY <1>1, <1>2, <2>4 DEF MinerAgrees
    <2> QED
      BY <1>1, <1>2, <1>3, <1>5, <2>3, <2>5 DEF NodeInv, Counting
  <1> QED
    BY <1>1, <1>4, <1>5

LEMMA CountNode ==
    ASSUME NodeInv, CountTransaction
    PROVE  NodeInv'
  <1>1. /\ pc = "count" /\ n <= Len(block) /\ n' = n + 1
        /\ UNCHANGED <<terminate, job, pc, last, retries, height, block, made>>
    BY DEF CountTransaction
  <1>2. PICK failed \in Failing(block[n]) :
            /\ changes' = [a \in Holders |-> changes[a] - Netted(block[n], failed)[a].in
                                                        + Netted(block[n], failed)[a].out]
            /\ lost' = lost + Cardinality(failed)
    BY DEF CountTransaction
  <1>3. /\ block \in Seq(Transactions) /\ TypeOK /\ changes \in [Holders -> Int]
        /\ job = "balance" /\ n \in 1..Len(block) /\ n \in Nat
        /\ lost = 0 => SumFunctionOnSet(changes, Holders)
                           = SumFunctionOnSet(Lefts(block), 1..(n - 1))
    BY <1>1, LeftsType DEF NodeInv, TypeOK, Counting
  <1> DEFINE t == block[n]
  <1>4. t \in Transactions
    BY <1>3, LeftsType
  <1>5. lost' \in 0..MaxLost /\ (lost' = 0 => lost = 0 /\ failed = {})
    BY <1>2, <1>3, <1>4, NothingLost
  <1>6. changes' \in [Holders -> Int]
    <2>1. \A a \in Holders : Netted(t, failed)[a].in \in Int /\ Netted(t, failed)[a].out \in Int
      BY <1>4, NettedType
    <2> HIDE DEF t
    <2>2. \A a \in Holders : changes[a] - Netted(t, failed)[a].in + Netted(t, failed)[a].out \in Int
      BY <1>3, <2>1
    <2> QED
      BY <1>2, <2>2 DEF t
  <1>7. TypeOK'
    BY <1>1, <1>2, <1>3, <1>5, <1>6 DEF TypeOK
  <1>8. ASSUME lost' = 0
        PROVE  SumFunctionOnSet(changes', Holders) = SumFunctionOnSet(Lefts(block), 1..n)
    <2> DEFINE g == [a \in Holders |-> Gain(t, a)]
    <2>1. \A a \in Holders : changes[a] \in Int /\ g[a] = Gain(t, a) /\ g[a] \in Int
      BY <1>3, <1>4, NettedType
    <2>2. ASSUME NEW a \in Holders PROVE changes'[a] = changes[a] + g[a]
      <3> DEFINE in == Netted(t, {})[a].in
                 out == Netted(t, {})[a].out
      <3>1. changes'[a] = changes[a] - in + out
        BY <1>2, <1>5, <1>8
      <3>2. /\ in = IF Gain(t, a) < 0 THEN -Gain(t, a) ELSE 0
            /\ out = IF Gain(t, a) > 0 THEN Gain(t, a) ELSE 0
            /\ Gain(t, a) \in Int
        BY <1>4, NettedType
      <3> HIDE DEF in, out, g, t
      <3> QED
        BY <2>1, <3>1, <3>2
    <2>3. SumFunctionOnSet(g, Holders) = Left(t) /\ Left(t) \in Int
      BY <1>4, <2>1, GainsAddUp
    <2> HIDE DEF g
    <2>4. SumFunctionOnSet(changes', Holders)
             = SumFunctionOnSet(changes, Holders) + SumFunctionOnSet(g, Holders)
      <3> DEFINE c == changes'
      <3>1. \A a \in Holders : c[a] = changes[a] + g[a]
        BY <2>2
      <3> HIDE DEF c
      <3>2. SumFunctionOnSet(c, Holders)
               = SumFunctionOnSet(changes, Holders) + SumFunctionOnSet(g, Holders)
        BY <2>1, <3>1, FiniteHolders, SumPlus
      <3> QED
        BY <3>2 DEF c
    <2>5. /\ IsFiniteSet(1..(n - 1)) /\ n \notin 1..(n - 1) /\ (1..(n - 1)) \cup {n} = 1..n
          /\ 1..(n - 1) \in SUBSET DOMAIN block /\ n \in DOMAIN block
      <3>1. IsFiniteSet(1..(n - 1))
        BY <1>3, FS_Interval
      <3>2. DOMAIN block = 1..Len(block) /\ Len(block) \in Nat
        BY <1>3, LeftsType
      <3> QED
        BY <1>3, <3>1, <3>2
    <2>6. \A i \in DOMAIN block : Lefts(block)[i] \in Int /\ Lefts(block)[i] = Left(block[i])
      BY <1>3, LeftsType
    <2>7. SumFunctionOnSet(Lefts(block), 1..n)
             = Left(t) + SumFunctionOnSet(Lefts(block), 1..(n - 1))
      <3> DEFINE P == 1..(n - 1)
                 f == Lefts(block)
      <3>1. /\ IsFiniteSet(P) /\ n \notin P /\ P \cup {n} = 1..n
            /\ \A i \in P : f[i] \in Int
            /\ f[n] \in Int /\ f[n] = Left(t)
        BY <2>5, <2>6
      <3> HIDE DEF P, f, t
      <3>2. SumFunctionOnSet(f, P \cup {n}) = f[n] + SumFunctionOnSet(f, P)
        BY <3>1, SumAdd
      <3> QED
        BY <3>1, <3>2 DEF P, f
    <2>8. SumFunctionOnSet(Lefts(block), 1..(n - 1)) \in Int
      <3> DEFINE P == 1..(n - 1)
                 f == Lefts(block)
      <3>1. IsFiniteSet(P) /\ \A i \in P : f[i] \in Int
        BY <2>5, <2>6
      <3> HIDE DEF P, f
      <3>2. SumFunctionOnSet(f, P) \in Int
        BY <3>1, SumInt
      <3> QED
        BY <3>2 DEF P, f
    <2>9. SumFunctionOnSet(changes, Holders) = SumFunctionOnSet(Lefts(block), 1..(n - 1))
      BY <1>3, <1>5, <1>8
    <2> HIDE DEF t
    <2> QED
      BY <2>3, <2>4, <2>7, <2>8, <2>9
  <1>9. Counting'
    <2>1. n' \in 1..(Len(block) + 1) /\ n' - 1 = n
      BY <1>1, <1>3, LeftsType
    <2> QED
      BY <1>1, <1>3, <1>8, <2>1 DEF Counting
  <1> QED
    BY <1>1, <1>3, <1>7, <1>9 DEF NodeInv, MinerAgrees

LEMMA SumNode ==
    ASSUME NodeInv, SumChanges
    PROVE  NodeInv'
  <1>1. /\ pc = "count" /\ n > Len(block) /\ pc' = "done"
        /\ made' = [in |-> 0, out |-> SumFunction(changes)]
        /\ UNCHANGED <<terminate, job, last, retries, height, block, n, changes, lost>>
    BY DEF SumChanges
  <1>2. /\ block \in Seq(Transactions) /\ TypeOK /\ changes \in [Holders -> Int]
        /\ job = "balance" /\ n \in 1..(Len(block) + 1)
        /\ lost = 0 => SumFunctionOnSet(changes, Holders)
                           = SumFunctionOnSet(Lefts(block), 1..(n - 1))
    BY <1>1 DEF NodeInv, TypeOK, Counting
  <1>3. SumFunction(changes) = SumFunctionOnSet(changes, Holders)
    BY <1>2 DEF SumFunction
  <1>4. SumFunction(changes) \in Int
    BY <1>2, <1>3, FiniteHolders, SumInt
  <1>5. TypeOK'
    BY <1>1, <1>2, <1>4 DEF TypeOK, Ends
  <1>6. n - 1 = Len(block)
    BY <1>1, <1>2, LeftsType
  <1>7. lost = 0 => SumFunction(changes) = Surplus(block)
    BY <1>2, <1>3, <1>6, LeftsType
  <1> QED
    BY <1>1, <1>2, <1>5, <1>7 DEF NodeInv, Counting, MinerAgrees

LEMMA NextNode == NodeInv /\ [Next]_vars => NodeInv'
  <1> SUFFICES ASSUME NodeInv, [Next]_vars PROVE NodeInv'
    OBVIOUS
  <1>1. CASE Begin
    <2>1. 0 \in 0..last'
      BY <1>1 DEF Begin
    <2>2. TypeOK'
      BY <1>1, <2>1, NodeAssumption DEF Begin, NodeInv, TypeOK, Ends, Jobs, NoChanges, NothingMade
    <2>3. block' \in Seq(Transactions)
      BY <1>1 DEF Begin
    <2> QED
      BY <1>1, <2>2, <2>3, NodeAssumption
      DEF Begin, NodeInv, Ends, Counting, MinerAgrees
  <1>2. CASE EmptyRange \/ RpcFails \/ Terminated
    <2>1. /\ pc' \in {"raised", "none"}
          /\ UNCHANGED <<terminate, job, last, retries, height, block, n, changes, lost, made>>
      BY <1>2 DEF EmptyRange, RpcFails, Terminated
    <2> QED
      BY <2>1 DEF NodeInv, TypeOK, Ends, Counting, MinerAgrees
  <1>3. CASE SelectBlock
    <2>1. /\ pc = "select" /\ pc' \in {"raised", "fetch", "select"}
          /\ UNCHANGED <<terminate, job, last, block, n, changes, lost, made>>
          /\ \E i \in 1..Chunks : height' \in RangeOf(last, i)
      BY <1>3 DEF SelectBlock, AfterDraw
    <2>2. retries \in 0..Retries /\ retries >= 1 /\ last \in Nat /\ TypeOK
      BY <2>1, NodeAssumption DEF NodeInv, TypeOK
    <2>3. retries' \in 0..Retries /\ (pc' = "select" => retries' >= 1)
      BY <1>3, <2>2, NodeAssumption DEF SelectBlock, AfterDraw
    <2>4. height' \in 0..last
      BY <2>1, <2>2, RangeInside
    <2>5. TypeOK'
      BY <2>1, <2>2, <2>3, <2>4 DEF TypeOK, Ends
    <2> QED
      BY <2>1, <2>3, <2>5 DEF NodeInv, Counting, MinerAgrees
  <1>4. CASE FetchBlock
    <2>1. /\ pc = "fetch" /\ block' \in Blocks
          /\ \/ pc' = "pick" /\ job = "funds_flow"
             \/ pc' = "raised"
             \/ pc' = "count" /\ job # "funds_flow"
          /\ UNCHANGED <<terminate, job, last, retries, height, n, changes, lost, made>>
      BY <1>4 DEF FetchBlock
    <2>2. block' \in Seq(Transactions)
      BY <2>1, NodeAssumption
    <2>3. TypeOK'
      BY <2>1 DEF NodeInv, TypeOK, Ends
    <2>4. n = 1 /\ changes = NoChanges /\ job \in Jobs
      BY <2>1 DEF NodeInv, TypeOK
    <2>5. SumFunctionOnSet(changes, Holders) = 0
      <3>1. \A a \in Holders : changes[a] = 0
        BY <2>4 DEF NoChanges
      <3>2. SumFunctionOnSet(changes, Holders) = 0 * Cardinality(Holders)
        BY <3>1, FiniteHolders, SumConstant
      <3> QED
        BY <3>2, FiniteHolders, FS_CardinalityType
    <2>6. SumFunctionOnSet(Lefts(block'), 1..(n - 1)) = 0
      <3>1. 1..(n - 1) = {}
        BY <2>4
      <3> QED
        BY <3>1, SumEmpty
    <2>7. n \in 1..(Len(block') + 1)
      BY <2>2, <2>4
    <2>8. Counting'
      <3>1. pc' = "count" => job' = "balance"
        BY <2>1, <2>4 DEF Jobs
      <3> QED
        BY <2>1, <2>5, <2>6, <2>7, <3>1 DEF Counting
    <2> QED
      BY <2>1, <2>2, <2>3, <2>8 DEF NodeInv, MinerAgrees
  <1>5. CASE SetTerminate
    BY <1>5 DEF SetTerminate, NodeInv, TypeOK, Counting, MinerAgrees
  <1>6. CASE UNCHANGED vars
    BY <1>6 DEF vars, NodeInv, TypeOK, Counting, MinerAgrees
  <1> QED
    BY <1>1, <1>2, <1>3, <1>4, <1>5, <1>6, PickNode, CountNode, SumNode DEF Next, Creation

LEMMA NodeInvariant == Spec => []NodeInv
  BY InitNode, NextNode, PTL DEF Spec

(* Every variable of a creation keeps its type: in particular a draw is    *)
(* only made while retries are left, and never above the chain.            *)
THEOREM NodeTypeCorrect == Spec => []TypeOK
  <1>1. NodeInv => TypeOK
    BY DEF NodeInv
  <1> QED
    BY <1>1, NodeInvariant, PTL

(* What a challenge asks for is what a miner that has indexed the block    *)
(* finds there, in blocks of any number of transactions between any number *)
(* of addresses, unless a lookup was lost.                                 *)
THEOREM ChallengesAnswerable == Spec => []MinerAgrees
  <1>1. NodeInv => MinerAgrees
    BY DEF NodeInv
  <1> QED
    BY <1>1, NodeInvariant, PTL

(* Every block of the chain may be asked about, and lies in one range.     *)
THEOREM BlocksDrawnOnce == Spec => []EveryBlockOnce
  <1>1. NodeInv => EveryBlockOnce
    <2>1. NodeInv => last \in Nat
      BY NodeAssumption DEF NodeInv, TypeOK
    <2> QED
      BY <2>1, BlockOnce DEF EveryBlockOnce
  <1> QED
    BY <1>1, NodeInvariant, PTL

(* Newer blocks are no less likely than older ones, as the comment at      *)
(* random_block.py:8 has it, in every chain long enough.                   *)
THEOREM NewerBlocksFavoured == Spec => []NewerIsLikelier
  <1>1. NodeInv => NewerIsLikelier
    <2>1. NodeInv => last \in Nat
      BY NodeAssumption DEF NodeInv, TypeOK
    <2> QED
      BY <2>1, Likelier DEF NewerIsLikelier
  <1> QED
    BY <1>1, NodeInvariant, PTL

-----------------------------------------------------------------------------
(* A creation that is under way: the places of its code still to come, and *)
(* the rounds its loop can still make there. Draws are bounded by the      *)
(* retries and the counting by the block; the loop over transactions is    *)
(* not bounded by anything.                                                *)

StageOf(p) ==
    IF p = "select" THEN 3 ELSE IF p = "fetch" THEN 2
    ELSE IF p \in {"pick", "count"} THEN 1 ELSE 0

RoundsLeft(p, draws, uncounted) ==
    IF p = "select" THEN draws ELSE IF p = "count" THEN uncounted ELSE 0

Uncounted(b, i) == Len(b) + 1 - i

CreationNearer ==
    \/ StageOf(pc') < StageOf(pc)
    \/ /\ pc' = pc
       /\ RoundsLeft(pc', retries', Uncounted(block', n'))
              < RoundsLeft(pc, retries, Uncounted(block, n))

TriesAnother == pc = "pick" /\ pc' = "pick" /\ ~terminate /\ ~terminate'

(* Nothing but the search for a transaction with an amount (node.py 132 to *)
(* 150) can keep a creation going, and that only before the terminate      *)
(* event is set: every other step brings the creation nearer to its end.   *)
CreationAdvances ==
    [][pc \notin Ends =>
          \/ UNCHANGED <<job, pc, last, retries, height, block, n, changes, lost, made>>
          \/ CreationNearer
          \/ TriesAnother]_vars

LEMMA RoundsType == NodeInv => RoundsLeft(pc, retries, Uncounted(block, n)) \in Nat
  <1> SUFFICES ASSUME NodeInv PROVE RoundsLeft(pc, retries, Uncounted(block, n)) \in Nat
    OBVIOUS
  <1>1. retries \in Nat
    BY NodeAssumption DEF NodeInv, TypeOK
  <1>2. pc = "count" => Uncounted(block, n) \in Nat
    <2>1. Len(block) \in Nat
      BY LeftsType DEF NodeInv
    <2> QED
      BY <2>1 DEF NodeInv, Counting, Uncounted
  <1> QED
    BY <1>1, <1>2 DEF RoundsLeft

LEMMA CreationStep ==
    ASSUME NodeInv, pc \notin Ends, Creation
    PROVE  CreationNearer \/ TriesAnother
  <1>1. StageOf("select") = 3 /\ StageOf("fetch") = 2 /\ StageOf("pick") = 1
        /\ StageOf("count") = 1 /\ \A p \in Ends : StageOf(p) = 0
    BY DEF StageOf, Ends
  <1>2. pc \in {"select", "fetch", "pick", "count"}
    BY DEF NodeInv, TypeOK
  <1>3. CASE pc' \in Ends
    BY <1>1, <1>2, <1>3 DEF CreationNearer
  <1>4. CASE SelectBlock /\ pc' \notin Ends
    <2>1. pc = "select" /\ pc' \in {"fetch", "select"}
      BY <1>4 DEF SelectBlock, AfterDraw, Ends
    <2>2. CASE pc' = "fetch"
      BY <1>1, <2>1, <2>2 DEF CreationNearer
    <2>3. CASE pc' = "select"
      <3>1. retries' = retries - 1
        BY <1>4, <2>3 DEF SelectBlock
      <3>2. retries \in Nat
        BY NodeAssumption DEF NodeInv, TypeOK
      <3>3. retries' < retries
        BY <3>1, <3>2
      <3> QED
        BY <2>1, <2>3, <3>3 DEF CreationNearer, RoundsLeft
    <2> QED
      BY <2>1, <2>2, <2>3
  <1>5. CASE FetchBlock /\ pc' \notin Ends
    <2>1. pc = "fetch" /\ pc' \in {"pick", "count"}
      BY <1>5 DEF FetchBlock, Ends
    <2> QED
      BY <1>1, <2>1 DEF CreationNearer
  <1>6. CASE PickTransaction /\ pc' \notin Ends
    BY <1>6 DEF PickTransaction, TriesAnother, Ends
  <1>7. CASE CountTransaction
    <2>1. pc = "count" /\ pc' = "count" /\ n' = n + 1 /\ block' = block
      BY <1>7 DEF CountTransaction
    <2>2. n \in Nat /\ Len(block) \in Nat
      BY LeftsType DEF NodeInv, TypeOK
    <2>3. Len(block) + 1 - n' < Len(block) + 1 - n
      BY <2>1, <2>2
    <2> QED
      BY <2>1, <2>3 DEF CreationNearer, RoundsLeft, Uncounted
  <1>8. EmptyRange \/ RpcFails \/ SumChanges \/ Terminated => pc' \in Ends
    BY DEF EmptyRange, RpcFails, SumChanges, Terminated, Ends
  <1> QED
    BY <1>3, <1>4, <1>5, <1>6, <1>7, <1>8 DEF Creation

(* A creation ends after no more than num_retries draws, the fetch and a   *)
(* pass through the block, but for the search for a transaction with an    *)
(* amount, which the terminate event ends: for any number of retries and   *)
(* transactions. It is what TerminateEndsCreation needs besides fairness.  *)
THEOREM CreationsAreFinite ==
    Spec => /\ [](RoundsLeft(pc, retries, Uncounted(block, n)) \in Nat)
            /\ CreationAdvances
  <1>1. NodeInv /\ [Next]_vars =>
            [pc \notin Ends =>
                \/ UNCHANGED <<job, pc, last, retries, height, block, n, changes, lost, made>>
                \/ CreationNearer
                \/ TriesAnother]_vars
    <2> SUFFICES ASSUME NodeInv, Next, pc \notin Ends
                 PROVE  \/ UNCHANGED <<job, pc, last, retries, height, block, n, changes, lost, made>>
                        \/ CreationNearer
                        \/ TriesAnother
      BY DEF vars
    <2> QED
      BY CreationStep DEF Next, Begin, SetTerminate
  <1> QED
    BY <1>1, NodeInvariant, RoundsType, PTL DEF Spec, CreationAdvances

-----------------------------------------------------------------------------
(* The challenge at the miner. *)

(* To the node the miner is not there.                                     *)
LEMMA NodeUndisturbed == MinerSpec => Spec
  <1>1. MinerInit => Init
    BY DEF MinerInit
  <1>2. [MinerNext]_allVars => [Next]_vars
    <2>1. NodeStep \/ NextChallenge => Next
      BY DEF NodeStep, NextChallenge, Next
    <2>2. MinerStep => UNCHANGED vars
      BY DEF MinerStep, Index, Ask, discovery, NotDiscovered, FundsFlowChallenge,
             BalanceChallenge, SearchFails, CallFails
    <2>3. UNCHANGED allVars => UNCHANGED vars
      BY DEF allVars
    <2> QED
      BY <2>1, <2>2, <2>3 DEF MinerNext
  <1> QED
    BY <1>1, <1>2, PTL DEF MinerSpec, Spec

(* An answer that was given is what was found, and nothing it was found in *)
(* has changed.                                                            *)
Searched ==
    IF job = "funds_flow"
    THEN IF Matching(made, Last6[n]) = {} THEN output = Nothing
         ELSE \E i \in Matching(made, Last6[n]) : output = <<i>>
    ELSE output = <<BalanceSum>>

(* The node rests while its challenge is put to the miner.                 *)
AnswerInv ==
    /\ indexed \in Nat
    /\ call # "none" => pc = "done"
    /\ call = "errored" => output = Nothing
    /\ call = "answered" => Searched

LEMMA SearchedStays ==
    ASSUME Searched, UNCHANGED <<job, made, n, block, indexed, others, output>>
    PROVE  Searched'
  BY DEF Searched, Matching, BalanceSum

LEMMA InitAnswer == MinerInit => AnswerInv
  BY DEF MinerInit, AnswerInv

(* Creation goes on only while there is nothing to ask.                    *)
LEMMA NodeAnswer ==
    ASSUME AnswerInv, NodeStep
    PROVE  AnswerInv'
  <1>1. UNCHANGED <<indexed, others, call, output>>
    BY DEF NodeStep, minerVars
  <1>2. CASE SetTerminate
    BY <1>1, <1>2, SearchedStays DEF SetTerminate, AnswerInv
  <1>3. CASE Creation
    <2>1. pc # "done"
      BY <1>3 DEF Creation, EmptyRange, SelectBlock, FetchBlock, RpcFails,
                  PickTransaction, CountTransaction, SumChanges, Terminated
    <2>2. call = "none"
      BY <2>1 DEF AnswerInv
    <2> QED
      BY <1>1, <2>2 DEF AnswerInv
  <1> QED
    BY <1>2, <1>3 DEF NodeStep

LEMMA StepAnswer ==
    ASSUME AnswerInv, MinerStep
    PROVE  AnswerInv'
  <1>1. UNCHANGED vars
    BY DEF MinerStep, Index, Ask, discovery, NotDiscovered, FundsFlowChallenge,
           BalanceChallenge, SearchFails, CallFails
  <1>2. UNCHANGED <<pc, job, made, n, block>>
    BY <1>1 DEF vars
  <1>3. CASE Index
    BY <1>2, <1>3 DEF Index, AnswerInv
  <1>4. CASE Ask
    BY <1>2, <1>4 DEF Ask, AnswerInv
  <1>5. CASE discovery
    BY <1>2, <1>5 DEF discovery, AnswerInv
  <1>6. CASE NotDiscovered \/ CallFails
    BY <1>2, <1>6 DEF NotDiscovered, CallFails, AnswerInv
  <1>7. CASE FundsFlowChallenge
    <2>1. /\ job = "funds_flow" /\ call' = "answered" /\ call = "challenge"
          /\ indexed' = indexed /\ others' = others
          /\ IF Matching(made, Last6[n]) = {} THEN output' = Nothing
             ELSE \E i \in Matching(made, Last6[n]) : output' = <<i>>
      BY <1>7 DEF FundsFlowChallenge
    <2>2. Matching(made, Last6[n])' = Matching(made, Last6[n])
      BY <1>2, <2>1 DEF Matching
    <2>3. Searched'
      BY <1>2, <2>1, <2>2 DEF Searched, Nothing
    <2> QED
      BY <1>2, <2>1, <2>3 DEF AnswerInv
  <1>8. CASE BalanceChallenge
    <2>1. /\ job = "balance" /\ call' = "answered" /\ call = "challenge"
          /\ indexed' = indexed /\ output' = <<BalanceSum>>
      BY <1>8 DEF BalanceChallenge
    <2>2. BalanceSum' = BalanceSum
      BY <1>2, <2>1 DEF BalanceSum
    <2>3. Searched'
      BY <1>2, <2>1, <2>2 DEF Searched
    <2> QED
      BY <1>2, <2>1, <2>3 DEF AnswerInv
  <1>9. CASE SearchFails
    BY <1>2, <1>9 DEF SearchFails, AnswerInv, Nothing
  <1> QED
    BY <1>3, <1>4, <1>5, <1>6, <1>7, <1>8, <1>9 DEF MinerStep

LEMMA NextAnswer == AnswerInv /\ [MinerNext]_allVars => AnswerInv'
  <1> SUFFICES ASSUME AnswerInv, [MinerNext]_allVars PROVE AnswerInv'
    OBVIOUS
  <1>1. CASE NextChallenge
    BY <1>1 DEF NextChallenge, AnswerInv
  <1>2. CASE UNCHANGED allVars
    BY <1>2, SearchedStays DEF allVars, vars, minerVars, AnswerInv, Nothing
  <1> QED
    BY <1>1, <1>2, NodeAnswer, StepAnswer DEF MinerNext

LEMMA AnswerInvariant == MinerSpec => []AnswerInv
  BY InitAnswer, NextAnswer, PTL DEF MinerSpec

(* A miner without the transaction, or with nothing of the block, passes   *)
(* only by a sum that is 0, whatever the node, the indexer and the errors  *)
(* of the databases did in between.                                        *)
THEOREM PassesAreEarned == MinerSpec => []PassIsEarned
  <1>1. ASSUME NodeInv, AnswerInv PROVE PassIsEarned
    <2> SUFFICES ASSUME Passed
                 PROVE  IF job = "funds_flow" THEN n <= indexed
                        ELSE indexed > 0 \/ made.out = 0
      BY DEF PassIsEarned
    <2> USE <1>1
    <2>1. output # Nothing
      BY DEF Passed, Expected, Nothing
    <2>2. Searched
      BY <2>1 DEF Passed, Answered, AnswerInv
    <2>3. CASE job = "funds_flow"
      <3>1. PICK i \in Matching(made, Last6[n]) : output = <<i>>
        BY <2>1, <2>2, <2>3 DEF Searched
      <3>2. output = <<n>>
        BY <2>3 DEF Passed, Expected
      <3>3. n \in DOMAIN block /\ block \in Seq(Transactions)
        BY <2>3 DEF Passed, Answered, AnswerInv, NodeInv
      <3>4. n # ElsewhereTx
        BY <3>3, LeftsType DEF ElsewhereTx
      <3>5. n = i /\ i \in 1..indexed
        BY <3>1, <3>2, <3>4 DEF Matching
      <3> QED
        BY <2>3, <3>5 DEF AnswerInv
    <2>4. CASE job # "funds_flow"
      <3>1. output = <<made.out>> /\ output = <<BalanceSum>>
        BY <2>2, <2>4 DEF Passed, Expected, Searched
      <3>2. made.out = BalanceSum
        BY <3>1
      <3>3. indexed > 0 \/ BalanceSum = 0
        BY DEF BalanceSum, AnswerInv
      <3> QED
        BY <2>4, <3>2, <3>3
    <2> QED
      BY <2>3, <2>4
  <1> QED
    BY <1>1, NodeUndisturbed, NodeInvariant, AnswerInvariant, PTL

(* A miner that has indexed the block passes, whatever the block and       *)
(* however the answers of the RPC and the calls came about, unless a       *)
(* lookup was lost, a database reported an error or another transaction,   *)
(* of the block or of any other the graph holds, cannot be told from the   *)
(* one asked for.                                                          *)
THEOREM SynchronisedMinersPass == MinerSpec => []SynchronisedPasses
  <1>1. ASSUME NodeInv, AnswerInv PROVE SynchronisedPasses
    <2> SUFFICES ASSUME call = "answered", lost = 0, indexed = Len(block),
                        job = "funds_flow" => Unambiguous
                 PROVE  output = Expected
      BY DEF SynchronisedPasses, Passed, Answered
    <2>1. pc = "done" /\ Searched /\ block \in Seq(Transactions) /\ MinerAgrees
      BY <1>1 DEF AnswerInv, NodeInv
    <2>2. DOMAIN block = 1..Len(block) /\ Len(block) \in Nat
      BY <2>1, LeftsType
    <2>3. CASE job = "funds_flow"
      <3>1. n \in DOMAIN block /\ made = Indexed(block[n])
        BY <1>1, <2>1, <2>3 DEF NodeInv, MinerAgrees
      <3>2. n \in Matching(made, Last6[n])
        BY <2>2, <3>1 DEF Matching
      <3>3. PICK i \in Matching(made, Last6[n]) : output = <<i>>
        BY <2>1, <2>3, <3>2 DEF Searched
      <3>4. ~ \E o \in others : Indexed(o.tx) = made /\ o.last6 = Last6[n]
        BY <2>3, <3>1 DEF Unambiguous
      <3>5. i \in 1..indexed /\ Indexed(block[i]) = made /\ Last6[i] = Last6[n]
        BY <3>3, <3>4 DEF Matching
      <3>6. i = n
        BY <2>2, <2>3, <3>1, <3>5 DEF Unambiguous
      <3> QED
        BY <2>3, <3>3, <3>6 DEF Expected
    <2>4. CASE job # "funds_flow"
      <3>1. made.out = Surplus(block) /\ output = <<BalanceSum>>
        BY <2>1, <2>4 DEF MinerAgrees, Searched
      <3>2. BalanceSum = Surplus(block)
        <4>1. CASE indexed = 0
          <5>1. DOMAIN block = {}
            BY <2>2, <4>1
          <5>2. Surplus(block) = 0
            BY <2>1, <5>1, LeftsType, SumEmpty
          <5> QED
            BY <4>1, <5>2 DEF BalanceSum
        <4>2. CASE indexed # 0
          <5>1. SubSeq(block, 1, Len(block)) = block
            BY <2>1
          <5> QED
            BY <4>2, <5>1 DEF BalanceSum
        <4> QED
          BY <4>1, <4>2
      <3> QED
        BY <2>4, <3>1, <3>2 DEF Expected
    <2> QED
      BY <2>3, <2>4
  <1> QED
    BY <1>1, NodeUndisturbed, NodeInvariant, AnswerInvariant, PTL
=============================================================================
