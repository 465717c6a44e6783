--------------------------- MODULE MCBitcoinNode ----------------------------
(***************************************************************************)
(* Miner and BitcoinNode for TLC. Two addresses pay each other and         *)
(* themselves; some outputs are skipped, odd or without an address. No     *)
(* transaction makes more than it spends, save the coinbase. The tx_ids of *)
(* the second and the third of a block end in the same characters, and so  *)
(* does that of a transaction of another block.                            *)
(***************************************************************************)
EXTENDS Miner

Out(kind, addr, value) == [kind |-> kind, addr |-> addr, value |-> value]

Spendable ==
    {Out("paid", "a", 1), Out("paid", "a", 3), Out("paid", "b", 2), Out("skipped", Nobody, 1)}
Makeable ==
    {Out("paid", "a", 1), Out("paid", "a", 2), Out("paid", "b", 1),
     Out("skipped", Nobody, 0), Out("odd", Nobody, 1)}

UpToTwo(S) == {<<x>> : x \in S} \union {<<x, y>> : x \in S, y \in S}

Spending ==
    {t \in [ins : UpToTwo(Spendable), outs : UpToTwo(Makeable)] :
        Value(t.outs, DOMAIN t.outs) <= Value(t.ins, DOMAIN t.ins)}

Coinbase == [ins |-> <<>>, outs |-> <<Out("paid", "a", 2), Out("skipped", Nobody, 0)>>]
Burnt == [ins |-> <<>>, outs |-> <<Out("skipped", Nobody, 2)>>]
ToSelf == [ins |-> <<Out("paid", "a", 1)>>, outs |-> <<Out("paid", "a", 1)>>]
Back == [ins |-> <<Out("paid", "b", 2)>>, outs |-> <<Out("paid", "a", 1)>>]

RichBlocks == {<<Coinbase, t, Back>> : t \in Spending} \union {<<Burnt, ToSelf>>, <<Back, Back, Back>>}
Endings == <<"x", "y", "y">>
Twin == {[tx |-> Back, last6 |-> "y"]}
=============================================================================
