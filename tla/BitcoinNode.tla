----------------------------- MODULE BitcoinNode -----------------------------
(***************************************************************************)
(* The challenges a bitcoin node makes (nodes/bitcoin/node.py): a block is *)
(* drawn by select_block, fetched, and either one of its transactions is   *)
(* asked for (funds flow) or the sum of its balance changes (balance       *)
(* tracking). The node's RPC answers or fails call by call, and the main   *)
(* thread may set the terminate event between any two steps.               *)
(*                                                                         *)
(* A transaction is the outputs it spends and the outputs it makes. An     *)
(* output is "paid" to an address, given or derived from its keys,         *)
(* "skipped" (nonstandard, nulldata) or "odd": of another type and without *)
(* an address. The vin of a coinbase names no transaction and is left out. *)
(***************************************************************************)
EXTENDS Integers, Sequences, FiniteSets, Functions

CONSTANTS
    Chunks,      \* select_block: chunks, 16 in the code
    Retries,     \* create_funds_flow_challenge: num_retries, 10 in the code
    ToAvoid,     \* blocks_to_avoid
    MaxHeight,   \* bound: the highest block a challenge may ask about
    Address,
    Blocks,      \* the blocks the node may return: sequences of transactions
    MaxLost      \* bound: lookups of one creation that fail

VARIABLES
    terminate,   \* the event
    job,         \* the challenge under way: "funds_flow" or "balance"
    pc,
    last,        \* the newest block a challenge may ask about
    retries,
    height,      \* the block drawn
    block,       \* what was fetched
    n,           \* the transaction picked, or the next one to count
    changes,     \* balance_changes_by_address
    lost,        \* lookups that failed
    made         \* the amounts of the challenge

vars == <<terminate, job, pc, last, retries, height, block, n, changes, lost, made>>

Jobs == {"funds_flow", "balance"}
Ends == {"idle", "done", "none", "raised"}

Nobody == "unknown"
Holders == Address \union {Nobody}

Outputs == [kind : {"paid", "skipped", "odd"}, addr : Holders, value : Nat]
Transactions == [ins : Seq(Outputs), outs : Seq(Outputs)]

ASSUME NodeAssumption ==
    /\ Chunks \in Nat \ {0} /\ Retries \in Nat \ {0}
    /\ MaxHeight \in Nat /\ MaxLost \in Nat
    /\ IsFiniteSet(Address) /\ Blocks \subseteq Seq(Transactions)

-----------------------------------------------------------------------------
(* select_block(0, l): the ranges it chooses from and their weights.       *)

PartSize(l) == (l + 1) \div Chunks

(* A bug: the last range is not extended.                                  *)
EvenRange(l, i) == ((i - 1) * PartSize(l))..(i * PartSize(l) - 1)

RangeOf(l, i) ==
    ((i - 1) * PartSize(l))..(IF i = Chunks THEN l ELSE i * PartSize(l) - 1)

(* A bug: the oldest range is the likeliest.                               *)
WeightDown(i) == Chunks + 1 - i

Weight(i) == i

check_if_block_is_valid_for_challenge(b) == b \notin ToAvoid

-----------------------------------------------------------------------------
(* The amounts of a transaction.                                           *)

Value(outputs, indices) == SumFunction([i \in indices |-> outputs[i].value])

(* create_in_memory_txn and parse_block_data drop the skipped outputs and  *)
(* raise at an odd one.                                                    *)
Counted(t) == {i \in DOMAIN t.outs : t.outs[i].kind # "skipped"}
Raises(t) == \E i \in DOMAIN t.outs : t.outs[i].kind = "odd"

(* A lookup that fails yields an unknown address and no amount; one that   *)
(* finds no address an unknown address and the amount.                     *)
InputsOf(t, failed, a) == {i \in DOMAIN t.ins \ failed : t.ins[i].addr = a}
OutputsOf(t, a) == {i \in Counted(t) : t.outs[i].addr = a}

(* A bug: what an address pays to itself stays on the input side.          *)
HalfNetted(t, failed) ==
    [a \in Holders |->
        LET in == Value(t.ins, InputsOf(t, failed, a))
            out == Value(t.outs, OutputsOf(t, a))
        IN IF in > out THEN [in |-> in - out, out |-> 0]
           ELSE [in |-> in, out |-> out - in]]

(* process_in_memory_txn_for_indexing: the amounts by address, netted.     *)
Netted(t, failed) ==
    [a \in Holders |->
        LET in == Value(t.ins, InputsOf(t, failed, a))
            out == Value(t.outs, OutputsOf(t, a))
        IN IF in > out THEN [in |-> in - out, out |-> 0]
           ELSE [in |-> 0, out |-> out - in]]

Totals(t, failed) ==
    LET net == Netted(t, failed)
    IN [in |-> SumFunction([a \in Holders |-> net[a].in]),
        out |-> SumFunction([a \in Holders |-> net[a].out])]

(* The lookups of a transaction of which so many more may fail.            *)
Failing(t) == {f \in SUBSET (DOMAIN t.ins) : lost + Cardinality(f) <= MaxLost}

-----------------------------------------------------------------------------

NothingMade == [in |-> 0, out |-> 0]
NoChanges == [a \in Holders |-> 0]

Init ==
    /\ terminate = FALSE /\ job = "funds_flow" /\ pc = "idle" /\ last = 0
    /\ retries = Retries /\ height = 0 /\ block = <<>> /\ n = 1
    /\ changes = NoChanges /\ lost = 0 /\ made = NothingMade

(* The generator asks for the next challenge at the height it has read.    *)
Begin ==
    /\ pc \in Ends /\ ~terminate
    /\ job' \in Jobs /\ last' \in 0..MaxHeight
    /\ pc' = "select" /\ retries' = Retries /\ height' = 0 /\ block' = <<>>
    /\ n' = 1 /\ changes' = NoChanges /\ lost' = 0 /\ made' = NothingMade
    /\ UNCHANGED terminate

(* randint of an empty range raises.                                       *)
EmptyRange ==
    /\ pc = "select"
    /\ job = "balance" \/ ~terminate
    /\ \E i \in 1..Chunks : RangeOf(last, i) = {}
    /\ pc' = "raised"
    /\ UNCHANGED <<terminate, job, last, retries, height, block, n, changes, lost, made>>

(* A bug: the retries are not looked at.                                   *)
AfterDrawAlways(b, left) ==
    IF check_if_block_is_valid_for_challenge(b) THEN "fetch" ELSE "select"

(* A funds flow challenge draws until a block is valid, and gives up when  *)
(* no retries are left; a balance tracking challenge takes what it draws.  *)
AfterDraw(b, left) ==
    IF left = 0 THEN "raised"
    ELSE IF check_if_block_is_valid_for_challenge(b) THEN "fetch" ELSE "select"

SelectBlock ==
    /\ pc = "select"
    /\ \E i \in 1..Chunks : height' \in RangeOf(last, i)
    /\ \/ /\ job = "funds_flow" /\ ~terminate
          /\ retries' = retries - 1
          /\ pc' = AfterDraw(height', retries')
       \/ /\ job = "balance"
          /\ pc' = "fetch" /\ UNCHANGED retries
    /\ UNCHANGED <<terminate, job, last, block, n, changes, lost, made>>

(* parse_block_data goes through the whole block before anything is        *)
(* counted.                                                                *)
FetchBlock ==
    /\ pc = "fetch"
    /\ block' \in Blocks
    /\ pc' = IF job = "funds_flow" THEN "pick"
             ELSE IF \E i \in DOMAIN block' : Raises(block'[i]) THEN "raised"
             ELSE "count"
    /\ UNCHANGED <<terminate, job, last, retries, height, n, changes, lost, made>>

(* An RPC fails, and what is made of the None in its place raises.         *)
RpcFails ==
    /\ \/ pc = "fetch"
       \/ pc = "pick" /\ ~terminate
    /\ pc' = "raised"
    /\ UNCHANGED <<terminate, job, last, retries, height, block, n, changes, lost, made>>

(* A bug: the loop over transactions does not look at the event.           *)
PickAlways ==
    /\ pc = "pick"
    /\ \E i \in DOMAIN block : \E failed \in Failing(block[i]) :
        /\ made' = Totals(block[i], failed)
        /\ lost' = lost + Cardinality(failed)
        /\ n' = i
        /\ pc' = IF made'.out = 0 THEN "pick" ELSE "done"
    /\ UNCHANGED <<terminate, job, last, retries, height, block, changes>>

(* Transactions are tried until one moves an amount.                       *)
PickTransaction ==
    /\ pc = "pick" /\ ~terminate
    /\ \E i \in DOMAIN block :
        /\ n' = i
        /\ \/ /\ Raises(block[i])
              /\ pc' = "raised" /\ UNCHANGED <<lost, made>>
           \/ /\ ~Raises(block[i])
              /\ \E failed \in Failing(block[i]) :
                    /\ made' = Totals(block[i], failed)
                    /\ lost' = lost + Cardinality(failed)
              /\ pc' = IF made'.out = 0 THEN "pick" ELSE "done"
    /\ UNCHANGED <<terminate, job, last, retries, height, block, changes>>

CountTransaction ==
    /\ pc = "count" /\ ~terminate /\ n <= Len(block)
    /\ \E failed \in Failing(block[n]) :
        LET net == Netted(block[n], failed)
        IN /\ changes' = [a \in Holders |-> changes[a] - net[a].in + net[a].out]
           /\ lost' = lost + Cardinality(failed)
    /\ n' = n + 1
    /\ UNCHANGED <<terminate, job, pc, last, retries, height, block, made>>

SumChanges ==
    /\ pc = "count" /\ n > Len(block)
    /\ made' = [in |-> 0, out |-> SumFunction(changes)]
    /\ pc' = "done"
    /\ UNCHANGED <<terminate, job, last, retries, height, block, n, changes, lost>>

(* The loops that look at the event return None, None.                     *)
Terminated ==
    /\ terminate
    /\ \/ pc = "select" /\ job = "funds_flow"
       \/ pc = "pick"
       \/ pc = "count" /\ n <= Len(block)
    /\ pc' = "none"
    /\ UNCHANGED <<terminate, job, last, retries, height, block, n, changes, lost, made>>

SetTerminate ==
    /\ ~terminate /\ terminate' = TRUE
    /\ UNCHANGED <<job, pc, last, retries, height, block, n, changes, lost, made>>

Creation ==
    \/ EmptyRange \/ SelectBlock \/ FetchBlock \/ RpcFails
    \/ PickTransaction \/ CountTransaction \/ SumChanges \/ Terminated

Next == Begin \/ Creation \/ SetTerminate

Spec == Init /\ [][Next]_vars

(* Every RPC answers or fails in the end.                                  *)
FairSpec == Spec /\ WF_vars(Creation)

-----------------------------------------------------------------------------

(* Type correctness.                                                       *)
TypeOK ==
    /\ terminate \in BOOLEAN /\ job \in Jobs
    /\ pc \in Ends \union {"select", "fetch", "pick", "count"}
    /\ last \in 0..MaxHeight /\ retries \in 0..Retries /\ height \in 0..last
    /\ n \in Nat /\ changes \in [Holders -> Int] /\ lost \in 0..MaxLost
    /\ made.in \in Nat /\ made.out \in Int

(* What a miner that indexed the same block answers. The transaction it    *)
(* finds by what the addresses lose and gain; the sum it has for a block   *)
(* is what the block's outputs hold more than the outputs it spends: the   *)
(* fees cancel, and only what is mined or skipped remains.                 *)
Gain(t, a) == Value(t.outs, OutputsOf(t, a)) - Value(t.ins, InputsOf(t, {}, a))

Indexed(t) ==
    [in |-> -SumFunction([a \in Holders |-> IF Gain(t, a) < 0 THEN Gain(t, a) ELSE 0]),
     out |-> SumFunction([a \in Holders |-> IF Gain(t, a) > 0 THEN Gain(t, a) ELSE 0])]

Left(t) == Value(t.outs, Counted(t)) - Value(t.ins, DOMAIN t.ins)

Surplus(b) == SumFunction([i \in DOMAIN b |-> Left(b[i])])

(* A challenge that was made is answered as expected by a miner that has   *)
(* indexed the chain: its amounts are those of the transaction picked, and *)
(* the sum of the changes, taken address by address and transaction by     *)
(* transaction (node.py 173-192), is the surplus of the block. Not so when *)
(* a lookup was lost on the way (node.py:102): the challenge is made       *)
(* without that amount.                                                    *)
MinerAgrees ==
    pc = "done" /\ lost = 0 =>
        IF job = "funds_flow" THEN made = Indexed(block[n]) ELSE made.out = Surplus(block)

(* Any block may be asked about, and no block lies in two ranges, as soon  *)
(* as there are as many blocks as ranges (random_block.py 5-16): the       *)
(* remainder of the division is not lost at the end of the chain.          *)
EveryBlockOnce ==
    last + 1 >= Chunks =>
        \A b \in 0..last : \E i \in 1..Chunks :
            /\ b \in RangeOf(last, i)
            /\ \A j \in 1..Chunks : b \in RangeOf(last, j) => j = i

(* A newer block is no less likely than an older one (random_block.py      *)
(* 8-20), although the last range is the largest, once the ranges are long *)
(* enough for its weight to make up for it.                                *)
NewerIsLikelier ==
    PartSize(last) >= (Chunks - 1) * (Chunks - 1) =>
        \A i \in 1..Chunks, j \in 1..Chunks :
            i < j => Weight(i) * Cardinality(RangeOf(last, j))
                        <= Weight(j) * Cardinality(RangeOf(last, i))

(* Once the terminate event is set, the creation under way ends (node.py   *)
(* 115, 133, 174): in particular, the loop that looks for a transaction    *)
(* with an amount does not go on for ever in a block without one.          *)
TerminateEndsCreation == terminate ~> pc \in Ends

=============================================================================
