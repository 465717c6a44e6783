-------------------------- MODULE GraphTransformer --------------------------
(***************************************************************************)
(* The graph the API draws from the records a miner returns                *)
(* (BitcoinGraphTransformer), for the queries of BitcoinQueryApi. A record *)
(* is one match of the query's pattern in the payment graph: transaction   *)
(* t1, addresses a1 and a2, the payments s1 and s2 between them, and a     *)
(* path of further payments.                                               *)
(*                                                                         *)
(* Addresses and transactions stand for the nodes and for their ids, a     *)
(* pair for a payment and for the id of an edge. Amounts, heights and      *)
(* labels are left out.                                                    *)
(***************************************************************************)
EXTENDS Integers, Sequences, FiniteSets, SequencesExt

CONSTANTS
    Addresses, Transactions,
    Sent,         \* the payments: pairs of an address and a transaction
    Queries,      \* the queries asked
    Hops,         \* the longest path, in payments
    MaxRecords    \* bound: records of one result

None == "none"
NoPayment == <<None, None>>

ASSUME GraphAssumption ==
    /\ Sent \subseteq (Addresses \X Transactions) \union (Transactions \X Addresses)
    /\ Addresses \intersect Transactions = {} /\ None \notin Addresses \union Transactions
    /\ Queries \subseteq {"blocks", "around", "address", "right", "left"}
    /\ Hops \in Nat /\ MaxRecords \in Nat

VARIABLES
    query,             \* the query whose result is transformed
    records,           \* how many records were processed
    output_data, transaction_ids, address_ids, edge_ids,
    matched            \* history: the payments the records spoke of

vars == <<query, records, output_data, transaction_ids, address_ids, edge_ids, matched>>

-----------------------------------------------------------------------------
(* What a query matches (bitcoin_query_api.py).                            *)

PaidBy(t) == {s \in Sent : s[2] = t}
PaidTo(t) == {s \in Sent : s[1] = t}
Optional(S) == IF S = {} THEN {NoPayment} ELSE S

Record(t1, a1, s1, a2, s2, path) ==
    [t1 |-> t1, a1 |-> a1, s1 |-> s1, a2 |-> a2, s2 |-> s2, path |-> path]

(* get_blocks, get_blocks_around_transaction, get_address_transactions.    *)
BlocksMatch ==
    UNION {{Record(t, s1[2], s1, s2[1], s2, <<>>) :
               s1 \in Optional(PaidTo(t)), s2 \in Optional(PaidBy(t))} : t \in Transactions}

AroundMatch ==
    UNION {{Record(t, s1[2], s1, s2[2], s2, <<>>) :
               s1 \in PaidTo(t), s2 \in PaidTo(t)} : t \in Transactions}

(* The addresses at either side of a transaction, and its records for one. *)
Ends(t) == {s[1] : s \in PaidBy(t)} \union {s[2] : s \in PaidTo(t)}

SentFrom(t, a) ==
    {Record(t, a, s1, s2[2], s2, <<>>) :
        s1 \in Optional({s \in PaidBy(t) : s[1] = a}), s2 \in Optional(PaidTo(t))}

AddressMatch == UNION {UNION {SentFrom(t, a) : a \in Ends(t)} : t \in Transactions}

(* The paths of a funds flow run from a2 to another address, along the     *)
(* payments to the right and against them to the left.                     *)
Follows(direction, x, y) ==
    IF direction = "right" THEN <<x, y>> \in Sent ELSE <<y, x>> \in Sent

Paths(direction, a) ==
    {p \in UNION {[1..(k + 1) -> Addresses \union Transactions] : k \in 1..Hops} :
        /\ p[1] = a /\ p[Len(p)] \in Addresses
        /\ \A i \in 1..(Len(p) - 1) : Follows(direction, p[i], p[i + 1])
        /\ \A i, j \in 1..(Len(p) - 1) : i # j => <<p[i], p[i + 1]>> # <<p[j], p[j + 1]>>}

FlowRight ==
    UNION {UNION {{Record(t, s1[1], s1, s2[2], s2, p) : p \in Paths("right", s2[2])} :
                  s1 \in PaidBy(t), s2 \in PaidTo(t)} : t \in Transactions}

FlowLeft ==
    UNION {UNION {{Record(t, s1[2], s1, s2[1], s2, p) : p \in Paths("left", s2[1])} :
                  s1 \in PaidTo(t), s2 \in PaidBy(t)} : t \in Transactions}

Matches(q) ==
    CASE q = "blocks" -> BlocksMatch
      [] q = "around" -> AroundMatch
      [] q = "address" -> AddressMatch
      [] q = "right" -> FlowRight
      [] q = "left" -> FlowLeft

-----------------------------------------------------------------------------
(* The output under construction: its items and the ids already in it.     *)

Drawn == [data |-> output_data, txs |-> transaction_ids, addrs |-> address_ids, edges |-> edge_ids]

Node(id) == [type |-> "node", id |-> id]
Edge(x, y) == [type |-> "edge", from_id |-> x, to_id |-> y]

AddTransaction(d, t) ==
    IF t = None \/ t \in d.txs THEN d
    ELSE [d EXCEPT !.data = Append(@, Node(t)), !.txs = @ \union {t}]

(* A bug: the id is not remembered.                                        *)
AddAddressAgain(d, a) ==
    IF a = None \/ a \in d.addrs THEN d
    ELSE [d EXCEPT !.data = Append(@, Node(a))]

AddAddress(d, a) ==
    IF a = None \/ a \in d.addrs THEN d
    ELSE [d EXCEPT !.data = Append(@, Node(a)), !.addrs = @ \union {a}]

(* process_sent_edges for one payment, which names both of its ends: the   *)
(* second dictionary finds the edge of the first.                          *)
AddEdge(d, s, x, y) ==
    IF s = NoPayment \/ x = None \/ y = None \/ <<x, y>> \in d.edges THEN d
    ELSE [d EXCEPT !.data = Append(@, Edge(x, y)), !.edges = @ \union {<<x, y>>}]

(* process_path: an edge from an address to the next, over the transaction *)
(* between them.                                                           *)
Onward(w, x) ==
    IF x \in Transactions
    THEN [w EXCEPT !.d = AddTransaction(@, x), !.prev_tx = x]
    ELSE LET over == IF w.prev_tx = None THEN NoPayment ELSE <<w.prev_tx, x>>
         IN [d |-> AddEdge(AddAddress(w.d, x), over, w.prev_node, x),
             prev_node |-> x, prev_tx |-> w.prev_tx]

process_path(d, path) ==
    LET Walk[i \in 0..Len(path)] ==
            IF i = 0 THEN [d |-> d, prev_node |-> None, prev_tx |-> None]
            ELSE Onward(Walk[i - 1], path[i])
    IN Walk[Len(path)].d

(* A bug: the payment to the recipient is drawn from it.                   *)
DrawSwapped(d, r) ==
    LET nodes == AddAddress(AddAddress(AddTransaction(d, r.t1), r.a1), r.a2)
        edges == AddEdge(AddEdge(nodes, r.s1, r.a1, r.t1), r.s2, r.a2, r.t1)
    IN process_path(edges, r.path)

(* process_transaction_entry: sender to transaction to recipient.          *)
process_transaction_entry(d, r) ==
    LET nodes == AddAddress(AddAddress(AddTransaction(d, r.t1), r.a1), r.a2)
        edges == AddEdge(AddEdge(nodes, r.s1, r.a1, r.t1), r.s2, r.t1, r.a2)
    IN process_path(edges, r.path)

-----------------------------------------------------------------------------

Init ==
    /\ query \in Queries /\ records = 0
    /\ output_data = <<>> /\ transaction_ids = {} /\ address_ids = {} /\ edge_ids = {}
    /\ matched = {}

Overtaken(path) ==
    {<<path[i], path[i + 2]>> : i \in {k \in 1..(Len(path) - 2) : path[k] \in Addresses}}

(* A record is drawn.                                                      *)
ProcessEntry ==
    /\ records < MaxRecords
    /\ \E r \in Matches(query) :
        LET d == process_transaction_entry(Drawn, r)
        IN /\ output_data' = d.data /\ transaction_ids' = d.txs
           /\ address_ids' = d.addrs /\ edge_ids' = d.edges
           /\ matched' = matched \union ({r.s1, r.s2} \ {NoPayment}) \union Overtaken(r.path)
    /\ records' = records + 1
    /\ UNCHANGED query

(* An entry that is no dictionary, or one without a transaction, as the    *)
(* error a miner reports, is logged and skipped.                           *)
SkipEntry ==
    /\ records < MaxRecords /\ records' = records + 1
    /\ UNCHANGED <<query, output_data, transaction_ids, address_ids, edge_ids, matched>>

(* A bug: the ids of the last result are kept.                             *)
TransformOnly ==
    /\ query' \in Queries /\ records' = 0
    /\ output_data' = <<>>
    /\ matched' = {}
    /\ UNCHANGED <<transaction_ids, address_ids, edge_ids>>

(* transform_result, for the next result.                                  *)
transform_result ==
    /\ query' \in Queries /\ records' = 0
    /\ output_data' = <<>>
    /\ transaction_ids' = {} /\ address_ids' = {} /\ edge_ids' = {}
    /\ matched' = {}

Next == ProcessEntry \/ SkipEntry \/ transform_result

Spec == Init /\ [][Next]_vars

-----------------------------------------------------------------------------

Items == {output_data[i] : i \in DOMAIN output_data}
EdgesDrawn == {<<e.from_id, e.to_id>> : e \in {x \in Items : x.type = "edge"}}

(* Type correctness.                                                       *)
TypeOK ==
    /\ query \in Queries /\ records \in 0..MaxRecords
    /\ transaction_ids \subseteq Transactions /\ address_ids \subseteq Addresses
    /\ edge_ids = EdgesDrawn
    /\ matched \subseteq (Addresses \union Transactions) \X (Addresses \union Transactions)

(* Nothing is drawn twice, although one node is met as sender, recipient   *)
(* and on paths of many records (models/__init__.py:53-166).               *)
DrawnOnce ==
    \A i, j \in DOMAIN output_data : output_data[i] = output_data[j] => i = j

(* Both ends of an edge are drawn before it, so that whoever reads the     *)
(* items in their order can draw it, in every result of a transformer.     *)
EdgesHaveNodes ==
    \A j \in DOMAIN output_data :
        output_data[j].type = "edge" =>
            \A id \in {output_data[j].from_id, output_data[j].to_id} :
                \E i \in 1..(j - 1) : output_data[i] = Node(id)

(* "Process edges from sender to transaction and transaction to recipient" *)
(* (models/__init__.py:71): the edges drawn are the payments the records   *)
(* spoke of, all of them and in their direction; on a path, from each      *)
(* address to the next.                                                    *)
EdgesArePayments == EdgesDrawn = matched

(* They are where the sender is a1 and the recipient a2, as in the results *)
(* for an address and in funds flows to the right, whatever records repeat *)
(* or share (bitcoin_query_api.py:70-72, 124).                             *)
SentAsPaid == query \in {"address", "right"} => EdgesArePayments
=============================================================================
