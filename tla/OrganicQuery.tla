---------------------------- MODULE OrganicQuery ----------------------------
(***************************************************************************)
(* Organic queries: requests to the API that are forwarded to miners       *)
(* (Validator.query_miner), while the validator's epochs rewrite the       *)
(* discovery table the miners are taken from. Requests are served by       *)
(* several workers, each of them in coroutines of its own.                 *)
(*                                                                         *)
(* The text of a query and the data of an answer are left out; an error a  *)
(* miner reports is an answer like any other.                              *)
(***************************************************************************)
EXTENDS Integers, FiniteSets

CONSTANTS
    Miners,         \* keys
    Clients,        \* one request each at a time
    SampleSize,     \* sample_size, 16 in the code
    SelectCount,    \* select_count, 3 in the code
    MaxStores       \* bound: rows stored by epochs

ASSUME QueryAssumption ==
    /\ SelectCount \in Nat /\ SampleSize \in Nat /\ SelectCount <= SampleSize
    /\ MaxStores \in Nat /\ IsFiniteSet(Miners)

VARIABLES
    rows,        \* miner_discoveries: the network and the time of each key
    clock,       \* utcnow, which orders the rows
    request,     \* the request of each client
    answers      \* the answers gathered so far, by client and miner

queryVars == <<rows, clock, request, answers>>

Networks == {"bitcoin", "commune"}
Routes == {"funds_flow", "balance"}

NoRow == [network |-> "none", timestamp |-> 0]
Idle == [pc |-> "idle", route |-> "balance", network |-> "bitcoin"]
Ended == {"replied", "refused", "failed"}

QueryInit ==
    /\ rows = [k \in Miners |-> NoRow] /\ clock = 0
    /\ request = [c \in Clients |-> Idle]
    /\ answers = [c \in Clients |-> [k \in {} |-> "waiting"]]

(* An epoch stores what a miner said of itself; no row is ever removed.    *)
store_miner_metadata(k) ==
    /\ clock < MaxStores /\ clock' = clock + 1
    /\ \E network \in Networks :
        rows' = [rows EXCEPT ![k] = [network |-> network, timestamp |-> clock']]
    /\ UNCHANGED <<request, answers>>

-----------------------------------------------------------------------------

To(c, pc) == request' = [request EXCEPT ![c].pc = pc]

Receive(c) ==
    /\ request[c].pc \in Ended \union {"idle"}
    /\ \E route \in Routes, network \in Networks :
        request' = [request EXCEPT ![c] = [pc |-> "received", route |-> route, network |-> network]]
    /\ answers' = [answers EXCEPT ![c] = [k \in {} |-> "waiting"]]
    /\ UNCHANGED <<rows, clock>>

(* No API key, or a parameter out of bounds.                               *)
Refuse(c) ==
    /\ request[c].pc = "received" /\ To(c, "refused")
    /\ UNCHANGED <<rows, clock, answers>>

(* Funds flow is served for bitcoin only.                                  *)
OtherNetwork(c) ==
    /\ request[c].pc = "received"
    /\ request[c].route = "funds_flow" /\ request[c].network # "bitcoin"
    /\ To(c, "replied")
    /\ UNCHANGED <<rows, clock, answers>>

get_miners_by_network(network) == {k \in Miners : rows[k].network = network}

(* miners[:16] of the rows, the one stored longest ago first.              *)
Stalest(ks) ==
    {k \in ks : Cardinality({j \in ks : rows[j].timestamp < rows[k].timestamp}) < SampleSize}

(* A bug: the sample is not drawn.                                         *)
WholeSample(ks) == {Stalest(ks)}

TopMiners(ks) ==
    IF Cardinality(ks) < SelectCount THEN {ks}
    ELSE {s \in SUBSET Stalest(ks) : Cardinality(s) = SelectCount}

ReadMiners(c) ==
    /\ request[c].pc = "received"
    /\ request[c].route = "balance" \/ request[c].network = "bitcoin"
    /\ \E top \in TopMiners(get_miners_by_network(request[c].network)) :
        answers' = [answers EXCEPT ![c] = [k \in top |-> "waiting"]]
    /\ To(c, "asking")
    /\ UNCHANGED <<rows, clock>>

Asked(c) == DOMAIN answers[c]
Waiting(c) == {k \in Asked(c) : answers[c][k] = "waiting"}

(* _query_miner: the miner answers.                                        *)
Answer(c, k) ==
    /\ request[c].pc = "asking" /\ k \in Waiting(c)
    /\ answers' = [answers EXCEPT ![c][k] = "data"]
    /\ UNCHANGED <<rows, clock, request>>


(* It does not in time, fails or has nothing.                              *)
NoAnswer(c, k) ==
    /\ request[c].pc = "asking" /\ k \in Waiting(c)
    /\ answers' = [answers EXCEPT ![c][k] = "nothing"]
    /\ UNCHANGED <<rows, clock, request>>

(* asyncio.gather has them all. The first answer is to be given a receipt, *)
(* and store_miner_receipt raises: it takes six arguments and is called    *)
(* with five. Without any answer there is nothing to store.                *)
Gathered(c) ==
    /\ request[c].pc = "asking" /\ Waiting(c) = {}
    /\ To(c, IF \E k \in Asked(c) : answers[c][k] = "data" THEN "failed" ELSE "replied")
    /\ UNCHANGED <<rows, clock, answers>>

Serve(c) == OtherNetwork(c) \/ ReadMiners(c) \/ Gathered(c)

QueryNext ==
    \/ \E k \in Miners : store_miner_metadata(k)
    \/ \E c \in Clients : Receive(c) \/ Refuse(c) \/ Serve(c)
    \/ \E c \in Clients, k \in Miners : Answer(c, k) \/ NoAnswer(c, k)

(* Workers go on, and the call to a miner ends with query_timeout.         *)
Fairness ==
    /\ \A c \in Clients : WF_queryVars(Serve(c))
    /\ \A c \in Clients, k \in Miners : WF_queryVars(NoAnswer(c, k))

QuerySpec == QueryInit /\ [][QueryNext]_queryVars /\ Fairness

-----------------------------------------------------------------------------

(* Type correctness, and no request asks more miners than it is meant to.  *)
QueryTypeOK ==
    /\ rows \in [Miners -> [network : Networks, timestamp : 1..MaxStores] \union {NoRow}]
    /\ clock \in 0..MaxStores
    /\ request \in [Clients -> [pc : {"idle", "received", "asking"} \union Ended,
                                route : Routes, network : Networks]]
    /\ \A c \in Clients :
        /\ Asked(c) \subseteq Miners /\ Cardinality(Asked(c)) <= SelectCount
        /\ \A k \in Asked(c) : answers[c][k] \in {"waiting", "data", "nothing"}

(* Every request ends, whatever the miners do and however few of them are  *)
(* known (validator.py:380-395). Neither silence nor a database without    *)
(* miners fails one: a request only ever fails, and its answers with it,   *)
(* when a miner did answer, for the receipt that cannot be stored          *)
(* (validator.py:399).                                                     *)
AnswersLost(c) == request[c].pc = "failed" /\ \E k \in Asked(c) : answers[c][k] = "data"

=============================================================================
