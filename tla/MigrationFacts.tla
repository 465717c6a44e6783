---------------------------- MODULE MigrationFacts ----------------------------
(***************************************************************************)
(* What is so of the eighteen scripts themselves, whatever rows there are  *)
(* and whoever runs them. Each fact is a formula without a constant or a   *)
(* variable, which TLC decides by evaluation; the proofs of                *)
(* MigrationsProofs start from them.                                       *)
(***************************************************************************)
EXTENDS MigrationScripts

(* The shape of a table and of a database.                                 *)
IsTable(tab) ==
    /\ tab = [cols |-> tab.cols, opt |-> tab.opt, keys |-> tab.keys, fks |-> tab.fks,
              full |-> tab.full, nulls |-> tab.nulls]
    /\ tab.full \in BOOLEAN

IsDatabase(T) ==
    /\ T = [t \in DOMAIN T |-> T[t]]
    /\ \A t \in DOMAIN T : IsTable(T[t])

(* How far a script comes and what it makes of a schema, no table of which *)
(* has rows.                                                               *)
Passed(S) == [ok |-> TRUE, db |-> S]

NextSchema(c, s) ==
    IF c.ok /\ Succeeds(c.db, s) THEN Passed(After(c.db, s))
    ELSE [ok |-> FALSE, db |-> None]

Course(S, script) ==
    LET C[k \in 0..Len(script)] ==
            IF k = 0 THEN Passed(S) ELSE NextSchema(C[k - 1], script[k])
    IN C

Outcome(S, script) == Course(S, script)[Len(script)]

Versions == 1..HeadRevision

Scripts == {Upgrade[v] : v \in Versions} \cup {Downgrade[v] : v \in Versions}

-----------------------------------------------------------------------------
(* Every revision has a schema, and there is a script each way.            *)
ASSUME SchemasFact ==
    /\ HeadRevision = 18 /\ Len(Downgrade) = 18
    /\ \A v \in 0..HeadRevision :
          /\ IsDatabase(SchemaAt[v])
          /\ \A t \in DOMAIN SchemaAt[v] :
                LET tab == SchemaAt[v][t]
                IN tab.full = FALSE /\ tab.nulls = {} /\ tab.opt \subseteq tab.cols

(* An upgrade runs through an empty database of the revision before.       *)
ASSUME UpgradesFact ==
    \A v \in Versions : Outcome(SchemaAt[v - 1], Upgrade[v]) = Passed(SchemaAt[v])

(* A downgrade that runs through takes the schema back, that of 015        *)
(* excepted, which does nothing. After it neither the upgrade to 015 nor   *)
(* the downgrade of 014 runs through.                                      *)
ASSUME DowngradesFact ==
    /\ \A v \in Versions \ {15} :
          LET o == Outcome(SchemaAt[v], Downgrade[v]) IN o.ok => o.db = SchemaAt[v - 1]
    /\ Downgrade[15] = <<>>
    /\ ~Outcome(SchemaAt[15], Upgrade[15]).ok
    /\ ~Outcome(SchemaAt[15], Downgrade[14]).ok

Operations ==
    {"create", "drop", "add", "add_null", "drop_column", "retype", "delete", "update",
     "not_null", "rename", "rename_constraint", "drop_fk", "add_fk"}

IsStatement(s) ==
    /\ s.op \in Operations
    /\ s.op = "create" =>
          /\ IsTable(s.arg)
          /\ s.arg.full = FALSE /\ s.arg.nulls = {} /\ s.arg.opt \subseteq s.arg.cols

(* The scripts are made of the statements of the model.                    *)
ASSUME StatementsFact ==
    \A script \in Scripts :
        /\ Len(script) \in Nat
        /\ \A k \in 1..Len(script) : IsStatement(script[k])

(* A column was added before statement k and its NULLs not yet replaced.   *)
Unfilled(script, k, t, c) ==
    \E i \in 1..(k - 1) :
        /\ script[i].op = "add_null" /\ script[i].table = t /\ script[i].arg = c
        /\ \A j \in (i + 1)..(k - 1) :
              ~(script[j].op = "update" /\ script[j].table = t /\ script[j].arg = c)

NoneUnfilled(script, k) ==
    \A i \in 1..(k - 1) :
        script[i].op = "add_null" => ~Unfilled(script, k, script[i].table, script[i].arg)

(* A column is filled in before it becomes NOT NULL, before any other kind *)
(* of statement, and before the end of the script.                         *)
ASSUME NullsFact ==
    \A script \in Scripts :
        /\ \A k \in 1..Len(script) :
              /\ script[k].op = "not_null" =>
                    ~Unfilled(script, k, script[k].table, script[k].arg)
              /\ script[k].op \notin {"add_null", "update", "not_null"} => NoneUnfilled(script, k)
        /\ NoneUnfilled(script, Len(script) + 1)

(* From 016 on a script empties the tables that get a required column, and *)
(* makes and renames none.                                                 *)
ASSUME EmptyingFact ==
    \A v \in 16..HeadRevision : \A k \in 1..Len(Upgrade[v]) :
        /\ Upgrade[v][k].op \notin {"create", "drop", "rename"}
        /\ Upgrade[v][k].op = "add" =>
              \E j \in 1..(k - 1) : Upgrade[v][j].op = "delete"
                                    /\ Upgrade[v][j].table = Upgrade[v][k].table

(* The tables whose rows outlive every upgrade, under all of their names.  *)
Lasting == {{"api_keys"}, {"miner_discovery", "miner_discoveries"}}

(* No upgrade empties or drops one of them or gives it another name.       *)
ASSUME LastingFact ==
    \A v \in Versions : \A k \in 1..Len(Upgrade[v]) : \A names \in Lasting :
        Upgrade[v][k].table \in names =>
            /\ Upgrade[v][k].op \notin {"delete", "drop"}
            /\ Upgrade[v][k].op = "rename" => Upgrade[v][k].arg \in names

(* At the head the schema is what the models declare.                      *)
ASSUME ModelsFact ==
    [t \in DOMAIN SchemaAt[HeadRevision] |->
        LET tab == SchemaAt[HeadRevision][t]
        IN [cols |-> tab.cols, opt |-> tab.opt,
            unique |-> {tab.keys[k] : k \in DOMAIN tab.keys}]] = Models
=============================================================================
