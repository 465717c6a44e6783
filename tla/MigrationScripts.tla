--------------------------- MODULE MigrationScripts ---------------------------
(***************************************************************************)
(* The migration scripts 001 to 018 as data, the statements they are made  *)
(* of, and what each statement does to a database of PostgreSQL.           *)
(*                                                                         *)
(* A database is a function from table names to tables. A table has its    *)
(* columns, those of them that may be NULL, its unique constraints and     *)
(* foreign keys by name, whether it has rows, and the columns in which     *)
(* some row has a NULL. Types, defaults the application fills in and the   *)
(* action of a foreign key (010 makes it CASCADE) are left out. A name of  *)
(* a constraint is its kind and the table it was named after.              *)
(***************************************************************************)
EXTENDS Integers, Sequences, SequencesExt

(* The statements. *)

Create(t, cols, opt, keys, fks) ==
    [op |-> "create", table |-> t,
     arg |-> [cols |-> cols, opt |-> opt, keys |-> keys, fks |-> fks,
              full |-> FALSE, nulls |-> {}]]
Drop(t) == [op |-> "drop", table |-> t]
AddRequired(t, c) == [op |-> "add", table |-> t, arg |-> c]
AddOptional(t, c) == [op |-> "add_null", table |-> t, arg |-> c]
DropColumn(t, c) == [op |-> "drop_column", table |-> t, arg |-> c]
Retype(t, c) == [op |-> "retype", table |-> t, arg |-> c]
DeleteFrom(t) == [op |-> "delete", table |-> t]
UpdateSet(t, c) == [op |-> "update", table |-> t, arg |-> c]
SetNotNull(t, c) == [op |-> "not_null", table |-> t, arg |-> c]
RenameTable(t, u) == [op |-> "rename", table |-> t, arg |-> u]
RenameConstraint(t, k, l) == [op |-> "rename_constraint", table |-> t, arg |-> k, to |-> l]
DropForeignKey(t, k) == [op |-> "drop_fk", table |-> t, arg |-> k]
AddForeignKey(t, k, u) == [op |-> "add_fk", table |-> t, arg |-> k, to |-> u]

None == <<>>

PK(t) == <<"pk", t>>
UQ(t) == <<"uq", t>>
FK(t) == <<"fk", t>>

Keys(t, cols) == (PK(t) :> {"id"}) @@ (UQ(t) :> cols)

-----------------------------------------------------------------------------
(* What a statement needs to succeed, and what it does.                    *)

Has(T, t) == t \in DOMAIN T

HasColumn(T, t, c) == Has(T, t) /\ c \in T[t].cols

Names(tab) == DOMAIN tab.keys \cup DOMAIN tab.fks

Referenced(T, t) == \E u \in DOMAIN T : u # t /\ \E k \in DOMAIN T[u].fks : T[u].fks[k] = t

Succeeds(T, s) ==
    \/ s.op = "create" /\ ~Has(T, s.table)
    \/ s.op = "drop" /\ Has(T, s.table) /\ ~Referenced(T, s.table)
    \/ s.op = "add" /\ Has(T, s.table) /\ ~HasColumn(T, s.table, s.arg) /\ ~T[s.table].full
    \/ s.op = "add_null" /\ Has(T, s.table) /\ ~HasColumn(T, s.table, s.arg)
    \/ s.op \in {"drop_column", "retype", "update"} /\ HasColumn(T, s.table, s.arg)
    \/ s.op = "delete" /\ Has(T, s.table)
    \/ s.op = "not_null" /\ HasColumn(T, s.table, s.arg) /\ s.arg \notin T[s.table].nulls
    \/ s.op = "rename" /\ Has(T, s.table) /\ ~Has(T, s.arg)
    \/ s.op \in {"rename_constraint", "drop_fk"} /\ Has(T, s.table) /\ s.arg \in Names(T[s.table])
    \/ s.op = "add_fk" /\ Has(T, s.table) /\ Has(T, s.to) /\ s.arg \notin Names(T[s.table])

With(f, a, x) == [y \in DOMAIN f \cup {a} |-> IF y = a THEN x ELSE f[y]]

Renaming(f, a, b) == [x \in (DOMAIN f \ {a}) \cup {b} |-> IF x = b THEN f[a] ELSE f[x]]

(* A foreign key follows the table it refers to.                           *)
Retarget(fks, t, u) == [k \in DOMAIN fks |-> IF fks[k] = t THEN u ELSE fks[k]]

RenameIn(T, t, u) ==
    LET moved == Renaming(T, t, u)
    IN [x \in DOMAIN moved |-> [moved[x] EXCEPT !.fks = Retarget(@, t, u)]]

RenameKey(tab, k, l) ==
    IF k \in DOMAIN tab.keys THEN [tab EXCEPT !.keys = Renaming(@, k, l)]
    ELSE [tab EXCEPT !.fks = Renaming(@, k, l)]

(* The table of a statement that changes one, after it.                    *)
Altered(tab, s) ==
    CASE s.op = "add" -> [tab EXCEPT !.cols = @ \cup {s.arg}]
      [] s.op = "add_null" ->
            [tab EXCEPT !.cols = @ \cup {s.arg}, !.opt = @ \cup {s.arg},
                        !.nulls = IF tab.full THEN @ \cup {s.arg} ELSE @]
      [] s.op = "drop_column" ->
            [tab EXCEPT !.cols = @ \ {s.arg}, !.opt = @ \ {s.arg}, !.nulls = @ \ {s.arg}]
      [] s.op = "delete" -> [tab EXCEPT !.full = FALSE, !.nulls = {}]
      [] s.op = "update" -> [tab EXCEPT !.nulls = @ \ {s.arg}]
      [] s.op = "not_null" -> [tab EXCEPT !.opt = @ \ {s.arg}]
      [] s.op = "rename_constraint" -> RenameKey(tab, s.arg, s.to)
      [] s.op = "drop_fk" -> [tab EXCEPT !.fks = Restrict(@, DOMAIN @ \ {s.arg})]
      [] s.op = "add_fk" -> [tab EXCEPT !.fks = With(@, s.arg, s.to)]
      [] s.op = "retype" -> tab

After(T, s) ==
    CASE s.op = "create" -> With(T, s.table, s.arg)
      [] s.op = "drop" -> Restrict(T, DOMAIN T \ {s.table})
      [] s.op = "rename" -> RenameIn(T, s.table, s.arg)
      [] OTHER -> [T EXCEPT ![s.table] = Altered(@, s)]

-----------------------------------------------------------------------------
(* upgrade() of each script. *)

Upgrade001 == <<
    Create("miner_discovery",
        {"id", "uid", "miner_key", "miner_address", "miner_ip_port", "timestamp",
         "network", "rank"}, {}, Keys("miner_discovery", {"miner_key"}), None),
    Create("miner_receipts",
        {"id", "request_id", "miner_key", "prompt_hash", "accepted", "timestamp"}, {},
        Keys("miner_receipts", {"miner_key", "request_id"}), None)>>

Upgrade002 == <<
    Create("api_keys", {"id", "key", "enabled", "timestamp", "description"},
        {"enabled", "timestamp", "description"}, Keys("api_keys", {"key"}), None)>>

Upgrade003 == <<
    Create("validation_prompt", {"id", "prompt", "block"}, {},
        PK("validation_prompt") :> {"id"}, None)>>

Upgrade004 == <<
    AddRequired("miner_discovery", "failed_challenges"),
    AddRequired("miner_discovery", "total_challenges"),
    AddRequired("miner_discovery", "is_trusted"),
    AddRequired("validation_prompt", "created_at")>>

Upgrade005 == <<
    DeleteFrom("validation_prompt"), AddRequired("validation_prompt", "network")>>

Upgrade006 == <<
    Create("challenge_balance_tracking",
        {"id", "challenge", "block_height", "balance_tracking_expected_response",
         "network", "created_at"}, {},
        Keys("challenge_balance_tracking", {"block_height"}), None),
    Create("challenge_funds_flow", {"id", "challenge", "tx_id", "network", "created_at"}, {},
        Keys("challenge_funds_flow", {"tx_id"}), None)>>

Upgrade007 == <<
    DeleteFrom("validation_prompt"),
    AddRequired("validation_prompt", "prompt_model_type"),
    AddRequired("validation_prompt", "data"),
    DropColumn("validation_prompt", "block")>>

Upgrade008 == <<
    DeleteFrom("validation_prompt"),
    Retype("validation_prompt", "prompt"), Retype("validation_prompt", "data")>>

Upgrade009 == <<
    Create("validation_prompt_response", {"id", "prompt_id", "miner_key", "query"}, {},
        PK("validation_prompt_response") :> {"id"},
        FK("validation_prompt_response") :> "validation_prompt")>>

Upgrade010 == <<
    DropForeignKey("validation_prompt_response", FK("validation_prompt_response")),
    AddForeignKey("validation_prompt_response", FK("validation_prompt_response"),
        "validation_prompt")>>

Upgrade011 == <<AddRequired("validation_prompt_response", "result")>>

Upgrade012 == <<Retype("validation_prompt_response", "result")>>

Upgrade013 == <<AddRequired("validation_prompt_response", "is_valid")>>

(* The tables 014 renames, in its order, and their plurals.                *)
Plurals == <<
    <<"validation_prompt", "validation_prompts">>,
    <<"validation_prompt_response", "validation_prompt_responses">>,
    <<"challenge_balance_tracking", "challenges_balance_tracking">>,
    <<"miner_discovery", "miner_discoveries">>,
    <<"challenge_funds_flow", "challenges_funds_flow">> >>

(* The constraints it renames, in its order: the kind and which table.     *)
Renamed == <<
    <<"pk", 1>>, <<"pk", 2>>, <<"fk", 2>>, <<"pk", 3>>, <<"uq", 3>>,
    <<"pk", 5>>, <<"uq", 5>>, <<"pk", 4>>, <<"uq", 4>> >>

Upgrade014 ==
    [i \in 1..5 |-> RenameTable(Plurals[i][1], Plurals[i][2])] \o
    [i \in 1..9 |->
        LET kind == Renamed[i][1]
            names == Plurals[Renamed[i][2]]
        IN RenameConstraint(names[2], <<kind, names[1]>>, <<kind, names[2]>>)]

(* A bug: the prompts go before the responses that refer to them.          *)
Upgrade015PromptsFirst == <<
    Drop("validation_prompts"), Drop("validation_prompt_responses"),
    DropColumn("miner_receipts", "prompt_hash"),
    AddRequired("miner_receipts", "model_type"), AddRequired("miner_receipts", "query_hash")>>

Upgrade015 == <<
    Drop("validation_prompt_responses"), Drop("validation_prompts"),
    DropColumn("miner_receipts", "prompt_hash"),
    AddRequired("miner_receipts", "model_type"), AddRequired("miner_receipts", "query_hash")>>

(* A bug: the columns are filled and stay optional.                        *)
Upgrade016Optional == <<
    AddOptional("miner_discoveries", "version"), AddOptional("miner_discoveries", "graph_db"),
    UpdateSet("miner_discoveries", "version"), UpdateSet("miner_discoveries", "graph_db")>>

Upgrade016 == <<
    AddOptional("miner_discoveries", "version"), AddOptional("miner_discoveries", "graph_db"),
    UpdateSet("miner_discoveries", "version"), UpdateSet("miner_discoveries", "graph_db"),
    SetNotNull("miner_discoveries", "version"), SetNotNull("miner_discoveries", "graph_db")>>

(* A bug: the miners are deleted with their receipts.                      *)
Upgrade017AllMiners == <<
    DeleteFrom("miner_receipts"), DeleteFrom("miner_discoveries"),
    AddRequired("miner_receipts", "model_kind"), DropColumn("miner_receipts", "model_type")>>

Upgrade017 == <<
    DeleteFrom("miner_receipts"), DeleteFrom("challenges_funds_flow"),
    DeleteFrom("challenges_balance_tracking"),
    AddRequired("miner_receipts", "model_kind"), DropColumn("miner_receipts", "model_type")>>

(* A bug: the receipts that have no network are kept.                      *)
Upgrade018KeepingRows == <<AddRequired("miner_receipts", "network")>>

Upgrade018 == <<DeleteFrom("miner_receipts"), AddRequired("miner_receipts", "network")>>

Upgrade == <<
    Upgrade001, Upgrade002, Upgrade003, Upgrade004, Upgrade005, Upgrade006,
    Upgrade007, Upgrade008, Upgrade009, Upgrade010, Upgrade011, Upgrade012,
    Upgrade013, Upgrade014, Upgrade015, Upgrade016, Upgrade017, Upgrade018>>

-----------------------------------------------------------------------------
(* downgrade() of each script. *)

Downgrade001 == <<Drop("miner_receipts"), Drop("miner_discovery")>>

Downgrade002 == <<Drop("api_keys")>>

Downgrade003 == <<Drop("validation_prompt")>>

Downgrade004 == <<
    DropColumn("validation_prompt", "created_at"), DropColumn("miner_discovery", "is_trusted"),
    DropColumn("miner_discovery", "total_challenges"),
    DropColumn("miner_discovery", "failed_challenges")>>

Downgrade005 == <<DropColumn("validation_prompt", "network")>>

Downgrade006 == <<Drop("challenge_funds_flow"), Drop("challenge_balance_tracking")>>

Downgrade007 == <<
    AddRequired("validation_prompt", "block"), DropColumn("validation_prompt", "data"),
    DropColumn("validation_prompt", "prompt_model_type")>>

Downgrade008 == <<Retype("validation_prompt", "data"), Retype("validation_prompt", "prompt")>>

Downgrade009 == <<Drop("validation_prompt_response")>>

(* The same two statements as in the upgrade, without CASCADE.             *)
Downgrade010 == Upgrade010

Downgrade011 == <<DropColumn("validation_prompt_response", "result")>>

Downgrade012 == <<Retype("validation_prompt_response", "result")>>

Downgrade013 == <<DropColumn("validation_prompt_response", "is_valid")>>

(* 014 takes the table names back first and then goes on under the plural  *)
(* names, in the order of its upgrade.                                     *)
Downgrade014 ==
    [i \in 1..5 |-> RenameTable(Plurals[i][2], Plurals[i][1])] \o
    [i \in 1..9 |->
        LET kind == Renamed[i][1]
            names == Plurals[Renamed[i][2]]
        IN RenameConstraint(names[2], <<kind, names[2]>>, <<kind, names[1]>>)]

(* pass                                                                    *)
Downgrade015 == <<>>

Downgrade016 == <<
    DropColumn("miner_discoveries", "graph_db"), DropColumn("miner_discoveries", "version")>>

Downgrade017 == <<
    AddRequired("miner_receipts", "model_type"), DropColumn("miner_receipts", "model_kind")>>

Downgrade018 == <<DropColumn("miner_receipts", "network")>>

Downgrade == <<
    Downgrade001, Downgrade002, Downgrade003, Downgrade004, Downgrade005, Downgrade006,
    Downgrade007, Downgrade008, Downgrade009, Downgrade010, Downgrade011, Downgrade012,
    Downgrade013, Downgrade014, Downgrade015, Downgrade016, Downgrade017, Downgrade018>>

-----------------------------------------------------------------------------
(* The schemas the scripts go through, and the one the code is written for. *)

HeadRevision == Len(Upgrade)

(* The schema of a table: all but its rows.                                *)
Schema(T) == [t \in DOMAIN T |-> [T[t] EXCEPT !.full = FALSE, !.nulls = {}]]

(* The schema each revision is meant to have.                              *)
SchemaAt[v \in 0..HeadRevision] ==
    IF v = 0 THEN None ELSE FoldLeft(After, SchemaAt[v - 1], Upgrade[v])

(* What the ORM models of this version of the code declare.                *)
ChallengeTable(key, more) ==
    [cols |-> {"id", "challenge", "network", "created_at", key} \cup more, opt |-> {},
     unique |-> {{"id"}, {key}}]

Models ==
    [api_keys |-> [cols |-> {"id", "key", "enabled", "timestamp", "description"},
                   opt |-> {"enabled", "timestamp", "description"},
                   unique |-> {{"id"}, {"key"}}],
     miner_discoveries |->
        [cols |-> {"id", "uid", "miner_key", "miner_address", "miner_ip_port", "timestamp",
                   "network", "rank", "failed_challenges", "total_challenges", "is_trusted",
                   "version", "graph_db"},
         opt |-> {}, unique |-> {{"id"}, {"miner_key"}}],
     miner_receipts |->
        [cols |-> {"id", "request_id", "miner_key", "model_kind", "network", "query_hash",
                   "accepted", "timestamp"},
         opt |-> {}, unique |-> {{"id"}, {"miner_key", "request_id"}}],
     challenges_funds_flow |-> ChallengeTable("tx_id", {}),
     challenges_balance_tracking |->
        ChallengeTable("block_height", {"balance_tracking_expected_response"})]
=============================================================================
