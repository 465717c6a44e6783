------------------------------ MODULE Migrations ------------------------------
(***************************************************************************)
(* The database under `alembic upgrade head`, which the validator runs at  *)
(* every start (session_manager.py, run_migrations; migrations/env.py),    *)
(* and under the downgrades an operator may run: all scripts of a run are  *)
(* statements of one transaction, which other processes, an API server or  *)
(* a validator not stopped yet, insert rows next to.                       *)
(***************************************************************************)
EXTENDS MigrationScripts

CONSTANTS
    Revisions,      \* the revisions a deployment may start from
    MaxInserts,     \* bound: tables filled by others
    MaxDowngrades   \* bound: downgrades

ASSUME MigrationsAssumption ==
    /\ Revisions \subseteq 0..Len(Upgrade)
    /\ MaxInserts \in Nat /\ MaxDowngrades \in Nat

VARIABLES
    version,    \* the committed alembic_version, 0 for none
    tables,     \* the committed tables
    txn,        \* the transaction of the migration under way
    inserts, downgrades

vars == <<version, tables, txn, inserts, downgrades>>

NoTxn == [way |-> "none"]

-----------------------------------------------------------------------------
(* DELETE and UPDATE let others insert into the table, the statements that *)
(* change it lock it until the transaction ends.                           *)
Locks(s) == IF s.op \in {"delete", "update"} THEN {} ELSE {s.table}

-----------------------------------------------------------------------------
(* A deployed database is at some revision, and any of its tables has rows. *)
Init ==
    /\ version \in Revisions
    /\ \E full \in SUBSET DOMAIN SchemaAt[version] :
          tables = [t \in DOMAIN SchemaAt[version] |->
                       [SchemaAt[version][t] EXCEPT !.full = t \in full]]
    /\ txn = NoTxn
    /\ inserts = 0 /\ downgrades = 0

Begin(way, rev) ==
    txn' = [way |-> way, rev |-> rev, stmt |-> 1, work |-> tables, locked |-> {},
            joined |-> {}]

(* run_migrations: alembic upgrade head.                                   *)
UpgradeHead ==
    /\ txn = NoTxn /\ version < HeadRevision
    /\ Begin("up", version + 1)
    /\ UNCHANGED <<version, tables, inserts, downgrades>>

(* alembic downgrade -1.                                                   *)
DowngradeOne ==
    /\ txn = NoTxn /\ version > 0
    /\ downgrades < MaxDowngrades /\ downgrades' = downgrades + 1
    /\ Begin("down", version)
    /\ UNCHANGED <<version, tables, inserts>>

Script == IF txn.way = "up" THEN Upgrade[txn.rev] ELSE Downgrade[txn.rev]

AtStatement == txn # NoTxn /\ txn.stmt <= Len(Script)

Statement == Script[txn.stmt]

Execute ==
    /\ AtStatement /\ Succeeds(txn.work, Statement)
    /\ txn' = [txn EXCEPT !.stmt = @ + 1, !.work = After(@, Statement),
                          !.locked = @ \cup Locks(Statement)]
    /\ UNCHANGED <<version, tables, inserts, downgrades>>

ScriptDone == txn # NoTxn /\ txn.stmt > Len(Script)

NextScript ==
    /\ ScriptDone /\ txn.way = "up" /\ txn.rev < HeadRevision
    /\ txn' = [txn EXCEPT !.rev = @ + 1, !.stmt = 1]
    /\ UNCHANGED <<version, tables, inserts, downgrades>>

(* A bug: the version is counted past the last script.                     *)
CommitOffByOne ==
    /\ ScriptDone /\ (txn.way = "up" => txn.rev = HeadRevision)
    /\ version' = IF txn.way = "up" THEN txn.rev + 1 ELSE txn.rev
    /\ tables' = txn.work
    /\ txn' = NoTxn
    /\ UNCHANGED <<inserts, downgrades>>

Commit ==
    /\ ScriptDone /\ (txn.way = "up" => txn.rev = HeadRevision)
    /\ version' = IF txn.way = "up" THEN HeadRevision ELSE txn.rev - 1
    /\ tables' = txn.work
    /\ txn' = NoTxn
    /\ UNCHANGED <<inserts, downgrades>>

(* A bug: every statement commits.                                         *)
RollbackNothing ==
    /\ AtStatement /\ ~Succeeds(txn.work, Statement)
    /\ tables' = txn.work
    /\ txn' = NoTxn
    /\ UNCHANGED <<version, inserts, downgrades>>

(* The statement is in error, and the transaction with it.                 *)
Rollback ==
    /\ AtStatement /\ ~Succeeds(txn.work, Statement)
    /\ txn' = NoTxn
    /\ UNCHANGED <<version, tables, inserts, downgrades>>

(* The migration is killed: the server rolls back.                         *)
Killed ==
    /\ txn # NoTxn
    /\ txn' = NoTxn
    /\ UNCHANGED <<version, tables, inserts, downgrades>>

(* Another process stores a row and commits; the transaction sees it from  *)
(* its next statement on.                                                  *)
Insert(t) ==
    /\ inserts < MaxInserts /\ inserts' = inserts + 1
    /\ IF txn = NoTxn THEN ~tables[t].full /\ txn' = txn
       ELSE /\ t \notin txn.locked
            /\ ~txn.work[t].full
            /\ txn' = [txn EXCEPT !.work[t].full = TRUE, !.joined = @ \cup {t}]
    /\ tables' = [tables EXCEPT ![t].full = TRUE]
    /\ UNCHANGED <<version, downgrades>>

Next ==
    \/ UpgradeHead \/ DowngradeOne
    \/ Execute \/ NextScript \/ Commit \/ Rollback \/ Killed
    \/ \E t \in DOMAIN tables : Insert(t)

Spec == Init /\ [][Next]_vars

-----------------------------------------------------------------------------
(* A row is NULL only where it may be, in the committed tables and in the  *)
(* ones the transaction works on, and the version is one there is.         *)
TypeOK ==
    /\ version \in 0..HeadRevision
    /\ \A T \in {tables} \cup (IF txn = NoTxn THEN {} ELSE {txn.work}) : \A t \in DOMAIN T :
          /\ T[t].nulls \subseteq T[t].opt /\ T[t].opt \subseteq T[t].cols
          /\ T[t].nulls # {} => T[t].full
    /\ inserts \in 0..MaxInserts /\ downgrades \in 0..MaxDowngrades

Stale == version = 14 /\ Schema(tables) = SchemaAt[15]

(* All or nothing: wherever upgrades and downgrades fail, are killed or    *)
(* are interleaved with inserts, the database has the schema of the        *)
(* revision it says it has, but for the downgrade of 015, which takes the  *)
(* version back and nothing else.                                          *)
SchemaOfRevision == Schema(tables) = SchemaAt[version] \/ Stale

(* At the head the tables are those the models read and write: the columns *)
(* they fill in and no required one besides, the NULLs they allow, and the *)
(* unique columns their upserts name.                                      *)
HeadServesModels ==
    version = HeadRevision =>
        [t \in DOMAIN tables |->
            [cols |-> tables[t].cols, opt |-> tables[t].opt,
             unique |-> {tables[t].keys[k] : k \in DOMAIN tables[t].keys}]] = Models

Blocked == AtStatement /\ ~Succeeds(txn.work, Statement)

(* From every revision and with any rows an upgrade meets no other error   *)
(* than a required column for a table that has rows, once the downgrade of *)
(* 015 is left aside: every table, column and constraint is there under    *)
(* the name the script knows it by.                                        *)
BlockedByRowsOnly ==
    Blocked /\ txn.way = "up" /\ ~Stale
        => Statement.op = "add" /\ txn.work[Statement.table].full

(* The tables a script empties before it changes them.                     *)
Emptied == {Script[i].table : i \in {j \in 1..(txn.stmt - 1) : Script[j].op = "delete"}}

(* From 015 on an upgrade fails only for a row another process put between *)
(* the deletion and the change of the table.                               *)
BlockedByOthersOnly ==
    Blocked /\ txn.way = "up" /\ version >= 15
        => Statement.table \in txn.joined /\ Statement.table \in Emptied

Holds(T, names) == \E t \in names \cap DOMAIN T : T[t].full

(* An upgrade costs no api key and no miner its row.                       *)
UpgradeKeepsRows ==
    [][txn.way = "up" =>
        \A names \in {{"api_keys"}, {"miner_discovery", "miner_discoveries"}} :
            Holds(tables, names) => Holds(tables', names)]_vars
=============================================================================
