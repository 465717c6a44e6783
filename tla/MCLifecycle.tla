------------------------------ MODULE MCLifecycle ------------------------------
(***************************************************************************)
(* Lifecycle for TLC. A process upgrades its database before it starts a   *)
(* thread: the facts about the scripts of the upgrade are decided here,    *)
(* and not where Migrations is checked, so that a script which broke one   *)
(* would have to break a property there.                                   *)
(***************************************************************************)
EXTENDS Lifecycle, MigrationFacts
=============================================================================
