----------------------------- MODULE MCMigrations -----------------------------
(***************************************************************************)
(* Migrations for TLC: an empty database, one before each script that      *)
(* needs empty tables, the head, and any of their tables with rows.        *)
(***************************************************************************)
EXTENDS Migrations

MCRevisions == {0, 3, 6, 10, 12, 14, 15, 16, 17, 18}
=============================================================================
