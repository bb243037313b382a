---------------------------- MODULE MCMigration ----------------------------
(***************************************************************************)
(* A small instance of Migration for TLC: three containers, a revision that*)
(* changes data between two that create tables.                            *)
(***************************************************************************)
EXTENDS Migration

CONSTANTS p1, p2, p3

MCProcesses == {p1, p2, p3}
MCDataRevisions == {2}
=============================================================================
