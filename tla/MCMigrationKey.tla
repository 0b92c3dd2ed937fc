---------------------------- MODULE MCMigrationKey ----------------------------
(***************************************************************************)
(* Instances of MigrationKey for TLC.                                      *)
(***************************************************************************)
EXTENDS MigrationKey

MCSlots == 1..2
=============================================================================
