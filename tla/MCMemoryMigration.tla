-------------------------- MODULE MCMemoryMigration --------------------------
(* Three processes on scripts of two, four and two statements. *)
EXTENDS MemoryMigration

MCScriptLength == <<2, 4, 2>>
=============================================================================
