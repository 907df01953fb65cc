-------------------------- MODULE MCBackupRestore --------------------------
(* An instance of BackupRestore for TLC.                                   *)
EXTENDS BackupRestore

CONSTANT s1
Waypoints == {s1}
=============================================================================
