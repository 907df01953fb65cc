----------------------------- MODULE MCBackups -----------------------------
(* An instance of Backups for TLC: the numbers are in the configuration.   *)
EXTENDS Backups
=============================================================================
