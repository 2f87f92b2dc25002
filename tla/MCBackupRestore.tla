-------------------------- MODULE MCBackupRestore --------------------------
(* TLC instance of BackupRestore. *)
EXTENDS BackupRestore, TLC

Symmetry == Permutations(Tx)
=============================================================================
