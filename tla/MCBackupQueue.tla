---------------------------- MODULE MCBackupQueue ----------------------------
(* Instances of BackupQueue for TLC. *)
EXTENDS BackupQueue, TLC

==============================================================================
