---------------------------- MODULE MCBackupSession ----------------------------
(* Instances of BackupSession for TLC: closes of one path. *)
EXTENDS BackupSession, TLC

CONSTANTS c1, c2, f

OneClose == {c1}
TwoCloses == {c1, c2}

OnePath == [c \in Closes |-> f]
=============================================================================
