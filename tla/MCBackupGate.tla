---------------------------- MODULE MCBackupGate ----------------------------
(* Instance of BackupGate: three calls, so that a refused one, one that     *)
(* extends and the next pause meet, and a clock that lets a deadline move   *)
(* once.                                                                    *)
EXTENDS BackupGate

MCLengths == {1, 2}
=============================================================================
