--------------------------- MODULE MCBackupManager ---------------------------
(* One program that backs up, ends and starts again: BackupManager alone.   *)
EXTENDS BackupManager
=============================================================================
