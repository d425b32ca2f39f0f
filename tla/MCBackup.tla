------------------------------- MODULE MCBackup -------------------------------
(* One recording on its way from upload to corpus, two backups and two       *)
(* rehearsals: the second of each may come after a failed first one.  The     *)
(* properties are about each recording by itself.                             *)
EXTENDS Backup, TLC

Interchangeable == Permutations(Backups)
==============================================================================
