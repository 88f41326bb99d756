--------------------------- MODULE MCBackupImport ---------------------------
(* Small instances of BackupImport for TLC. *)
EXTENDS BackupImport, TLC

Symm == Permutations(Ids) \cup Permutations(Addrs)
            \cup Permutations(Rules) \cup Permutations(Flows)
=============================================================================
