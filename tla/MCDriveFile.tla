----------------------------- MODULE MCDriveFile -----------------------------
(* Small instances of DriveFile: each cfg picks the operations that its    *)
(* question needs.                                                         *)
EXTENDS DriveFile, TLC

EveryOp     == AllOps
NoRestore   == AllOps \ OnTrash
Retained    == {"upload", "delete", "hold"}
Permanent   == {"upload", "delete", "permanent"}
Trashing    == {"upload", "overwrite", "delete", "restore", "permanent"}

Symmetric == Permutations(Request) \cup Permutations(Purger)
=============================================================================
