---------------------------- MODULE MCSyncQueue ----------------------------
(* Small instances of SyncQueue for TLC.  Folders, rows and workers are     *)
(* interchangeable, so the instances without fairness use symmetry.         *)
EXTENDS SyncQueue, TLC

Symmetry == Permutations(Paths) \cup Permutations(RowIds)
              \cup Permutations(Services) \cup Permutations(Drainers)
=============================================================================
