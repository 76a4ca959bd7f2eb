---------------------------- MODULE MCWatcherSync ----------------------------
(* Small instances of WatcherSync for TLC.                                  *)
EXTENDS WatcherSync, TLC

Symmetry == Permutations(RowIds)
=============================================================================
