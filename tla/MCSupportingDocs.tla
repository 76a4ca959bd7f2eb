---------------------------- MODULE MCSupportingDocs ----------------------------
EXTENDS SupportingDocs, TLC
CONSTANTS f1, f2, f3, c1, c2, t1, t2, t3
(* f1 and f2 are hashed names, f3 is one that only people give.             *)
HashedNames == [c \in Contents |-> IF c = c1 THEN f1 ELSE f2]
Interchangeable == Permutations(Timers)
=============================================================================
