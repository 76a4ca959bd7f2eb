----------------------------- MODULE MCUploadIntake -----------------------------
EXTENDS UploadIntake, TLC
CONSTANTS a, b, q1, q2
OneEach == [f \in Files |-> IF f = a THEN q1 ELSE q2]
Alike == Permutations(Requests)
=============================================================================
