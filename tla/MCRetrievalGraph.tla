---------------------------- MODULE MCRetrievalGraph ----------------------------
EXTENDS RetrievalGraph
CONSTANTS a, a1, a2, b, b1
Belongs == [s \in Subs |-> IF s = b1 THEN b ELSE a]
=============================================================================
