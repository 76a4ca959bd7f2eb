----------------------------- MODULE MCOfficerDesk -----------------------------
EXTENDS OfficerDesk, TLC
Alike == Permutations(Requests)
=============================================================================
