------------------------------- MODULE MCAccounts -------------------------------
EXTENDS Accounts, TLC
Alike == Permutations(Sessions) \cup Permutations(Requests)
=============================================================================
