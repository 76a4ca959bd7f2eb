------------------------------- MODULE MCCorpus -------------------------------
EXTENDS Corpus, TLC
CONSTANTS d1, d2, w1, w2
NoOverlap == {}
SharedToken == {<<d1, d2>>}
Calm == {}
CrashesOnly == {"crashes"}
ErrorsOnly == {"errors"}
PurgesOnly == {"purges"}
DeletesOnly == {"deletes"}
FailingDeletes == {"deletes", "errors"}
Everything == AllUpsets
Alike == Permutations({d1, d2}) \cup Permutations({w1, w2})
=============================================================================
