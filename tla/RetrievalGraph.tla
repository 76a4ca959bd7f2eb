---------------------------- MODULE RetrievalGraph ----------------------------
(***************************************************************************)
(* POST /query: the query graph, several requests at a time, over an index *)
(* that the watcher's workers change meanwhile and a cache of verdicts the *)
(* requests share.  Every statement on the database is a step of its own.  *)
(*                                                                         *)
(* A sub-question is an id and the version of its text.  Scores, ranks and *)
(* order are left to Ranking; here a list is the set of its members, and a *)
(* cut to the best k is a choice of k members.                             *)
(***************************************************************************)
EXTENDS FiniteSets, FiniteSetsExt, Naturals

CONSTANTS
  Queries,     \* requests
  Canons,      \* canonical query texts, the key of the verdict cache
  Docs, Subs,  \* documents and their sub-questions
  DocOf,       \* the document of a sub-question
  Searches,    \* bound: SELECTs of one retrieval (dense, entity, dense_answer)
  PoolSize,    \* final_top_k
  SafetyMax,   \* safety_max_results
  PlateauMin,  \* plateau_min_n
  Batch,       \* _BATCH: candidates per model call
  Layers,      \* the optional layers that are configured
  MaxChanges   \* bound: changes of the index

ASSUME RetrievalAssumption ==
  /\ Layers \subseteq {"rerank", "verify", "widen", "plateau"}
  /\ DocOf \in [Subs -> Docs]
  /\ {Searches, PoolSize, SafetyMax, PlateauMin, Batch} \subseteq Nat \ {0}
  /\ MaxChanges \in Nat

VARIABLES
  index,     \* per document: its text and whether it is active
  changes,   \* how often the index changed
  cache,     \* verify_cache: the verdict, and (not stored) of which text it is
             \* and whether it replaced another one
  run        \* the state of each request

vars == <<index, changes, cache, run>>

Version == 0..MaxChanges
Note == [sub: Subs, text: Version]
Verdict == {"similar", "not_similar"}
Unjudged == [verdict |-> "none", of |-> 0, redone |-> FALSE]
Nodes == {"new", "search", "fuse", "widen", "rerank", "filter", "verify", "judge",
          "assemble", "answered", "error"}
Ended == {"answered", "error"}

NewRun == [at |-> "new", canon |-> "none", left |-> 0, widened |-> FALSE, pool |-> {}, scored |-> FALSE,
           passed |-> {}, todo |-> {}, fresh |-> {}, similar |-> {}, rejected |-> {},
           status |-> "none", blind |-> FALSE, after |-> {}]

Budget == 0..Searches
RunState ==
  [at: Nodes, canon: Canons \cup {"none"}, left: Budget, widened: BOOLEAN, pool: SUBSET Note,
   scored: BOOLEAN, passed: SUBSET Note, todo: SUBSET Note, fresh: SUBSET Note,
   similar: SUBSET Note, rejected: SUBSET Note,
   status: {"none", "disabled", "generic", "unverified", "verified"}, blind: BOOLEAN,
   after: SUBSET Queries]

TypeOK ==
  /\ index \in [Docs -> [text: Version, active: BOOLEAN]] /\ changes \in Version
  /\ cache \in [Canons -> [Subs -> [verdict: Verdict \cup {"none"}, of: Version, redone: BOOLEAN]]]
  /\ run \in [Queries -> RunState]

Init ==
  /\ index \in [Docs -> [text: {0}, active: BOOLEAN]] /\ changes = 0
  /\ cache = [c \in Canons |-> [s \in Subs |-> Unjudged]]
  /\ run = [q \in Queries |-> NewRun]

-----------------------------------------------------------------------------
(* What the workers and administrators do to the index meanwhile.           *)

ChangeIndex(d, row) ==
  /\ changes < MaxChanges /\ changes' = changes + 1
  /\ index' = [index EXCEPT ![d] = row]
  /\ UNCHANGED <<cache, run>>

Reingest(d) == ChangeIndex(d, [index[d] EXCEPT !.text = changes + 1])
Retire(d) == index[d].active /\ ChangeIndex(d, [index[d] EXCEPT !.active = FALSE])
Return(d) == ~index[d].active /\ ChangeIndex(d, [index[d] EXCEPT !.active = TRUE])

Now(s) == [sub |-> s, text |-> index[DocOf[s]].text]
Active(s) == index[DocOf[s]].active

-----------------------------------------------------------------------------
(* Retrieve, fuse, widen.                                                   *)

At(q, node) == run[q].at = node
Becomes(q, r) == run' = [run EXCEPT ![q] = r]
InGraph == UNCHANGED <<index, changes, cache>>
AtMost(k, set) == IF Cardinality(set) < k THEN Cardinality(set) ELSE k

(* The query as it is canonicalised and embedded.                           *)
Process(q, c) ==
  /\ At(q, "new")
  /\ Becomes(q, [run[q] EXCEPT !.at = "search", !.canon = c, !.left = Searches])
  /\ InGraph

(* One retriever's SELECT over the active documents.                        *)
Search(q) ==
  /\ At(q, "search")
  /\ \E hits \in SUBSET {Now(s) : s \in {s \in Subs : Active(s)}} :
       Becomes(q, [run[q] EXCEPT !.pool = @ \cup hits, !.left = @ - 1,
                                 !.at = IF run[q].left = 1 THEN "fuse" ELSE "search"])
  /\ InGraph

(* One sub-question for each document found.                                *)
Representatives(found) ==
  {pool \in SUBSET found :
     \A n \in found : \E m \in pool : {k \in pool : DocOf[k.sub] = DocOf[n.sub]} = {m}}

(* Mutant: a widened search may be widened again.                           *)
MayWiden_Again(q) == "widen" \in Layers

MayWiden(q) == "widen" \in Layers /\ ~run[q].widened

(* A set without candidates is weak; scores may make any other one weak.    *)
Fuse(q) ==
  /\ At(q, "fuse")
  /\ \E pool \in Representatives(run[q].pool), weak \in BOOLEAN :
       /\ weak => MayWiden(q)
       /\ pool = {} /\ MayWiden(q) => weak
       /\ Becomes(q, [run[q] EXCEPT !.pool = pool,
                                    !.at = IF weak THEN "widen" ELSE "rerank"])
  /\ InGraph

(* Mutant: the widened pass goes on with the lists that are left.           *)
Widen_KeepsLists(q) ==
  /\ At(q, "widen")
  /\ Becomes(q, [run[q] EXCEPT !.at = "search", !.widened = TRUE, !.pool = {}])
  /\ InGraph

Widen(q) ==
  /\ At(q, "widen")
  /\ Becomes(q, [run[q] EXCEPT !.at = "search", !.widened = TRUE, !.left = Searches, !.pool = {}])
  /\ InGraph

-----------------------------------------------------------------------------
(* Rerank and filter.  Without a reranker, or when it fails, the order of   *)
(* fusion stands and nothing is scored.                                     *)

Rerank(q) ==
  /\ At(q, "rerank")
  /\ \E top \in kSubset(AtMost(PoolSize, run[q].pool), run[q].pool), scored \in BOOLEAN :
       /\ scored => "rerank" \in Layers
       /\ Becomes(q, [run[q] EXCEPT !.at = "filter", !.pool = top, !.scored = scored, !.widened = FALSE])
  /\ InGraph

(* The candidates that pass the threshold; an unscored one always does.     *)
Passing(q) ==
  IF run[q].scored
  THEN {set \in SUBSET run[q].pool : Cardinality(set) <= SafetyMax}
  ELSE kSubset(AtMost(SafetyMax, run[q].pool), run[q].pool)

Plateau(q, set) == "plateau" \in Layers /\ run[q].scored /\ Cardinality(set) >= PlateauMin

Filter(q) ==
  /\ At(q, "filter")
  /\ \E set \in Passing(q) :
       \/ /\ Plateau(q, set)
          /\ Becomes(q, [run[q] EXCEPT !.at = "assemble", !.pool = {}, !.scored = FALSE, !.status = "generic"])
       \/ Becomes(q, [run[q] EXCEPT !.pool = set, !.passed = set, !.scored = FALSE, !.status = "disabled",
                                    !.at = IF "verify" \in Layers /\ set # {} THEN "verify" ELSE "assemble"])
  /\ InGraph

-----------------------------------------------------------------------------
(* Verify: cached verdicts first, then the model, Batch candidates a call.  *)

Known(q) == {n \in run[q].pool : cache[run[q].canon][n.sub].verdict # "none"}
SaidOf(q, n) == cache[run[q].canon][n.sub].verdict
Judged(q, n) == [sub |-> n.sub, text |-> cache[run[q].canon][n.sub].of]
Finished == {p \in Queries : run[p].status = "verified"}

(* An error of the SELECT is a cache miss for every candidate.              *)
Lookup(q) ==
  /\ At(q, "verify")
  /\ \E blind \in BOOLEAN :
       LET known == IF blind THEN {} ELSE Known(q)
       IN  Becomes(q, [run[q] EXCEPT
             !.at = "judge", !.todo = run[q].pool \ known, !.blind = blind, !.after = Finished,
             !.similar = {Judged(q, n) : n \in {n \in known : SaidOf(q, n) = "similar"}},
             !.rejected = {Judged(q, n) : n \in {n \in known : SaidOf(q, n) = "not_similar"}}])
  /\ InGraph

(* A candidate the answer does not mention counts as similar.               *)
Judge(q) ==
  /\ At(q, "judge") /\ run[q].fresh = {} /\ run[q].todo # {}
  /\ \E chunk \in kSubset(AtMost(Batch, run[q].todo), run[q].todo) : \E yes \in SUBSET chunk :
       Becomes(q, [run[q] EXCEPT !.todo = @ \ chunk, !.fresh = chunk,
                                 !.similar = @ \cup yes, !.rejected = @ \cup (chunk \ yes)])
  /\ InGraph

Said(q, n) == IF n \in run[q].similar THEN "similar" ELSE "not_similar"

(* Mutant: only what was kept is worth remembering.                         *)
Stored_SimilarOnly(q, n) ==
  IF n \in run[q].similar
  THEN [verdict |-> "similar", of |-> n.text, redone |-> cache[run[q].canon][n.sub].verdict # "none"]
  ELSE cache[run[q].canon][n.sub]

(* The verdict of a request that judged the same candidate meanwhile, or    *)
(* could not look it up, replaces the one there is.                         *)
Stored(q, n) ==
  [verdict |-> Said(q, n), of |-> n.text,
   redone |-> cache[run[q].canon][n.sub].verdict # "none"]

Store(q) ==
  /\ At(q, "judge")
  /\ \E n \in run[q].fresh :
       /\ cache' = [cache EXCEPT ![run[q].canon][n.sub] = Stored(q, n)]
       /\ Becomes(q, [run[q] EXCEPT !.fresh = @ \ {n}])
  /\ UNCHANGED <<index, changes>>

(* The verdict is used although it could not be stored.                     *)
StoreFails(q) ==
  /\ At(q, "judge")
  /\ \E n \in run[q].fresh :
       Becomes(q, [run[q] EXCEPT !.fresh = @ \ {n}, !.blind = TRUE])
  /\ InGraph

Verified(q) ==
  /\ At(q, "judge") /\ run[q].fresh = {} /\ run[q].todo = {}
  /\ Becomes(q, [run[q] EXCEPT !.at = "assemble", !.status = "verified",
       !.pool = {n \in @ : \E m \in run[q].similar : m.sub = n.sub}])
  /\ InGraph

(* Mutant: what the model judged before it failed is applied.               *)
Passthrough_KeepsVerdicts(q) ==
  /\ \/ At(q, "verify")
     \/ At(q, "judge") /\ run[q].fresh = {} /\ run[q].todo # {}
  /\ Becomes(q, [run[q] EXCEPT !.at = "assemble", !.status = "unverified", !.todo = {},
       !.pool = {n \in @ : \A m \in run[q].rejected : m.sub # n.sub}])
  /\ InGraph

(* No model, a failed call or an unreadable answer: everything unverified.  *)
Passthrough(q) ==
  /\ \/ At(q, "verify")
     \/ At(q, "judge") /\ run[q].fresh = {} /\ run[q].todo # {}
  /\ Becomes(q, [run[q] EXCEPT !.at = "assemble", !.status = "unverified", !.todo = {}])
  /\ InGraph

-----------------------------------------------------------------------------
(* The rows of the candidates that are still active, with the text of now.  *)
Shown(q) == {Now(n.sub) : n \in {n \in run[q].pool : Active(n.sub)}}

Assemble(q) ==
  /\ At(q, "assemble")
  /\ Becomes(q, [run[q] EXCEPT !.at = "answered", !.passed = {},
                               !.pool = Shown(q)])
  /\ InGraph

(* A statement or the embedding of the query fails: the request does.       *)
Break(q) ==
  /\ run[q].at \in {"new", "search"} \/ (At(q, "assemble") /\ run[q].pool # {})
  /\ Becomes(q, [NewRun EXCEPT !.at = "error"])
  /\ InGraph

Step(q) ==
  \/ \E c \in Canons : Process(q, c)
  \/ Search(q) \/ Fuse(q) \/ Widen(q) \/ Rerank(q) \/ Filter(q)
  \/ Lookup(q) \/ Judge(q) \/ Store(q) \/ StoreFails(q) \/ Verified(q) \/ Passthrough(q)
  \/ Assemble(q) \/ Break(q)

Next ==
  \/ \E q \in Queries : Step(q)
  \/ \E d \in Docs : Reingest(d) \/ Retire(d) \/ Return(d)

Spec == Init /\ [][Next]_vars

(* A request's thread goes on; the calls it makes have timeouts.            *)
FairSpec == Spec /\ \A q \in Queries : WF_vars(Step(q))

-----------------------------------------------------------------------------
SubsOf(notes) == {n.sub : n \in notes}

(* "Half-verified is a lie either way" (llm_verify): an answer shows every  *)
(* candidate that passed the filter and whose document is still active;     *)
(* only a request all of whose verdicts were obtained leaves out, and then  *)
(* exactly, what was judged not similar.                                    *)
AnswerIsWhole ==
  [][\A q \in Queries : At(q, "assemble") /\ run'[q].at = "answered" =>
       LET out == IF run[q].status = "verified" THEN SubsOf(run[q].rejected) ELSE {}
       IN  SubsOf(run'[q].pool) = {s \in SubsOf(run[q].passed) \ out : Active(s)}]_vars

(* "The same canonical query always reuses the same verdict" (llm_verify):  *)
(* a request that looks the cache up after another request for the same     *)
(* canonical query was verified judges every candidate the way that one     *)
(* did, unless a third request judged the candidate once more.              *)
SameQuerySameVerdict ==
  \A q \in Queries : run[q].status = "verified" /\ ~run[q].blind =>
    \A p \in run[q].after : run[p].canon = run[q].canon /\ ~run[p].blind =>
      LET Differ == (SubsOf(run[p].similar) \cap SubsOf(run[q].rejected))
                      \cup (SubsOf(run[p].rejected) \cap SubsOf(run[q].similar))
      IN  \A s \in Differ : cache[run[q].canon][s].redone

(* The same without the order: violated by two requests that miss the cache *)
(* side by side.                                                            *)
AlwaysSameVerdict ==
  \A p, q \in Queries :
    /\ run[p].status = "verified" /\ run[q].status = "verified" /\ run[p].canon = run[q].canon
    /\ ~run[p].blind /\ ~run[q].blind
    => SubsOf(run[p].similar) \cap SubsOf(run[q].rejected) = {}

(* The verdicts applied were given for the texts retrieved                  *)
(* (019_verify_cache.sql: "Caching the verdict by (canonical query,         *)
(* doc_key, question text)").  The code keys it by the id.                  *)
VerdictOfText ==
  \A q \in Queries : At(q, "assemble") /\ run[q].status = "verified" =>
    run[q].pool \subseteq run[q].similar

(* The retry is capped, no failure of a layer keeps a request: every        *)
(* request ends.                                                            *)
EveryQueryEnds == \A q \in Queries : <>(run[q].at \in Ended)
=============================================================================
