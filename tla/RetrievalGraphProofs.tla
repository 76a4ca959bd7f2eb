------------------------- MODULE RetrievalGraphProofs -------------------------
(***************************************************************************)
(* What a query promises, for any number of requests, sub-questions and    *)
(* changes of the index, any layers and any bounds.                        *)
(*                                                                         *)
(* Sound is about one request: the candidates judged and the ones still to *)
(* be judged partition what passed the filter.  Cross is about two: what a *)
(* request judged is in the cache, or a later verdict replaced it.         *)
(***************************************************************************)
EXTENDS RetrievalGraph, TLAPS

Early == {"new", "search", "fuse", "widen", "rerank", "filter"}
Past == {"assemble", "answered", "error"}

Distinct(notes) == \A m, n \in notes : m.sub = n.sub => m = n

(* Every candidate was judged one way or is still to be judged.             *)
Split(r) ==
  /\ r.todo \subseteq r.pool /\ r.fresh \subseteq r.similar \cup r.rejected
  /\ \A n \in r.pool \ r.todo : n.sub \in SubsOf(r.similar) \cup SubsOf(r.rejected)
  /\ \A n \in r.todo : n.sub \notin SubsOf(r.similar) \cup SubsOf(r.rejected)

Untouched(r) == r.status = "none" /\ r.passed = {} /\ r.after = {}
Unread(r) == r.todo = {} /\ r.fresh = {} /\ r.similar = {} /\ r.rejected = {}

Sound(r) ==
  /\ r.at \notin {"new", "error"} => r.canon \in Canons
  /\ r.at = "search" => r.left >= 1
  /\ r.at \in Early \cup {"error"} => Untouched(r) /\ Unread(r)
  /\ r.at \in {"rerank", "filter", "verify", "judge"} => Distinct(r.pool)
  /\ r.at = "verify" => Unread(r)
  /\ r.at \in {"verify", "judge"} => r.pool = r.passed /\ r.status = "disabled"
  /\ r.at = "judge" => Split(r)
  /\ r.status = "verified" => r.at \in {"assemble", "answered"} /\ r.fresh = {}
  /\ r.at = "assemble" =>
       SubsOf(r.pool) = SubsOf(r.passed) \ (IF r.status = "verified" THEN SubsOf(r.rejected) ELSE {})
  /\ SubsOf(r.similar) \cap SubsOf(r.rejected) = {}

Judging(r) == r.at = "judge" \/ r.status = "verified"

(* What a request becomes once it was verified.                             *)
Done(r) == r.at = "error" \/ (r.at \in Past /\ r.status = "verified")

(* A step that adds nothing to what was judged.                             *)
Quiet(r, next) ==
  /\ Judging(next) /\ ~next.blind =>
       /\ Judging(r) /\ ~r.blind /\ next.canon = r.canon /\ next.todo \subseteq r.todo
       /\ next.fresh = r.fresh /\ next.similar = r.similar /\ next.rejected = r.rejected
  /\ Done(r) => Done(next)
  /\ next.status = "verified" => r.status = "verified" \/ r.at = "judge"
  /\ next.after \subseteq r.after
  /\ next.at = "judge" =>
       /\ r.at = "judge" /\ next.canon = r.canon /\ next.pool = r.pool
       /\ next.todo \subseteq r.todo /\ next.fresh \subseteq r.fresh

-----------------------------------------------------------------------------
(* What a step makes of a request.                                          *)

SameBut(row, next, but) ==
  /\ "at" \in but \/ next.at = row.at
  /\ "canon" \in but \/ next.canon = row.canon
  /\ "left" \in but \/ next.left = row.left
  /\ "pool" \in but \/ next.pool = row.pool
  /\ "passed" \in but \/ next.passed = row.passed
  /\ "todo" \in but \/ next.todo = row.todo
  /\ "fresh" \in but \/ next.fresh = row.fresh
  /\ "similar" \in but \/ next.similar = row.similar
  /\ "rejected" \in but \/ next.rejected = row.rejected
  /\ "status" \in but \/ next.status = row.status
  /\ "blind" \in but \/ next.blind = row.blind
  /\ "after" \in but \/ next.after = row.after

LEMMA RowTyped == ASSUME TypeOK, NEW q \in Queries PROVE run[q] \in RunState
BY DEF TypeOK

LEMMA Numbers ==
  /\ Searches >= 1 /\ Searches \in Budget
  /\ \A n \in Budget : n >= 1 => n - 1 \in Budget /\ (n # 1 => n - 1 >= 1)
BY RetrievalAssumption DEF Budget

(* Sound of a request that has nothing judged yet.                          *)
LEMMA EarlySound ==
  ASSUME NEW r, r.at \in Early, Untouched(r), Unread(r), r.at # "new" => r.canon \in Canons,
         r.at = "search" => r.left >= 1, r.at \in {"rerank", "filter"} => Distinct(r.pool)
  PROVE  Sound(r)
BY DEF Sound, Early, Untouched, Unread, SubsOf

LEMMA EarlyQuiet ==
  ASSUME NEW r, NEW next, r.at \in Early, Untouched(next), next.at # "judge"
  PROVE  Quiet(r, next)
BY DEF Quiet, Judging, Untouched, Early, Done, Past

LEMMA NewTyped == NewRun \in RunState /\ Sound(NewRun)
BY RetrievalAssumption
   DEF NewRun, RunState, Budget, Sound, Nodes, Early, Untouched, Unread, Split, Distinct, SubsOf

(* Only request q changes, and it becomes next.                             *)
Goes(q, next) ==
  /\ run' \in [Queries -> RunState]
  /\ \A p \in Queries : p # q => run'[p] = run[p]
  /\ run'[q] = next

LEMMA Going ==
  ASSUME TypeOK, NEW q \in Queries, NEW next \in RunState, Becomes(q, next)
  PROVE  Goes(q, next)
BY DEF TypeOK, Becomes, Goes

LEMMA ActiveNow == ASSUME TypeOK, NEW s \in Subs PROVE Now(s) \in Note /\ Now(s).sub = s
BY RetrievalAssumption DEF TypeOK, Now, Note, Version

(* What request q may have become after a step that judged nothing.         *)
Quietly(q) == \E next \in RunState : Goes(q, next) /\ Sound(next) /\ Quiet(run[q], next)

LEMMA ProcessEffect ==
  ASSUME TypeOK, NEW q \in Queries, Sound(run[q]), NEW c \in Canons, Process(q, c)
  PROVE  Quietly(q)
<1> DEFINE next == [run[q] EXCEPT !.at = "search", !.canon = c, !.left = Searches]
<1>1. run[q] \in RunState /\ Searches \in Budget
  BY RowTyped, Numbers
<1>2. /\ next \in RunState /\ next.at = "search" /\ next.canon = c /\ next.left = Searches
      /\ SameBut(run[q], next, {"at", "canon", "left"})
  BY <1>1 DEF RunState, Nodes, SameBut
<1>3. Becomes(q, next)
  BY Zenon DEF Process
<1> HIDE DEF next
<1>4. run[q].at = "new" /\ Untouched(run[q]) /\ Unread(run[q])
  BY DEF Process, At, Sound, Early
<1>5. Untouched(next) /\ Unread(next)
  BY <1>2, <1>4 DEF SameBut, Untouched, Unread
<1>6. Sound(next)
  BY <1>2, <1>5, Numbers, EarlySound DEF Early
<1>7. Quiet(run[q], next)
  BY <1>2, <1>4, <1>5, EarlyQuiet DEF Early
<1> QED
  BY <1>2, <1>3, <1>6, <1>7, Going DEF Quietly

LEMMA SearchEffect ==
  ASSUME TypeOK, NEW q \in Queries, Sound(run[q]), Search(q)
  PROVE  Quietly(q)
<1>1. PICK hits \in SUBSET {Now(s) : s \in {s \in Subs : Active(s)}} :
        Becomes(q, [run[q] EXCEPT !.pool = @ \cup hits, !.left = @ - 1,
                                  !.at = IF run[q].left = 1 THEN "fuse" ELSE "search"])
  BY Zenon DEF Search
<1> DEFINE at == IF run[q].left = 1 THEN "fuse" ELSE "search"
           left == run[q].left - 1
           next == [run[q] EXCEPT !.pool = @ \cup hits, !.left = left, !.at = at]
<1>2. run[q].at = "search" /\ Untouched(run[q]) /\ Unread(run[q]) /\ run[q].canon \in Canons
  BY DEF Search, At, Sound, Early
<1>3. run[q].left >= 1 /\ run[q].left \in Budget
  BY RowTyped DEF Search, At, Sound, RunState
<1>4. left \in Budget /\ at \in {"fuse", "search"} /\ (at = "search" => left >= 1)
  BY <1>3, Numbers
<1>5. Becomes(q, next)
  BY Zenon, <1>1
<1>6. run[q] \in RunState /\ hits \in SUBSET Note
  BY RowTyped, ActiveNow
<1> HIDE DEF at, left
<1>7. /\ next \in RunState /\ next.at = at /\ next.left = left
      /\ SameBut(run[q], next, {"at", "pool", "left"})
  BY <1>4, <1>6 DEF RunState, Nodes, SameBut
<1> HIDE DEF next
<1>8. Untouched(next) /\ Unread(next) /\ next.canon \in Canons
  BY <1>2, <1>7 DEF SameBut, Untouched, Unread
<1>9. Sound(next)
  BY <1>4, <1>7, <1>8, EarlySound DEF Early
<1>10. Quiet(run[q], next)
  BY <1>2, <1>4, <1>7, <1>8, EarlyQuiet DEF Early
<1> QED
  BY <1>5, <1>7, <1>9, <1>10, Going DEF Quietly

LEMMA OnePerDocument ==
  ASSUME NEW found, NEW pool \in Representatives(found)
  PROVE  pool \subseteq found /\ Distinct(pool)
<1>1. pool \subseteq found
  BY DEF Representatives
<1>2. ASSUME NEW m \in pool, NEW n \in pool, m.sub = n.sub
      PROVE  m = n
  <2>1. PICK k \in pool : {j \in pool : DocOf[j.sub] = DocOf[n.sub]} = {k}
    BY <1>1 DEF Representatives
  <2> QED
    BY <2>1, <1>2
<1> QED
  BY <1>1, <1>2 DEF Distinct

LEMMA FuseEffect ==
  ASSUME TypeOK, NEW q \in Queries, Sound(run[q]), Fuse(q)
  PROVE  Quietly(q)
<1>1. PICK pool \in Representatives(run[q].pool), weak \in BOOLEAN :
        Becomes(q, [run[q] EXCEPT !.pool = pool, !.at = IF weak THEN "widen" ELSE "rerank"])
  BY Zenon DEF Fuse
<1> DEFINE at == IF weak THEN "widen" ELSE "rerank"
           next == [run[q] EXCEPT !.pool = pool, !.at = at]
<1>2. run[q].at = "fuse" /\ Untouched(run[q]) /\ Unread(run[q]) /\ run[q].canon \in Canons
  BY DEF Fuse, At, Sound, Early
<1>3. run[q] \in RunState /\ at \in {"widen", "rerank"} /\ Distinct(pool) /\ pool \subseteq run[q].pool
  BY RowTyped, OnePerDocument
<1>4. Becomes(q, next)
  BY Zenon, <1>1
<1> HIDE DEF at
<1>5. pool \in SUBSET Note
  BY <1>3 DEF RunState
<1>6. /\ next \in RunState /\ next.at = at /\ next.pool = pool
      /\ SameBut(run[q], next, {"at", "pool"})
  BY <1>3, <1>5 DEF RunState, Nodes, SameBut
<1> HIDE DEF next
<1>7. Untouched(next) /\ Unread(next) /\ next.canon \in Canons
  BY <1>2, <1>6 DEF SameBut, Untouched, Unread
<1>8. Sound(next)
  BY <1>3, <1>6, <1>7, EarlySound DEF Early
<1>9. Quiet(run[q], next)
  BY <1>2, <1>3, <1>6, <1>7, EarlyQuiet DEF Early
<1> QED
  BY <1>4, <1>6, <1>8, <1>9, Going DEF Quietly

LEMMA WidenEffect ==
  ASSUME TypeOK, NEW q \in Queries, Sound(run[q]), Widen(q)
  PROVE  Quietly(q)
<1> DEFINE next == [run[q] EXCEPT !.at = "search", !.widened = TRUE, !.left = Searches, !.pool = {}]
<1>1. run[q] \in RunState /\ Searches \in Budget
  BY RowTyped, Numbers
<1>2. /\ next \in RunState /\ next.at = "search" /\ next.left = Searches
      /\ SameBut(run[q], next, {"at", "left", "pool"})
  BY <1>1 DEF RunState, Nodes, SameBut
<1>3. Becomes(q, next)
  BY Zenon DEF Widen
<1> HIDE DEF next
<1>4. run[q].at = "widen" /\ Untouched(run[q]) /\ Unread(run[q]) /\ run[q].canon \in Canons
  BY DEF Widen, At, Sound, Early
<1>5. Untouched(next) /\ Unread(next) /\ next.canon \in Canons
  BY <1>2, <1>4 DEF SameBut, Untouched, Unread
<1>6. Sound(next)
  BY <1>2, <1>5, Numbers, EarlySound DEF Early
<1>7. Quiet(run[q], next)
  BY <1>2, <1>4, <1>5, EarlyQuiet DEF Early
<1> QED
  BY <1>2, <1>3, <1>6, <1>7, Going DEF Quietly

LEMMA RerankEffect ==
  ASSUME TypeOK, NEW q \in Queries, Sound(run[q]), Rerank(q)
  PROVE  Quietly(q)
<1>1. PICK top \in kSubset(AtMost(PoolSize, run[q].pool), run[q].pool), scored \in BOOLEAN :
        Becomes(q, [run[q] EXCEPT !.at = "filter", !.pool = top, !.scored = scored, !.widened = FALSE])
  BY Zenon DEF Rerank
<1> DEFINE next == [run[q] EXCEPT !.at = "filter", !.pool = top, !.scored = scored, !.widened = FALSE]
<1>2. /\ run[q].at = "rerank" /\ Untouched(run[q]) /\ Unread(run[q]) /\ run[q].canon \in Canons
      /\ Distinct(run[q].pool)
  BY DEF Rerank, At, Sound, Early
<1>3. run[q] \in RunState /\ top \subseteq run[q].pool
  BY RowTyped DEF kSubset
<1>4. Becomes(q, next)
  BY Zenon, <1>1
<1>5. top \in SUBSET Note
  BY <1>3 DEF RunState
<1>6. /\ next \in RunState /\ next.at = "filter" /\ next.pool = top
      /\ SameBut(run[q], next, {"at", "pool"})
  BY <1>3, <1>5 DEF RunState, Nodes, SameBut
<1> HIDE DEF next
<1>7. Untouched(next) /\ Unread(next) /\ next.canon \in Canons
  BY <1>2, <1>6 DEF SameBut, Untouched, Unread
<1>8. Distinct(next.pool)
  BY <1>2, <1>3, <1>6 DEF Distinct
<1>9. Sound(next)
  BY <1>6, <1>7, <1>8, EarlySound DEF Early
<1>10. Quiet(run[q], next)
  BY <1>2, <1>6, <1>7, EarlyQuiet DEF Early
<1> QED
  BY <1>4, <1>6, <1>9, <1>10, Going DEF Quietly

LEMMA FilterEffect ==
  ASSUME TypeOK, NEW q \in Queries, Sound(run[q]), Filter(q)
  PROVE  Quietly(q)
<1>1. PICK set \in Passing(q) :
        \/ Becomes(q, [run[q] EXCEPT !.at = "assemble", !.pool = {}, !.scored = FALSE, !.status = "generic"])
        \/ Becomes(q, [run[q] EXCEPT !.pool = set, !.passed = set, !.scored = FALSE, !.status = "disabled",
                       !.at = IF "verify" \in Layers /\ set # {} THEN "verify" ELSE "assemble"])
  BY Zenon DEF Filter
<1>2. /\ run[q].at = "filter" /\ Untouched(run[q]) /\ Unread(run[q]) /\ run[q].canon \in Canons
      /\ Distinct(run[q].pool)
  BY DEF Filter, At, Sound, Early
<1>3. run[q] \in RunState /\ set \subseteq run[q].pool
  BY RowTyped DEF Passing, kSubset
<1>4. CASE Becomes(q, [run[q] EXCEPT !.at = "assemble", !.pool = {}, !.scored = FALSE, !.status = "generic"])
  <2> DEFINE next == [run[q] EXCEPT !.at = "assemble", !.pool = {}, !.scored = FALSE, !.status = "generic"]
  <2>1. /\ next \in RunState /\ next.at = "assemble" /\ next.pool = {} /\ next.status = "generic"
        /\ SameBut(run[q], next, {"at", "pool", "status"})
    BY <1>3 DEF RunState, Nodes, SameBut
  <2>2. Becomes(q, next)
    BY Zenon, <1>4
  <2> HIDE DEF next
  <2>3. /\ Unread(next) /\ next.canon \in Canons /\ next.after = {} /\ next.passed = {}
    BY <1>2, <2>1 DEF SameBut, Untouched, Unread
  <2>4. Sound(next)
    BY <2>1, <2>3 DEF Sound, Early, Unread, SubsOf
  <2>5. Quiet(run[q], next)
    BY <1>2, <2>1, <2>3 DEF Quiet, Judging, Done, Past
  <2> QED
    BY <2>1, <2>2, <2>4, <2>5, Going DEF Quietly
<1>5. CASE Becomes(q, [run[q] EXCEPT !.pool = set, !.passed = set, !.scored = FALSE, !.status = "disabled",
                       !.at = IF "verify" \in Layers /\ set # {} THEN "verify" ELSE "assemble"])
  <2> DEFINE at == IF "verify" \in Layers /\ set # {} THEN "verify" ELSE "assemble"
             next == [run[q] EXCEPT !.pool = set, !.passed = set, !.scored = FALSE,
                                    !.status = "disabled", !.at = at]
  <2>1. at \in {"verify", "assemble"}
    OBVIOUS
  <2>2. Becomes(q, next)
    BY Zenon, <1>5
  <2> HIDE DEF at
  <2>3. set \in SUBSET Note
    BY <1>3 DEF RunState
  <2>4. /\ next \in RunState /\ next.at = at /\ next.pool = set /\ next.passed = set /\ next.status = "disabled"
        /\ SameBut(run[q], next, {"at", "pool", "passed", "status"})
    BY <1>3, <2>1, <2>3 DEF RunState, Nodes, SameBut
  <2> HIDE DEF next
  <2>5. Unread(next) /\ next.canon \in Canons /\ next.after = {}
    BY <1>2, <2>4 DEF SameBut, Untouched, Unread
  <2>6. Distinct(next.pool)
    BY <1>2, <1>3, <2>4 DEF Distinct
  <2>7. Sound(next)
    BY <2>1, <2>4, <2>5, <2>6 DEF Sound, Early, Unread, SubsOf
  <2>8. Quiet(run[q], next)
    BY <1>2, <2>1, <2>4, <2>5 DEF Quiet, Judging, Done, Past
  <2> QED
    BY <2>2, <2>4, <2>7, <2>8, Going DEF Quietly
<1> QED
  BY Zenon, <1>1, <1>4, <1>5

LEMMA PassthroughEffect ==
  ASSUME TypeOK, NEW q \in Queries, Sound(run[q]), Passthrough(q)
  PROVE  Quietly(q)
<1> DEFINE next == [run[q] EXCEPT !.at = "assemble", !.status = "unverified", !.todo = {}]
<1>1. run[q] \in RunState
  BY RowTyped
<1>2. /\ next \in RunState /\ next.at = "assemble" /\ next.status = "unverified"
      /\ SameBut(run[q], next, {"at", "status", "todo"})
  BY <1>1 DEF RunState, Nodes, SameBut
<1>3. Becomes(q, next)
  BY Zenon DEF Passthrough
<1> HIDE DEF next
<1>4. /\ run[q].at \in {"verify", "judge"} /\ run[q].canon \in Canons /\ run[q].pool = run[q].passed
      /\ SubsOf(run[q].similar) \cap SubsOf(run[q].rejected) = {}
  BY DEF Passthrough, At, Sound
<1>5. Sound(next)
  BY <1>2, <1>4 DEF Sound, Early, SameBut
<1>6. Quiet(run[q], next)
  BY <1>2, <1>4 DEF Quiet, Judging, Done, Past, SameBut
<1> QED
  BY <1>2, <1>3, <1>5, <1>6, Going DEF Quietly

(* What passed the filter was judged similar or rejected, so the kept ones  *)
(* are exactly those not rejected.                                          *)
LEMMA VerifiedEffect ==
  ASSUME TypeOK, NEW q \in Queries, Sound(run[q]), Verified(q)
  PROVE  Quietly(q)
<1> DEFINE kept == {n \in run[q].pool : \E m \in run[q].similar : m.sub = n.sub}
           next == [run[q] EXCEPT !.at = "assemble", !.status = "verified", !.pool = kept]
<1>1. run[q] \in RunState
  BY RowTyped
<1>2. kept \in SUBSET Note
  BY <1>1 DEF RunState
<1>3. /\ run[q].at = "judge" /\ run[q].todo = {} /\ run[q].fresh = {}
      /\ run[q].canon \in Canons /\ run[q].pool = run[q].passed /\ Split(run[q])
      /\ SubsOf(run[q].similar) \cap SubsOf(run[q].rejected) = {}
  BY DEF Verified, At, Sound
<1>4. SubsOf(kept) = SubsOf(run[q].passed) \ SubsOf(run[q].rejected)
  BY <1>3 DEF Split, SubsOf
<1>5. Becomes(q, next)
  BY Zenon DEF Verified
<1> HIDE DEF kept
<1>6. /\ next \in RunState /\ next.at = "assemble" /\ next.status = "verified" /\ next.pool = kept
      /\ SameBut(run[q], next, {"at", "status", "pool"})
  BY <1>1, <1>2 DEF RunState, Nodes, SameBut
<1> HIDE DEF next
<1>7. Sound(next)
  BY <1>3, <1>4, <1>6 DEF Sound, Early, SameBut
<1>8. Quiet(run[q], next)
  BY <1>3, <1>6 DEF Quiet, Judging, Done, Past, SameBut
<1> QED
  BY <1>5, <1>6, <1>7, <1>8, Going DEF Quietly

LEMMA StoreFailsEffect ==
  ASSUME TypeOK, NEW q \in Queries, Sound(run[q]), StoreFails(q)
  PROVE  Quietly(q)
<1>1. PICK n \in run[q].fresh : Becomes(q, [run[q] EXCEPT !.fresh = @ \ {n}, !.blind = TRUE])
  BY Zenon DEF StoreFails
<1> DEFINE next == [run[q] EXCEPT !.fresh = @ \ {n}, !.blind = TRUE]
<1>2. run[q] \in RunState
  BY RowTyped
<1>3. /\ next \in RunState /\ next.blind = TRUE /\ next.fresh \subseteq run[q].fresh
      /\ SameBut(run[q], next, {"fresh", "blind"})
  BY <1>2 DEF RunState, SameBut
<1>4. Becomes(q, next)
  BY Zenon, <1>1
<1> HIDE DEF next
<1>5. /\ run[q].at = "judge" /\ run[q].canon \in Canons /\ run[q].pool = run[q].passed
      /\ Split(run[q]) /\ Distinct(run[q].pool) /\ run[q].status = "disabled"
      /\ SubsOf(run[q].similar) \cap SubsOf(run[q].rejected) = {}
  BY DEF StoreFails, At, Sound
<1>6. next.at = "judge" /\ next.status = "disabled" /\ next.after = run[q].after
  BY <1>3, <1>5 DEF SameBut
<1>7. Split(next)
  BY <1>3, <1>5 DEF Split, SameBut
<1>8. Sound(next)
  BY <1>3, <1>5, <1>6, <1>7 DEF Sound, Early, SameBut
<1>9. Quiet(run[q], next)
  BY <1>3, <1>5, <1>6 DEF Quiet, Done, Past, SameBut
<1> QED
  BY <1>3, <1>4, <1>8, <1>9, Going DEF Quietly

LEMMA ShownTyped == ASSUME TypeOK, NEW q \in Queries PROVE Shown(q) \in SUBSET Note
BY RowTyped, ActiveNow DEF Shown, RunState, Note

LEMMA AssembleEffect ==
  ASSUME TypeOK, NEW q \in Queries, Sound(run[q]), Assemble(q)
  PROVE  Quietly(q)
<1> DEFINE next == [run[q] EXCEPT !.at = "answered", !.passed = {}, !.pool = Shown(q)]
<1>1. run[q] \in RunState /\ Shown(q) \in SUBSET Note
  BY RowTyped, ShownTyped
<1>2. /\ next \in RunState /\ next.at = "answered"
      /\ SameBut(run[q], next, {"at", "passed", "pool"})
  BY <1>1 DEF RunState, Nodes, SameBut
<1>3. Becomes(q, next)
  BY Zenon DEF Assemble
<1> HIDE DEF next
<1>4. /\ run[q].at = "assemble" /\ run[q].canon \in Canons /\ (run[q].status = "verified" => run[q].fresh = {})
      /\ SubsOf(run[q].similar) \cap SubsOf(run[q].rejected) = {}
  BY DEF Assemble, At, Sound
<1>5. Sound(next)
  BY <1>2, <1>4 DEF Sound, Early, SameBut
<1>6. Quiet(run[q], next)
  BY <1>2, <1>4 DEF Quiet, Judging, Done, Past, SameBut
<1> QED
  BY <1>2, <1>3, <1>5, <1>6, Going DEF Quietly

LEMMA BreakEffect ==
  ASSUME TypeOK, NEW q \in Queries, Sound(run[q]), Break(q)
  PROVE  Quietly(q)
<1> DEFINE next == [NewRun EXCEPT !.at = "error"]
<1>1. /\ next \in RunState /\ next.at = "error" /\ SameBut(NewRun, next, {"at"})
  BY NewTyped DEF RunState, Nodes, SameBut
<1>2. Becomes(q, next)
  BY Zenon DEF Break
<1> HIDE DEF next
<1>3. Untouched(next) /\ Unread(next)
  BY <1>1 DEF NewRun, SameBut, Untouched, Unread
<1>4. Sound(next)
  BY <1>1, <1>3 DEF Sound, Early, Untouched, Unread, SubsOf
<1>5. Quiet(run[q], next)
  BY <1>1, <1>3 DEF Quiet, Judging, Done, Past, Untouched
<1> QED
  BY <1>1, <1>2, <1>4, <1>5, Going DEF Quietly

-----------------------------------------------------------------------------
(* The steps that judge.                                                    *)

SaidIn(c, s) == cache[c][s].verdict

LEMMA CacheTyped ==
  ASSUME TypeOK, NEW c \in Canons, NEW s \in Subs
  PROVE  /\ cache[c][s] \in [verdict: Verdict \cup {"none"}, of: Version, redone: BOOLEAN]
         /\ cache[c][s].verdict \in {"similar", "not_similar", "none"}
         /\ cache[c][s].of \in Version
BY DEF TypeOK, Verdict

LEMMA LookupEffect ==
  ASSUME TypeOK, NEW q \in Queries, Sound(run[q]), Lookup(q)
  PROVE  \E next \in RunState :
           /\ Goes(q, next) /\ Sound(next) /\ next.at = "judge" /\ next.canon = run[q].canon
           /\ next.fresh = {} /\ next.after = Finished /\ next.status = "disabled"
           /\ ~next.blind =>
                /\ \A s \in SubsOf(next.similar) : s \in Subs /\ SaidIn(run[q].canon, s) = "similar"
                /\ \A s \in SubsOf(next.rejected) : s \in Subs /\ SaidIn(run[q].canon, s) = "not_similar"
                /\ \A n \in next.todo : n.sub \in Subs /\ SaidIn(run[q].canon, n.sub) = "none"
<1>1. PICK blind \in BOOLEAN :
        LET known == IF blind THEN {} ELSE Known(q)
        IN  Becomes(q, [run[q] EXCEPT
              !.at = "judge", !.todo = run[q].pool \ known, !.blind = blind, !.after = Finished,
              !.similar = {Judged(q, n) : n \in {n \in known : SaidOf(q, n) = "similar"}},
              !.rejected = {Judged(q, n) : n \in {n \in known : SaidOf(q, n) = "not_similar"}}])
  BY Zenon DEF Lookup
<1> DEFINE known == IF blind THEN {} ELSE Known(q)
           todo == run[q].pool \ known
           similar == {Judged(q, n) : n \in {n \in known : SaidOf(q, n) = "similar"}}
           rejected == {Judged(q, n) : n \in {n \in known : SaidOf(q, n) = "not_similar"}}
           next == [run[q] EXCEPT !.at = "judge", !.todo = todo, !.blind = blind, !.after = Finished,
                                  !.similar = similar, !.rejected = rejected]
<1>2. Becomes(q, next)
  BY Zenon, <1>1
<1>3. /\ run[q].at = "verify" /\ run[q].status = "disabled" /\ run[q].canon \in Canons
      /\ Distinct(run[q].pool) /\ run[q].pool = run[q].passed /\ run[q].fresh = {}
  BY DEF Lookup, At, Sound, Unread
<1>4. run[q] \in RunState /\ run[q].pool \in SUBSET Note /\ Finished \in SUBSET Queries
  BY RowTyped DEF RunState, Finished
<1>5. known \subseteq run[q].pool /\ (blind => known = {}) /\ (~blind => known = Known(q))
  BY DEF Known
<1>6. \A n \in known : n.sub \in Subs /\ Judged(q, n) \in Note /\ Judged(q, n).sub = n.sub
  BY <1>3, <1>4, <1>5, CacheTyped DEF Judged, Note
<1>7. \A n \in run[q].pool : n.sub \in Subs
  BY <1>4 DEF Note
<1>8. todo \in SUBSET Note /\ similar \in SUBSET Note /\ rejected \in SUBSET Note
  BY <1>4, <1>6
<1>9. /\ \A s \in SubsOf(similar) : s \in Subs /\ SaidIn(run[q].canon, s) = "similar" /\ (\E n \in known : n.sub = s)
      /\ \A s \in SubsOf(rejected) : s \in Subs /\ SaidIn(run[q].canon, s) = "not_similar" /\ (\E n \in known : n.sub = s)
  BY <1>6 DEF SubsOf, SaidOf, SaidIn
<1>10. \A n \in known : n.sub \in SubsOf(similar) \cup SubsOf(rejected)
  <2> SUFFICES ASSUME NEW n \in known
               PROVE  n.sub \in SubsOf(similar) \cup SubsOf(rejected)
    OBVIOUS
  <2>1. SaidOf(q, n) \in {"similar", "not_similar"}
    BY <1>3, <1>5, <1>6, CacheTyped DEF Known, SaidOf
  <2> QED
    BY <2>1, <1>6 DEF SubsOf
<1>11. ~blind => \A n \in todo : n.sub \in Subs /\ SaidIn(run[q].canon, n.sub) = "none"
  BY <1>5, <1>7 DEF Known, SaidIn
<1>12. \A n \in todo : n.sub \notin SubsOf(similar) \cup SubsOf(rejected)
  BY <1>3, <1>5, <1>9 DEF Distinct
<1>13. SubsOf(similar) \cap SubsOf(rejected) = {}
  BY <1>9
<1> HIDE DEF known, todo, similar, rejected
<1>14. /\ next \in RunState /\ next.at = "judge" /\ next.todo = todo /\ next.blind = blind
       /\ next.after = Finished /\ next.similar = similar /\ next.rejected = rejected
       /\ SameBut(run[q], next, {"at", "todo", "blind", "after", "similar", "rejected"})
  BY <1>4, <1>8 DEF RunState, Nodes, SameBut
<1> HIDE DEF next
<1>15. next.pool = run[q].pool /\ next.passed = run[q].pool /\ next.canon = run[q].canon
       /\ next.fresh = {} /\ next.status = "disabled"
  BY <1>3, <1>14 DEF SameBut
<1>16. Split(next)
  BY <1>10, <1>12, <1>14, <1>15 DEF Split, todo
<1>17. Sound(next)
  BY <1>3, <1>13, <1>14, <1>15, <1>16 DEF Sound, Early
<1> QED
  BY <1>2, <1>9, <1>11, <1>14, <1>15, <1>17, Going

LEMMA JudgeEffect ==
  ASSUME TypeOK, NEW q \in Queries, Sound(run[q]), Judge(q)
  PROVE  \E next \in RunState : \E chunk \in SUBSET run[q].todo :
           /\ Goes(q, next) /\ Sound(next) /\ next.at = "judge" /\ next.canon = run[q].canon
           /\ next.todo = run[q].todo \ chunk /\ next.fresh = chunk /\ next.pool = run[q].pool
           /\ next.after = run[q].after /\ next.status = "disabled" /\ next.blind = run[q].blind
           /\ next.similar \subseteq run[q].similar \cup chunk
           /\ next.rejected \subseteq run[q].rejected \cup chunk
           /\ SubsOf(next.similar) \subseteq SubsOf(run[q].similar) \cup SubsOf(chunk)
           /\ SubsOf(next.rejected) \subseteq SubsOf(run[q].rejected) \cup SubsOf(chunk)
<1>1. PICK chunk \in kSubset(AtMost(Batch, run[q].todo), run[q].todo) : \E yes \in SUBSET chunk :
        Becomes(q, [run[q] EXCEPT !.todo = @ \ chunk, !.fresh = chunk,
                                  !.similar = @ \cup yes, !.rejected = @ \cup (chunk \ yes)])
  BY Zenon DEF Judge
<1>2. PICK yes \in SUBSET chunk :
        Becomes(q, [run[q] EXCEPT !.todo = @ \ chunk, !.fresh = chunk,
                                  !.similar = @ \cup yes, !.rejected = @ \cup (chunk \ yes)])
  BY Zenon, <1>1
<1> DEFINE next == [run[q] EXCEPT !.todo = @ \ chunk, !.fresh = chunk,
                                  !.similar = @ \cup yes, !.rejected = @ \cup (chunk \ yes)]
<1>3. chunk \in SUBSET run[q].todo
  BY DEF kSubset
<1>4. /\ run[q].at = "judge" /\ run[q].status = "disabled" /\ run[q].canon \in Canons /\ run[q].fresh = {}
      /\ Distinct(run[q].pool) /\ run[q].pool = run[q].passed /\ Split(run[q])
      /\ SubsOf(run[q].similar) \cap SubsOf(run[q].rejected) = {}
  BY DEF Judge, At, Sound
<1>5. run[q] \in RunState
  BY RowTyped
<1>6. Becomes(q, next)
  BY Zenon, <1>2
<1>7. chunk \in SUBSET Note /\ yes \in SUBSET Note
  BY <1>3, <1>5 DEF RunState
<1>8. /\ next \in RunState /\ next.todo = run[q].todo \ chunk /\ next.fresh = chunk
      /\ next.similar = run[q].similar \cup yes /\ next.rejected = run[q].rejected \cup (chunk \ yes)
      /\ SameBut(run[q], next, {"todo", "fresh", "similar", "rejected"})
  BY <1>5, <1>7 DEF RunState, SameBut
<1> HIDE DEF next
<1>9. /\ next.pool = run[q].pool /\ next.passed = run[q].pool /\ next.canon = run[q].canon
      /\ next.at = "judge" /\ next.status = "disabled" /\ next.after = run[q].after
      /\ next.blind = run[q].blind
  BY <1>4, <1>8 DEF SameBut
<1>10. \A m, n \in run[q].todo : m.sub = n.sub => m = n
  BY <1>4 DEF Split, Distinct
<1>11. SubsOf(next.similar) \cap SubsOf(next.rejected) = {}
  <2>1. SubsOf(next.similar) = SubsOf(run[q].similar) \cup SubsOf(yes)
    BY <1>8 DEF SubsOf
  <2>2. SubsOf(next.rejected) = SubsOf(run[q].rejected) \cup SubsOf(chunk \ yes)
    BY <1>8 DEF SubsOf
  <2>3. SubsOf(yes) \cap SubsOf(chunk \ yes) = {}
    BY <1>3, <1>10 DEF SubsOf
  <2>4. \A s \in SubsOf(chunk) : s \notin SubsOf(run[q].similar) \cup SubsOf(run[q].rejected)
    BY <1>3, <1>4 DEF Split, SubsOf
  <2>5. SubsOf(yes) \subseteq SubsOf(chunk) /\ SubsOf(chunk \ yes) \subseteq SubsOf(chunk)
    BY DEF SubsOf
  <2> QED
    BY <1>4, <2>1, <2>2, <2>3, <2>4, <2>5
<1>12. Split(next)
  <2>1. next.todo \subseteq next.pool /\ next.fresh \subseteq next.similar \cup next.rejected
    BY <1>4, <1>8, <1>9 DEF Split
  <2>2. SubsOf(next.similar) \cup SubsOf(next.rejected)
          = SubsOf(run[q].similar) \cup SubsOf(run[q].rejected) \cup SubsOf(chunk)
    BY <1>8 DEF SubsOf
  <2>3. \A n \in next.pool \ next.todo : n.sub \in SubsOf(next.similar) \cup SubsOf(next.rejected)
    BY <1>3, <1>4, <1>8, <1>9, <2>2 DEF Split, SubsOf
  <2>4. \A n \in next.todo : n.sub \notin SubsOf(chunk)
    BY <1>3, <1>8, <1>10 DEF SubsOf
  <2>5. \A n \in next.todo : n.sub \notin SubsOf(next.similar) \cup SubsOf(next.rejected)
    BY <1>4, <1>8, <2>2, <2>4 DEF Split
  <2> QED
    BY <2>1, <2>3, <2>5 DEF Split
<1>13. Sound(next)
  BY <1>4, <1>8, <1>9, <1>11, <1>12 DEF Sound, Early
<1>14. /\ SubsOf(next.similar) \subseteq SubsOf(run[q].similar) \cup SubsOf(chunk)
       /\ SubsOf(next.rejected) \subseteq SubsOf(run[q].rejected) \cup SubsOf(chunk)
  BY <1>8 DEF SubsOf
<1> QED
  BY <1>3, <1>6, <1>8, <1>9, <1>13, <1>14, Going

LEMMA StoreEffect ==
  ASSUME TypeOK, NEW q \in Queries, Sound(run[q]), Store(q)
  PROVE  \E next \in RunState : \E n \in run[q].fresh :
           /\ Goes(q, next) /\ Sound(next) /\ n.sub \in Subs
           /\ next.fresh = run[q].fresh \ {n}
           /\ SameBut(run[q], next, {"fresh"}) /\ next.at = "judge" /\ next.status = "disabled"
           /\ cache' = [cache EXCEPT ![run[q].canon][n.sub] = Stored(q, n)]
           /\ Stored(q, n) \in [verdict: Verdict \cup {"none"}, of: Version, redone: BOOLEAN]
<1>1. PICK n \in run[q].fresh :
        /\ cache' = [cache EXCEPT ![run[q].canon][n.sub] = Stored(q, n)]
        /\ Becomes(q, [run[q] EXCEPT !.fresh = @ \ {n}])
  BY Zenon DEF Store
<1> DEFINE next == [run[q] EXCEPT !.fresh = @ \ {n}]
<1>2. run[q] \in RunState /\ n \in Note
  BY RowTyped DEF RunState
<1>3. /\ next \in RunState /\ next.fresh = run[q].fresh \ {n} /\ SameBut(run[q], next, {"fresh"})
  BY <1>2 DEF RunState, SameBut
<1>4. Becomes(q, next)
  BY Zenon, <1>1
<1> HIDE DEF next
<1>5. /\ run[q].at = "judge" /\ run[q].canon \in Canons /\ run[q].pool = run[q].passed
      /\ Split(run[q]) /\ Distinct(run[q].pool) /\ run[q].status = "disabled"
      /\ SubsOf(run[q].similar) \cap SubsOf(run[q].rejected) = {}
  BY DEF Store, At, Sound
<1>6. next.at = "judge" /\ next.status = "disabled"
  BY <1>3, <1>5 DEF SameBut
<1>7. Split(next)
  BY <1>3, <1>5 DEF Split, SameBut
<1>8. Sound(next)
  BY <1>3, <1>5, <1>6, <1>7 DEF Sound, Early, SameBut
<1>9. Stored(q, n) \in [verdict: Verdict \cup {"none"}, of: Version, redone: BOOLEAN] /\ n.sub \in Subs
  BY <1>2 DEF Stored, Said, Verdict, Note
<1> QED
  BY <1>1, <1>3, <1>4, <1>6, <1>8, <1>9, Going

-----------------------------------------------------------------------------
(* What requests and cache have to do with each other.                      *)

Redone(c, s) == cache[c][s].redone

(* A verdict that replaced another one is one.                              *)
CacheShape == \A c \in Canons, s \in Subs : Redone(c, s) => SaidIn(c, s) # "none"

(* What a request judged or read is in the cache, or was judged once more,  *)
(* or is about to be stored.                                                *)
Remembers(r) ==
  Judging(r) /\ ~r.blind =>
    /\ \A n \in r.similar \ r.fresh : Redone(r.canon, n.sub) \/ SaidIn(r.canon, n.sub) = "similar"
    /\ \A n \in r.rejected \ r.fresh : Redone(r.canon, n.sub) \/ SaidIn(r.canon, n.sub) = "not_similar"

Differing(r, o) ==
  (SubsOf(o.similar) \cap SubsOf(r.rejected)) \cup (SubsOf(o.rejected) \cap SubsOf(r.similar))

(* Request r looked the cache up after o was verified for the same query.   *)
Follows(r, o) ==
  /\ Judging(r) /\ ~r.blind
  /\ o.status = "verified" /\ ~o.blind /\ o.canon = r.canon

Agrees(r, o) ==
  Follows(r, o) =>
    /\ \A n \in r.todo : n.sub \notin SubsOf(o.similar) \cup SubsOf(o.rejected)
    /\ \A s \in Differing(r, o) : Redone(r.canon, s)

Cross ==
  /\ CacheShape
  /\ \A q \in Queries : Remembers(run[q])
  /\ \A q \in Queries : \A p \in run[q].after : Done(run[p]) /\ Agrees(run[q], run[p])

GraphInv == TypeOK /\ (\A q \in Queries : Sound(run[q])) /\ Cross

LEMMA InitInv == Init => GraphInv
<1> SUFFICES ASSUME Init
             PROVE  GraphInv
  OBVIOUS
<1>1. run \in [Queries -> RunState] /\ \A q \in Queries : run[q] = NewRun /\ Sound(run[q])
  BY NewTyped DEF Init
<1>2. TypeOK
  BY <1>1, RetrievalAssumption DEF Init, TypeOK, Version, Unjudged, Verdict
<1>3. \A c \in Canons, s \in Subs : ~Redone(c, s)
  BY DEF Init, Redone, Unjudged
<1>4. NewRun.at = "new" /\ NewRun.status = "none" /\ NewRun.after = {}
  BY DEF NewRun
<1>5. Cross
  BY <1>1, <1>3, <1>4 DEF Cross, CacheShape, Remembers, Judging
<1> QED
  BY <1>1, <1>2, <1>5 DEF GraphInv

LEMMA AfterTyped == ASSUME TypeOK, NEW q \in Queries PROVE run[q].after \subseteq Queries
BY RowTyped DEF RunState

(* A step that judged nothing leaves Cross alone.                           *)
LEMMA QuietKeeps ==
  ASSUME GraphInv, NEW q \in Queries, Quietly(q), UNCHANGED cache
  PROVE  Cross'
<1>1. PICK next \in RunState : Goes(q, next) /\ Sound(next) /\ Quiet(run[q], next)
  BY DEF Quietly
<1> USE DEF GraphInv, Cross
<1>2. CacheShape'
  BY DEF CacheShape, Redone, SaidIn
<1>3. ASSUME NEW p \in Queries
      PROVE  Remembers(run[p])'
  <2>1. CASE p # q
    <3>1. run'[p] = run[p]
      BY <1>1, <2>1 DEF Goes
    <3> QED
      BY <3>1 DEF Remembers, Redone, SaidIn
  <2>2. CASE p = q
    <3>1. run'[p] = next /\ Remembers(run[q])
      BY <1>1, <2>2 DEF Goes
    <3>2. Judging(next) /\ ~next.blind =>
            /\ Judging(run[q]) /\ ~run[q].blind /\ next.canon = run[q].canon
            /\ next.fresh = run[q].fresh /\ next.similar = run[q].similar /\ next.rejected = run[q].rejected
      BY <1>1 DEF Quiet
    <3> QED
      BY <3>1, <3>2 DEF Remembers, Redone, SaidIn
  <2> QED
    BY <2>1, <2>2
<1>4. ASSUME NEW p \in Queries
      PROVE  /\ run'[p].after \subseteq run[p].after
             /\ Judging(run'[p]) /\ ~run'[p].blind =>
                  /\ Judging(run[p]) /\ ~run[p].blind /\ run'[p].canon = run[p].canon
                  /\ run'[p].todo \subseteq run[p].todo
                  /\ run'[p].similar = run[p].similar /\ run'[p].rejected = run[p].rejected
             /\ Done(run[p]) => Done(run'[p])
             /\ run'[p].status = "verified" => run[p].status = "verified" \/ run[p].at = "judge"
  BY <1>1 DEF Goes, Quiet
<1>5. ASSUME NEW p \in Queries, NEW o \in run'[p].after
      PROVE  Done(run'[o]) /\ Agrees(run[p], run[o])'
  <2>1. o \in run[p].after /\ o \in Queries
    BY <1>4, AfterTyped
  <2>2. Done(run[o]) /\ Done(run'[o]) /\ Agrees(run[p], run[o])
    BY <1>4, <2>1
  <2>3. ASSUME Follows(run'[p], run'[o])
        PROVE  /\ Follows(run[p], run[o]) /\ run'[p].canon = run[p].canon
               /\ run'[p].todo \subseteq run[p].todo
               /\ run'[p].similar = run[p].similar /\ run'[p].rejected = run[p].rejected
               /\ run'[o].similar = run[o].similar /\ run'[o].rejected = run[o].rejected
    <3>1. Judging(run'[o]) /\ ~run'[o].blind
      BY <2>3 DEF Follows, Judging
    <3>2. run[o].status = "verified"
      BY <1>4, <2>1, <2>2, <2>3 DEF Follows, Done, Past
    <3> QED
      BY <1>4, <2>1, <2>3, <3>1, <3>2 DEF Follows
  <2>4. Agrees(run'[p], run'[o])
    BY <2>2, <2>3 DEF Agrees, Differing
  <2> QED
    BY <2>2, <2>4 DEF Agrees, Follows, Redone, Judging, Differing
<1> QED
  BY <1>2, <1>3, <1>5

(* A request that reads the cache agrees with the ones verified before it.  *)
LEMMA LookupKeeps ==
  ASSUME GraphInv, NEW q \in Queries, Lookup(q)
  PROVE  Cross'
<1> USE DEF GraphInv, Cross
<1>1. PICK next \in RunState :
        /\ Goes(q, next) /\ Sound(next) /\ next.at = "judge" /\ next.canon = run[q].canon
        /\ next.fresh = {} /\ next.after = Finished /\ next.status = "disabled"
        /\ ~next.blind =>
             /\ \A s \in SubsOf(next.similar) : s \in Subs /\ SaidIn(run[q].canon, s) = "similar"
             /\ \A s \in SubsOf(next.rejected) : s \in Subs /\ SaidIn(run[q].canon, s) = "not_similar"
             /\ \A n \in next.todo : n.sub \in Subs /\ SaidIn(run[q].canon, n.sub) = "none"
  BY LookupEffect
<1>2. cache' = cache /\ run[q].at = "verify" /\ run[q].canon \in Canons /\ run[q].status = "disabled"
  BY DEF Lookup, InGraph, At, Sound
<1>3. CacheShape'
  BY <1>2 DEF CacheShape, Redone, SaidIn
<1>4. run'[q] = next /\ \A p \in Queries : p # q => run'[p] = run[p]
  BY <1>1 DEF Goes
<1>5. ASSUME NEW p \in Queries
      PROVE  Remembers(run[p])'
  <2>1. CASE p # q
    BY <1>2, <1>4, <2>1 DEF Remembers, Redone, SaidIn
  <2>2. CASE p = q
    BY <1>1, <1>2, <1>4, <2>2 DEF Remembers, Redone, SaidIn, SubsOf
  <2> QED
    BY <2>1, <2>2
<1>6. ASSUME NEW p \in Queries, p # q, NEW o \in run'[p].after
      PROVE  Done(run'[o]) /\ Agrees(run[p], run[o])'
  <2>1. o \in run[p].after /\ o \in Queries /\ Done(run[o]) /\ Agrees(run[p], run[o])
    BY <1>4, <1>6, AfterTyped
  <2>2. o # q
    BY <1>2, <2>1 DEF Done, Past
  <2>3. run'[o] = run[o] /\ run'[p] = run[p]
    BY <1>4, <1>6, <2>1, <2>2
  <2> QED
    BY <1>2, <2>1, <2>3 DEF Agrees, Follows, Redone, Differing, Judging
<1>7. ASSUME NEW o \in run'[q].after
      PROVE  Done(run'[o]) /\ Agrees(run[q], run[o])'
  <2>1. o \in Queries /\ run[o].status = "verified"
    BY <1>1, <1>4, <1>7 DEF Finished
  <2>2. o # q /\ run'[o] = run[o] /\ Done(run[o]) /\ run[o].fresh = {} /\ Remembers(run[o])
    BY <1>2, <1>4, <2>1 DEF Sound, Done, Past
  <2>3. ASSUME Follows(next, run[o])
        PROVE  /\ \A n \in next.todo : n.sub \notin SubsOf(run[o].similar) \cup SubsOf(run[o].rejected)
               /\ \A s \in Differing(next, run[o]) : Redone(next.canon, s)
    <3>1. ~next.blind /\ ~run[o].blind /\ run[o].canon = run[q].canon /\ next.canon = run[q].canon
      BY <1>1, <2>3 DEF Follows
    <3>2. /\ \A s \in SubsOf(run[o].similar) : Redone(run[q].canon, s) \/ SaidIn(run[q].canon, s) = "similar"
          /\ \A s \in SubsOf(run[o].rejected) : Redone(run[q].canon, s) \/ SaidIn(run[q].canon, s) = "not_similar"
      BY <2>1, <2>2, <3>1 DEF Remembers, Judging, SubsOf
    <3>3. \A n \in next.todo : ~Redone(run[q].canon, n.sub)
      BY <1>1, <1>2, <3>1 DEF CacheShape
    <3> QED
      BY <1>1, <3>1, <3>2, <3>3 DEF Differing
  <2> QED
    BY <1>2, <1>4, <2>2, <2>3 DEF Agrees, Redone, Follows, Differing, Judging
<1> QED
  BY <1>3, <1>5, <1>6, <1>7

LEMMA JudgeKeeps ==
  ASSUME GraphInv, NEW q \in Queries, Judge(q)
  PROVE  Cross'
<1> USE DEF GraphInv, Cross
<1>1. PICK next \in RunState : \E chunk \in SUBSET run[q].todo :
        /\ Goes(q, next) /\ Sound(next) /\ next.at = "judge" /\ next.canon = run[q].canon
        /\ next.todo = run[q].todo \ chunk /\ next.fresh = chunk
        /\ next.after = run[q].after /\ next.status = "disabled" /\ next.blind = run[q].blind
        /\ next.similar \subseteq run[q].similar \cup chunk
        /\ next.rejected \subseteq run[q].rejected \cup chunk
        /\ SubsOf(next.similar) \subseteq SubsOf(run[q].similar) \cup SubsOf(chunk)
        /\ SubsOf(next.rejected) \subseteq SubsOf(run[q].rejected) \cup SubsOf(chunk)
  BY JudgeEffect
<1>2. PICK chunk \in SUBSET run[q].todo :
        /\ Goes(q, next) /\ next.at = "judge" /\ next.canon = run[q].canon
        /\ next.todo = run[q].todo \ chunk /\ next.fresh = chunk
        /\ next.after = run[q].after /\ next.blind = run[q].blind
        /\ next.similar \subseteq run[q].similar \cup chunk
        /\ next.rejected \subseteq run[q].rejected \cup chunk
        /\ SubsOf(next.similar) \subseteq SubsOf(run[q].similar) \cup SubsOf(chunk)
        /\ SubsOf(next.rejected) \subseteq SubsOf(run[q].rejected) \cup SubsOf(chunk)
  BY <1>1
<1>3. cache' = cache /\ run[q].at = "judge" /\ run[q].fresh = {}
  BY DEF Judge, InGraph, At
<1>4. CacheShape'
  BY <1>3 DEF CacheShape, Redone, SaidIn
<1>5. run'[q] = next /\ \A p \in Queries : p # q => run'[p] = run[p]
  BY <1>2 DEF Goes
<1>6. ASSUME NEW p \in Queries
      PROVE  Remembers(run[p])'
  <2>1. CASE p # q
    BY <1>3, <1>5, <2>1 DEF Remembers, Redone, SaidIn
  <2>2. CASE p = q
    <3> SUFFICES ASSUME ~next.blind PROVE Remembers(next)'
      BY <1>5, <2>2 DEF Remembers
    <3>1. Remembers(run[q]) /\ Judging(run[q]) /\ ~run[q].blind
      BY <1>2, <1>3 DEF Judging
    <3>2. /\ next.similar \ next.fresh \subseteq run[q].similar \ run[q].fresh
          /\ next.rejected \ next.fresh \subseteq run[q].rejected \ run[q].fresh
      BY <1>2, <1>3
    <3>3. next.canon = run[q].canon
      BY <1>2
    <3> QED
      BY <1>3, <3>1, <3>2, <3>3 DEF Remembers, Redone, SaidIn
  <2> QED
    BY <2>1, <2>2
<1>7. ASSUME NEW p \in Queries, NEW o \in run'[p].after
      PROVE  Done(run'[o]) /\ Agrees(run[p], run[o])'
  <2>1. o \in run[p].after
    BY <1>2, <1>5
  <2>2. o \in Queries /\ Done(run[o]) /\ Agrees(run[p], run[o])
    BY <2>1, AfterTyped
  <2>3. run'[o] = run[o]
    BY <1>3, <1>5, <2>2 DEF Done, Past
  <2>4. CASE p # q
    BY <1>3, <1>5, <2>2, <2>3, <2>4 DEF Agrees, Follows, Redone, Differing, Judging
  <2>5. CASE p = q
    <3>1. ASSUME Follows(next, run[o])
          PROVE  /\ \A n \in next.todo : n.sub \notin SubsOf(run[o].similar) \cup SubsOf(run[o].rejected)
                 /\ \A s \in Differing(next, run[o]) : Redone(next.canon, s)
      <4>1. Follows(run[q], run[o])
        BY <1>2, <1>3, <3>1 DEF Follows, Judging
      <4>2. \A n \in run[q].todo : n.sub \notin SubsOf(run[o].similar) \cup SubsOf(run[o].rejected)
        BY <2>2, <2>5, <4>1 DEF Agrees
      <4>3. \A s \in SubsOf(chunk) : s \notin SubsOf(run[o].similar) \cup SubsOf(run[o].rejected)
        BY <4>2 DEF SubsOf
      <4>4. Differing(next, run[o]) \subseteq Differing(run[q], run[o])
        BY <1>2, <4>3 DEF Differing
      <4> QED
        BY <1>2, <2>2, <2>5, <4>1, <4>2, <4>4 DEF Agrees
    <3> QED
      BY <1>3, <1>5, <2>2, <2>3, <2>5, <3>1 DEF Agrees, Redone, Follows, Differing, Judging
  <2> QED
    BY <2>4, <2>5
<1> QED
  BY <1>4, <1>6, <1>7

LEMMA StoreKeeps ==
  ASSUME GraphInv, NEW q \in Queries, Store(q)
  PROVE  Cross'
<1> USE DEF GraphInv, Cross
<1>1. PICK next \in RunState, n \in run[q].fresh :
        /\ Goes(q, next) /\ Sound(next) /\ n.sub \in Subs
        /\ next.fresh = run[q].fresh \ {n}
        /\ SameBut(run[q], next, {"fresh"}) /\ next.at = "judge" /\ next.status = "disabled"
        /\ cache' = [cache EXCEPT ![run[q].canon][n.sub] = Stored(q, n)]
        /\ Stored(q, n) \in [verdict: Verdict \cup {"none"}, of: Version, redone: BOOLEAN]
  BY StoreEffect
<1>judging. run[q].at = "judge" /\ run[q].canon \in Canons
  BY DEF Store, At, Sound
<1>place. PICK c \in Canons, s \in Subs : c = run[q].canon /\ s = n.sub
  BY <1>1, <1>judging
<1>2. run[q].at = "judge" /\ c = run[q].canon /\ s = n.sub
  BY <1>judging, <1>place
<1>3. run'[q] = next /\ \A p \in Queries : p # q => run'[p] = run[p]
  BY <1>1 DEF Goes
<1>4. /\ SaidIn(c, s)' = Said(q, n) /\ Redone(c, s)' = (SaidIn(c, s) # "none")
      /\ \A d \in Canons, t \in Subs :
           d # c \/ t # s => SaidIn(d, t)' = SaidIn(d, t) /\ Redone(d, t)' = Redone(d, t)
  <2>1. cache' \in [Canons -> [Subs -> [verdict: Verdict \cup {"none"}, of: Version, redone: BOOLEAN]]]
    BY <1>1, <1>2 DEF TypeOK
  <2>2. cache'[c][s] = Stored(q, n)
    BY <1>1, <1>2 DEF TypeOK
  <2>3. \A d \in Canons, t \in Subs : d # c \/ t # s => cache'[d][t] = cache[d][t]
    BY <1>1, <1>2 DEF TypeOK
  <2>4. Stored(q, n) = [verdict |-> Said(q, n), of |-> n.text, redone |-> cache[c][s].verdict # "none"]
    BY <1>2 DEF Stored
  <2>5. cache'[c][s].verdict = Said(q, n) /\ cache'[c][s].redone = (cache[c][s].verdict # "none")
    BY <2>2, <2>4
  <2> QED
    BY <2>3, <2>5 DEF SaidIn, Redone
<1>5. Said(q, n) \in {"similar", "not_similar"} /\ Said(q, n) # "none"
  BY DEF Said
<1>6. CacheShape'
  BY <1>2, <1>4, <1>5 DEF CacheShape
<1>7. \A d \in Canons, t \in Subs : Redone(d, t) => Redone(d, t)'
  BY <1>2, <1>4 DEF CacheShape
<1>8. \A d \in Canons, t \in Subs : \A said \in {"similar", "not_similar"} :
        Redone(d, t) \/ SaidIn(d, t) = said => Redone(d, t)' \/ SaidIn(d, t)' = said
  BY <1>4, <1>7
<1>9. next.similar = run[q].similar /\ next.rejected = run[q].rejected /\ next.canon = c
      /\ next.blind = run[q].blind /\ next.after = run[q].after /\ next.todo = run[q].todo
  BY <1>1, <1>2 DEF SameBut
<1>10. ASSUME NEW p \in Queries
       PROVE  /\ \A m \in run[p].similar \cup run[p].rejected : m.sub \in Subs
              /\ Judging(run[p]) => run[p].canon \in Canons
  BY RowTyped DEF RunState, Note, Judging, Sound
<1>11. ASSUME NEW p \in Queries
       PROVE  Remembers(run[p])'
  <2>1. CASE p # q
    <3>1. run'[p] = run[p] /\ Remembers(run[p])
      BY <1>3, <2>1
    <3>2. Remembers(run[p]) => Remembers(run[p])'
      BY <1>8, <1>10, <3>1 DEF Remembers
    <3> QED
      BY <3>1, <3>2
  <2>2. CASE p = q
    <3>1. Judging(run[q]) /\ run[q].canon = c
      BY <1>2 DEF Judging
    <3>2. ASSUME ~next.blind, NEW m \in next.similar \ next.fresh
          PROVE  Redone(c, m.sub)' \/ SaidIn(c, m.sub)' = "similar"
      <4>1. CASE m = n
        BY <1>2, <1>4, <1>9, <3>2, <4>1 DEF Said
      <4>2. CASE m # n
        <5>1. m \in run[q].similar \ run[q].fresh /\ ~run[q].blind
          BY <1>1, <1>9, <3>2, <4>2
        <5> QED
          BY <1>2, <1>8, <1>10, <3>1, <5>1 DEF Remembers
      <4> QED
        BY <4>1, <4>2
    <3>3. ASSUME ~next.blind, NEW m \in next.rejected \ next.fresh
          PROVE  Redone(c, m.sub)' \/ SaidIn(c, m.sub)' = "not_similar"
      <4>1. CASE m = n
        <5>1. m \in run[q].rejected /\ SubsOf(run[q].similar) \cap SubsOf(run[q].rejected) = {}
          BY <1>9, <3>3 DEF Sound
        <5>2. n \notin run[q].similar
          BY <4>1, <5>1 DEF SubsOf
        <5> QED
          BY <1>2, <1>4, <4>1, <5>2 DEF Said
      <4>2. CASE m # n
        <5>1. m \in run[q].rejected \ run[q].fresh /\ ~run[q].blind
          BY <1>1, <1>9, <3>3, <4>2
        <5> QED
          BY <1>2, <1>8, <1>10, <3>1, <5>1 DEF Remembers
      <4> QED
        BY <4>1, <4>2
    <3> QED
      BY <1>3, <1>9, <2>2, <3>2, <3>3 DEF Remembers
  <2> QED
    BY <2>1, <2>2
<1>12. ASSUME NEW p \in Queries, NEW o \in run'[p].after
       PROVE  Done(run'[o]) /\ Agrees(run[p], run[o])'
  <2>1. o \in run[p].after
    BY <1>3, <1>9
  <2>2. o \in Queries /\ Done(run[o]) /\ Agrees(run[p], run[o])
    BY <2>1, AfterTyped
  <2>3. run'[o] = run[o]
    BY <1>2, <1>3, <2>2 DEF Done, Past
  <2>4. /\ Judging(run'[p]) => Judging(run[p])
        /\ run'[p].blind = run[p].blind /\ run'[p].canon = run[p].canon /\ run'[p].todo = run[p].todo
        /\ run'[p].similar = run[p].similar /\ run'[p].rejected = run[p].rejected
    <3>1. Judging(run[q])
      BY <1>2 DEF Judging
    <3> QED
      BY <1>2, <1>3, <1>9, <3>1
  <2>5. ASSUME Follows(run'[p], run'[o])
        PROVE  /\ \A m \in run'[p].todo : m.sub \notin SubsOf(run'[o].similar) \cup SubsOf(run'[o].rejected)
               /\ \A t \in Differing(run'[p], run'[o]) : t \in Subs /\ Redone(run[p].canon, t) /\ run[p].canon \in Canons
    <3>1. Follows(run[p], run[o])
      BY <2>3, <2>4, <2>5 DEF Follows
    <3>2. Differing(run'[p], run'[o]) = Differing(run[p], run[o])
      BY <2>3, <2>4 DEF Differing
    <3>3. Differing(run[p], run[o]) \subseteq Subs /\ run[p].canon \in Canons
      BY <1>10, <3>1 DEF Differing, SubsOf, Follows
    <3> QED
      BY <2>2, <2>3, <2>4, <3>1, <3>2, <3>3 DEF Agrees
  <2>6. \A d \in Canons, t \in Subs : cache[d][t].redone => cache'[d][t].redone
    BY <1>7 DEF Redone
  <2>7. \A t \in Differing(run'[p], run'[o]) :
          Follows(run'[p], run'[o]) => cache'[run[p].canon][t].redone
    BY <2>5, <2>6 DEF Redone
  <2> QED
    BY <2>2, <2>3, <2>4, <2>5, <2>7 DEF Agrees, Redone, Follows, Differing, Judging
<1> QED
  BY <1>6, <1>11, <1>12

-----------------------------------------------------------------------------
(* All steps.                                                               *)

QuietStep(q) ==
  \/ \E c \in Canons : Process(q, c)
  \/ Search(q) \/ Fuse(q) \/ Widen(q) \/ Rerank(q) \/ Filter(q)
  \/ StoreFails(q) \/ Verified(q) \/ Passthrough(q) \/ Assemble(q) \/ Break(q)

LEMMA QuietSteps ==
  ASSUME GraphInv, NEW q \in Queries, QuietStep(q)
  PROVE  Quietly(q) /\ InGraph
<1>1. TypeOK /\ Sound(run[q])
  BY DEF GraphInv
<1>2. Quietly(q)
  BY Zenon, <1>1, ProcessEffect, SearchEffect, FuseEffect, WidenEffect, RerankEffect, FilterEffect,
     StoreFailsEffect, VerifiedEffect, PassthroughEffect, AssembleEffect, BreakEffect DEF QuietStep
<1>3. InGraph
  BY Zenon DEF QuietStep, Process, Search, Fuse, Widen, Rerank, Filter, StoreFails, Verified,
     Passthrough, Assemble, Break
<1> QED
  BY <1>2, <1>3

LEMMA StepKeeps ==
  ASSUME GraphInv, NEW q \in Queries, Step(q)
  PROVE  GraphInv'
<1>1. TypeOK /\ Sound(run[q]) /\ \A p \in Queries : Sound(run[p])
  BY DEF GraphInv
<1>2. \E next \in RunState : Goes(q, next) /\ Sound(next)
  <2>1. CASE QuietStep(q)
    BY <2>1, QuietSteps DEF Quietly
  <2>2. CASE Lookup(q)
    BY <1>1, <2>2, LookupEffect
  <2>3. CASE Judge(q)
    BY <1>1, <2>3, JudgeEffect
  <2>4. CASE Store(q)
    BY <1>1, <2>4, StoreEffect
  <2> QED
    BY Zenon, <2>1, <2>2, <2>3, <2>4 DEF Step, QuietStep
<1>3. run' \in [Queries -> RunState] /\ \A p \in Queries : Sound(run'[p])
  BY <1>1, <1>2 DEF Goes
<1>4. UNCHANGED <<index, changes>>
  BY QuietSteps DEF Step, QuietStep, Lookup, Judge, Store, InGraph
<1>5. cache' \in [Canons -> [Subs -> [verdict: Verdict \cup {"none"}, of: Version, redone: BOOLEAN]]]
  <2>1. CASE Store(q)
    <3>1. PICK n \in run[q].fresh :
            /\ cache' = [cache EXCEPT ![run[q].canon][n.sub] = Stored(q, n)]
            /\ Stored(q, n) \in [verdict: Verdict \cup {"none"}, of: Version, redone: BOOLEAN]
      BY <1>1, <2>1, StoreEffect
    <3> QED
      BY <1>1, <3>1 DEF TypeOK
  <2>2. CASE UNCHANGED cache
    BY <1>1, <2>2 DEF TypeOK
  <2> QED
    BY <2>1, <2>2, QuietSteps DEF Step, QuietStep, Lookup, Judge, InGraph
<1>6. TypeOK'
  BY <1>1, <1>3, <1>4, <1>5 DEF TypeOK
<1>7. Cross'
  <2>1. CASE QuietStep(q)
    BY <2>1, QuietSteps, QuietKeeps DEF InGraph
  <2> QED
    BY Zenon, <2>1, LookupKeeps, JudgeKeeps, StoreKeeps DEF Step, QuietStep
<1> QED
  BY <1>3, <1>6, <1>7 DEF GraphInv

LEMMA IndexKeeps ==
  ASSUME GraphInv, NEW d \in Docs, Reingest(d) \/ Retire(d) \/ Return(d)
  PROVE  GraphInv'
<1>1. UNCHANGED <<cache, run>> /\ changes < MaxChanges /\ changes' = changes + 1
  BY DEF Reingest, Retire, Return, ChangeIndex
<1>2. changes' \in Version
  BY <1>1, RetrievalAssumption DEF GraphInv, TypeOK, Version
<1>3. index' \in [Docs -> [text: Version, active: BOOLEAN]]
  <2>1. \A row \in [text: Version, active: BOOLEAN], new \in Version, b \in BOOLEAN :
          /\ [row EXCEPT !.text = new] \in [text: Version, active: BOOLEAN]
          /\ [row EXCEPT !.active = b] \in [text: Version, active: BOOLEAN]
    OBVIOUS
  <2>2. index[d] \in [text: Version, active: BOOLEAN] /\ index \in [Docs -> [text: Version, active: BOOLEAN]]
    BY DEF GraphInv, TypeOK
  <2>3. changes + 1 \in Version
    BY <1>1, <1>2
  <2>4. PICK row \in [text: Version, active: BOOLEAN] : index' = [index EXCEPT ![d] = row]
    BY <2>1, <2>2, <2>3 DEF Reingest, Retire, Return, ChangeIndex
  <2> QED
    BY <2>2, <2>4
<1>4. TypeOK'
  BY <1>1, <1>2, <1>3 DEF GraphInv, TypeOK
<1>5. Cross'
  BY <1>1 DEF GraphInv, Cross, CacheShape, Remembers, Agrees, Follows, Differing, Redone, SaidIn
<1> QED
  BY <1>1, <1>4, <1>5 DEF GraphInv

LEMMA NextKeeps == GraphInv /\ [Next]_vars => GraphInv'
<1> SUFFICES ASSUME GraphInv, [Next]_vars
             PROVE  GraphInv'
  OBVIOUS
<1>1. CASE UNCHANGED vars
  BY <1>1 DEF vars, GraphInv, TypeOK, Cross, CacheShape, Remembers, Agrees, Follows, Differing, Redone, SaidIn
<1>2. CASE Next
  BY Zenon, <1>2, StepKeeps, IndexKeeps DEF Next
<1> QED
  BY <1>1, <1>2

LEMMA GraphHolds == Spec => []GraphInv
<1>1. GraphInv /\ [Next]_vars => GraphInv'
  BY NextKeeps
<1> QED
  BY <1>1, InitInv, PTL DEF Spec

(* Requests, index and cache keep their types, whichever layers fail.       *)
THEOREM GraphTyped == Spec => []TypeOK
<1>1. GraphInv => TypeOK
  BY DEF GraphInv
<1> QED
  BY <1>1, GraphHolds, PTL

(* The same canonical query gets the same verdicts: a request that looks    *)
(* the cache up after another one was verified judges as that one did,      *)
(* unless a third one judged the candidate once more.                       *)
THEOREM VerdictsRepeat == Spec => []SameQuerySameVerdict
<1>1. GraphInv => SameQuerySameVerdict
  <2> SUFFICES ASSUME GraphInv, NEW q \in Queries, run[q].status = "verified", ~run[q].blind,
                      NEW p \in run[q].after, run[p].canon = run[q].canon, ~run[p].blind,
                      NEW s \in (SubsOf(run[p].similar) \cap SubsOf(run[q].rejected))
                                  \cup (SubsOf(run[p].rejected) \cap SubsOf(run[q].similar))
               PROVE  cache[run[q].canon][s].redone
    BY DEF SameQuerySameVerdict
  <2>1. p \in Queries /\ Done(run[p]) /\ Agrees(run[q], run[p]) /\ Sound(run[p])
    BY AfterTyped DEF GraphInv, Cross
  <2>2. run[p].status = "verified"
    <3>1. CASE run[p].at = "error"
      BY <2>1, <3>1 DEF Sound, Unread, SubsOf
    <3> QED
      BY <2>1, <3>1 DEF Done
  <2> QED
    BY <2>1, <2>2 DEF Agrees, Follows, Judging, Differing, Redone
<1> QED
  BY <1>1, GraphHolds, PTL

(* An answer shows every candidate that passed the filter and is active; a  *)
(* verified one leaves out exactly what was rejected.                       *)
THEOREM AnswersAreWhole == Spec => AnswerIsWhole
<1> DEFINE Whole == \A q \in Queries : At(q, "assemble") /\ run'[q].at = "answered" =>
             LET out == IF run[q].status = "verified" THEN SubsOf(run[q].rejected) ELSE {}
             IN  SubsOf(run'[q].pool) = {s \in SubsOf(run[q].passed) \ out : Active(s)}
<1>1. GraphInv /\ [Next]_vars => [Whole]_vars
  <2> SUFFICES ASSUME GraphInv, Next, NEW q \in Queries, At(q, "assemble"), run'[q].at = "answered"
               PROVE  LET out == IF run[q].status = "verified" THEN SubsOf(run[q].rejected) ELSE {}
                      IN  SubsOf(run'[q].pool) = {s \in SubsOf(run[q].passed) \ out : Active(s)}
    OBVIOUS
  <2>1. TypeOK /\ Sound(run[q])
    BY DEF GraphInv
  <2>2. Assemble(q)
    <3>1. run'[q] # run[q]
      BY DEF At
    <3>2. PICK p \in Queries : Step(p)
      BY <3>1 DEF Next, Reingest, Retire, Return, ChangeIndex
    <3>3. p = q
      <4>1. \E next \in RunState : Goes(p, next)
        <5>1. TypeOK /\ Sound(run[p])
          BY DEF GraphInv
        <5>2. CASE QuietStep(p)
          BY <5>2, QuietSteps DEF Quietly
        <5>3. CASE Lookup(p)
          BY <5>1, <5>3, LookupEffect
        <5>4. CASE Judge(p)
          BY <5>1, <5>4, JudgeEffect
        <5>5. CASE Store(p)
          BY <5>1, <5>5, StoreEffect
        <5> QED
          BY Zenon, <3>2, <5>2, <5>3, <5>4, <5>5 DEF Step, QuietStep
      <4> QED
        BY <3>1, <4>1 DEF Goes
    <3>4. Assemble(q) \/ Break(q)
      BY <3>2, <3>3 DEF Step, At, Process, Search, Fuse, Widen, Rerank, Filter, Lookup, Judge, Store,
         StoreFails, Verified, Passthrough
    <3>5. ~Break(q)
      <4> SUFFICES ASSUME Break(q)
                   PROVE  FALSE
        OBVIOUS
      <4> DEFINE next == [NewRun EXCEPT !.at = "error"]
      <4>1. next \in RunState /\ next.at = "error"
        BY NewTyped DEF RunState, Nodes
      <4>2. Becomes(q, next)
        BY Zenon DEF Break
      <4> HIDE DEF next
      <4> QED
        BY <2>1, <4>1, <4>2, Going DEF Goes
    <3> QED
      BY <3>4, <3>5
  <2>3. run'[q].pool = Shown(q)
    <3> DEFINE next == [run[q] EXCEPT !.at = "answered", !.passed = {}, !.pool = Shown(q)]
    <3>1. run[q] \in RunState /\ Shown(q) \in SUBSET Note
      BY <2>1, RowTyped, ShownTyped
    <3>2. next \in RunState /\ next.pool = Shown(q)
      BY <3>1 DEF RunState, Nodes
    <3>3. Becomes(q, next)
      BY Zenon, <2>2 DEF Assemble
    <3> HIDE DEF next
    <3> QED
      BY <2>1, <3>2, <3>3, Going DEF Goes
  <2>4. SubsOf(Shown(q)) = {s \in SubsOf(run[q].pool) : Active(s)}
    <3>1. \A n \in run[q].pool : n.sub \in Subs /\ Now(n.sub).sub = n.sub
      BY <2>1, RowTyped, ActiveNow DEF RunState, Note
    <3> QED
      BY <3>1 DEF Shown, SubsOf
  <2>5. SubsOf(run[q].pool)
          = SubsOf(run[q].passed) \ (IF run[q].status = "verified" THEN SubsOf(run[q].rejected) ELSE {})
    BY <2>1 DEF Sound, At
  <2> QED
    BY <2>3, <2>4, <2>5
<1> QED
  BY <1>1, GraphHolds, PTL DEF Spec, AnswerIsWhole
-----------------------------------------------------------------------------
(* Requests that keep apart.                                                *)

Waiting(r) == r.todo \cup r.fresh

(* No two requests for one canonical query judge the same candidate side by *)
(* side: between the lookup of one and its write no other one looks it up.  *)
JudgeApart ==
  \A p, q \in Queries : p # q /\ At(p, "judge") /\ At(q, "judge") /\ run[p].canon = run[q].canon =>
    SubsOf(Waiting(run[p])) \cap SubsOf(Waiting(run[q])) = {}

(* The SELECT of the cached verdicts does not fail.                         *)
LooksUp == \A q \in Queries : At(q, "verify") /\ run'[q].at = "judge" => ~run'[q].blind

(* What a request still judges or has not stored is not in the cache.       *)
Open(r) ==
  r.at = "judge" =>
    /\ r.fresh \subseteq r.pool
    /\ \A n \in Waiting(r) : SaidIn(r.canon, n.sub) = "none"

(* No verdict was replaced.                                                 *)
Lasting == \A c \in Canons, s \in Subs : ~Redone(c, s)

ApartInv == GraphInv /\ Lasting /\ \A q \in Queries : Open(run[q])

LEMMA InitApart == Init => ApartInv
<1> SUFFICES ASSUME Init
             PROVE  ApartInv
  OBVIOUS
<1>1. Lasting
  BY DEF Init, Lasting, Redone, Unjudged
<1>2. \A q \in Queries : Open(run[q])
  BY DEF Init, NewRun, Open
<1> QED
  BY <1>1, <1>2, InitInv DEF ApartInv

(* A step that stores nothing.                                              *)
LEMMA OpenStays ==
  ASSUME ApartInv, UNCHANGED cache, NEW q \in Queries, NEW next, Goes(q, next), Open(next)
  PROVE  Lasting' /\ \A p \in Queries : Open(run[p])'
<1>1. Lasting'
  BY DEF ApartInv, Lasting, Redone
<1>2. ASSUME NEW p \in Queries
      PROVE  Open(run[p])'
  <2>1. run'[p] = next \/ run'[p] = run[p]
    BY DEF Goes
  <2>2. Open(run'[p])
    BY <2>1 DEF ApartInv
  <2> QED
    BY <2>2 DEF Open, SaidIn, Waiting
<1> QED
  BY <1>1, <1>2

LEMMA QuietApart ==
  ASSUME ApartInv, NEW q \in Queries, QuietStep(q)
  PROVE  Lasting' /\ \A p \in Queries : Open(run[p])'
<1>1. UNCHANGED cache /\ Quietly(q)
  BY QuietSteps DEF ApartInv, InGraph
<1>2. PICK next \in RunState : Goes(q, next) /\ Quiet(run[q], next)
  BY <1>1 DEF Quietly
<1>3. Open(run[q])
  BY DEF ApartInv
<1>4. Open(next)
  BY <1>2, <1>3 DEF Quiet, Open, Waiting
<1> QED
  BY <1>1, <1>2, <1>4, OpenStays

LEMMA LookupApart ==
  ASSUME ApartInv, LooksUp, NEW q \in Queries, Lookup(q)
  PROVE  Lasting' /\ \A p \in Queries : Open(run[p])'
<1>1. TypeOK /\ Sound(run[q])
  BY DEF ApartInv, GraphInv
<1>2. PICK next \in RunState :
        /\ Goes(q, next) /\ next.at = "judge" /\ next.canon = run[q].canon /\ next.fresh = {}
        /\ ~next.blind => \A n \in next.todo : SaidIn(run[q].canon, n.sub) = "none"
  BY <1>1, LookupEffect
<1>3. run'[q] = next
  BY <1>2 DEF Goes
<1>4. ~next.blind
  BY <1>2, <1>3 DEF LooksUp, Lookup
<1>5. Open(next)
  BY <1>2, <1>4 DEF Open, Waiting
<1> QED
  BY <1>2, <1>5, OpenStays DEF Lookup, InGraph

LEMMA JudgeKeepsApart ==
  ASSUME ApartInv, NEW q \in Queries, Judge(q)
  PROVE  Lasting' /\ \A p \in Queries : Open(run[p])'
<1>1. TypeOK /\ Sound(run[q]) /\ Open(run[q]) /\ run[q].at = "judge"
  BY DEF ApartInv, GraphInv, Judge, At
<1>2. PICK next \in RunState : \E chunk \in SUBSET run[q].todo :
        /\ Goes(q, next) /\ next.at = "judge" /\ next.canon = run[q].canon
        /\ next.todo = run[q].todo \ chunk /\ next.fresh = chunk /\ next.pool = run[q].pool
  BY <1>1, JudgeEffect
<1>3. run[q].todo \subseteq run[q].pool
  BY <1>1 DEF Sound, Split
<1>4. Open(next)
  BY <1>1, <1>2, <1>3 DEF Open, Waiting
<1> QED
  BY <1>2, <1>4, OpenStays DEF Judge, InGraph

(* The verdict that is stored is the first one, and nobody waits for it.    *)
LEMMA StoreApart ==
  ASSUME ApartInv, JudgeApart, NEW q \in Queries, Store(q)
  PROVE  Lasting' /\ \A p \in Queries : Open(run[p])'
<1>1. TypeOK /\ Sound(run[q]) /\ Open(run[q]) /\ run[q].at = "judge" /\ Lasting
  BY DEF ApartInv, GraphInv, Store, At
<1>2. PICK next \in RunState : \E n \in run[q].fresh :
        /\ Goes(q, next) /\ n.sub \in Subs /\ next.fresh = run[q].fresh \ {n}
        /\ SameBut(run[q], next, {"fresh"}) /\ next.at = "judge"
        /\ cache' = [cache EXCEPT ![run[q].canon][n.sub] = Stored(q, n)]
        /\ Stored(q, n) \in [verdict: Verdict \cup {"none"}, of: Version, redone: BOOLEAN]
  BY <1>1, StoreEffect
<1>3. PICK n \in run[q].fresh :
        /\ n.sub \in Subs /\ next.fresh = run[q].fresh \ {n}
        /\ cache' = [cache EXCEPT ![run[q].canon][n.sub] = Stored(q, n)]
  BY <1>2
<1>4. run[q].canon \in Canons
  BY <1>1 DEF Sound
<1>5. ~Stored(q, n).redone
  BY <1>1, <1>3 DEF Stored, Open, Waiting, SaidIn
<1>6. \A c \in Canons, s \in Subs :
        cache'[c][s] = IF c = run[q].canon /\ s = n.sub THEN Stored(q, n) ELSE cache[c][s]
  BY <1>1, <1>3, <1>4 DEF TypeOK
<1>7. Lasting'
  BY <1>1, <1>5, <1>6 DEF Lasting, Redone
<1>8. ASSUME NEW p \in Queries
      PROVE  Open(run[p])'
  <2> SUFFICES ASSUME run'[p].at = "judge"
               PROVE  /\ run'[p].fresh \subseteq run'[p].pool
                      /\ \A m \in Waiting(run'[p]) : cache'[run'[p].canon][m.sub].verdict = "none"
    BY DEF Open, SaidIn, Waiting
  <2>1. /\ run[p].at = "judge" /\ run'[p].canon = run[p].canon /\ run'[p].pool = run[p].pool
        /\ Waiting(run'[p]) \subseteq Waiting(run[p]) /\ run'[p].fresh \subseteq run[p].fresh
        /\ p = q => Waiting(run'[p]) = run[q].todo \cup (run[q].fresh \ {n})
    BY <1>1, <1>2, <1>3 DEF Goes, SameBut, Waiting
  <2>2. Open(run[p]) /\ run[p].canon \in Canons /\ run[p] \in RunState /\ Sound(run[p])
    BY <1>1, <2>1, RowTyped DEF ApartInv, GraphInv, Sound
  <2>3. ASSUME NEW m \in Waiting(run'[p])
        PROVE  m.sub \in Subs /\ ~(run[p].canon = run[q].canon /\ m.sub = n.sub)
    <3>1. m \in Waiting(run[p]) /\ m.sub \in Subs
      BY <2>1, <2>2 DEF RunState, Waiting, Note
    <3>2. CASE p # q
      BY <1>1, <1>3, <2>1, <3>1, <3>2 DEF JudgeApart, At, SubsOf, Waiting
    <3>3. CASE p = q
      <4>1. n \in run[q].pool /\ m \in run[q].pool /\ Distinct(run[q].pool) /\ Split(run[q])
        BY <1>1, <1>3, <3>1, <3>3 DEF Open, Sound, Split, Waiting
      <4>2. m # n
        <5>1. n \notin run[q].todo
          BY <1>3, <4>1 DEF Split, SubsOf
        <5> QED
          BY <2>1, <3>3, <5>1
      <4> QED
        BY <3>1, <4>1, <4>2 DEF Distinct
    <3> QED
      BY <3>2, <3>3
  <2>4. \A m \in Waiting(run'[p]) : cache'[run'[p].canon][m.sub].verdict = "none"
    BY <1>6, <2>1, <2>2, <2>3 DEF SaidIn, Open
  <2> QED
    BY <2>1, <2>2, <2>4 DEF Open
<1> QED
  BY <1>7, <1>8

LEMMA NextApart == ApartInv /\ JudgeApart /\ [Next]_vars /\ [LooksUp]_vars => ApartInv'
<1> SUFFICES ASSUME ApartInv, JudgeApart, [Next]_vars, [LooksUp]_vars
             PROVE  ApartInv'
  OBVIOUS
<1>1. GraphInv'
  BY NextKeeps DEF ApartInv
<1>2. Lasting' /\ \A p \in Queries : Open(run[p])'
  <2>1. CASE UNCHANGED <<cache, run>>
    BY <2>1 DEF ApartInv, Lasting, Redone, Open, SaidIn, Waiting
  <2>2. ASSUME NEW q \in Queries, Step(q)
        PROVE  Lasting' /\ \A p \in Queries : Open(run[p])'
    <3>1. CASE LooksUp
      BY Zenon, <2>2, <3>1, QuietApart, LookupApart, JudgeKeepsApart, StoreApart DEF Step, QuietStep
    <3> QED
      BY <2>1, <3>1 DEF vars
  <2> QED
    BY <2>1, <2>2 DEF Next, vars, Reingest, Retire, Return, ChangeIndex
<1> QED
  BY <1>1, <1>2 DEF ApartInv

(* "The same canonical query always reuses the same verdict" (llm_verify)   *)
(* without any exception, as long as no two requests for one query judge a  *)
(* candidate side by side and the cache can be read: what was judged once   *)
(* is never judged again, so all requests whose verdicts could be stored    *)
(* agree, in whichever order they ran.                                      *)
THEOREM VerdictsAgree == Spec /\ []JudgeApart /\ [][LooksUp]_vars => []AlwaysSameVerdict
<1>1. ApartInv => AlwaysSameVerdict
  <2> SUFFICES ASSUME ApartInv, NEW p \in Queries, NEW q \in Queries,
                      run[p].status = "verified", run[q].status = "verified",
                      run[p].canon = run[q].canon, ~run[p].blind, ~run[q].blind,
                      NEW m \in run[p].similar, NEW n \in run[q].rejected, m.sub = n.sub
               PROVE  FALSE
    BY DEF AlwaysSameVerdict, SubsOf
  <2>1. Remembers(run[p]) /\ Remembers(run[q]) /\ Lasting
    BY DEF ApartInv, GraphInv, Cross
  <2>2. /\ run[p].fresh = {} /\ run[q].fresh = {} /\ run[p].canon \in Canons
        /\ run[p] \in RunState
    BY RowTyped DEF ApartInv, GraphInv, Sound
  <2>3. m.sub \in Subs
    BY <2>2 DEF RunState, Note
  <2>4. SaidIn(run[p].canon, m.sub) = "similar"
    BY <2>1, <2>2, <2>3 DEF Remembers, Judging, Lasting
  <2>5. SaidIn(run[q].canon, n.sub) = "not_similar"
    BY <2>1, <2>2, <2>3 DEF Remembers, Judging, Lasting
  <2> QED
    BY <2>4, <2>5
<1>2. ApartInv /\ JudgeApart /\ [Next]_vars /\ [LooksUp]_vars => ApartInv'
  BY NextApart
<1> QED
  BY <1>1, <1>2, InitApart, PTL DEF Spec
=============================================================================
