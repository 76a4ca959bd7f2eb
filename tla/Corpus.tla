-------------------------------- MODULE Corpus --------------------------------
(***************************************************************************)
(* One upsert, stage by stage, over what the workers share: the source     *)
(* tree, the organized/ copy that every crawl rewrites as a whole, and the *)
(* index.  Beside the workers run the two things that destroy rows, an     *)
(* administrator's hard delete and the purge command.                      *)
(*                                                                         *)
(* A document's content is a version number, 0 for absent or none.  The    *)
(* queue is the lease FolderLease describes: a folder is worked on by one  *)
(* worker.  A folder does not change while its own job runs, other than by *)
(* a hard delete, and its events are delivered before it is claimed        *)
(* (WatcherSync shows what happens otherwise).                             *)
(* A folder is named by its canonical id: of a name that canonical_qid     *)
(* changes, process_upsert and process_delete look for rows by another id. *)
(***************************************************************************)
EXTENDS Naturals

CONSTANTS
  Docs, Workers,
  Overlaps,     \* pairs <<d, e>>: the --only token of d also occurs in e's path
  MaxEdits,     \* bound: how many changes happen to the source tree
  Mortal,       \* bound: the workers that may die
  MaxAttempts,  \* watch_max_attempts
  Upsets        \* which disturbances occur, see AllUpsets

AllUpsets == {"locks", "errors", "crashes", "purges", "deletes"}

ASSUME CorpusAssumption ==
  /\ Overlaps \subseteq Docs \X Docs
  /\ MaxEdits \in Nat /\ MaxAttempts \in Nat \ {0}
  /\ Upsets \subseteq AllUpsets
  /\ {"none", "pending", "failed", "clear", "waiting", "orphaned"} \cap Workers = {}
  /\ "none" \notin Docs

VARIABLES
  source,     \* the source tree: content of each question folder
  edits,      \* how many changes there were, so the newest version
  noticed,    \* folders with a file event that is not yet enqueued
  job,        \* the folder's queue row: its holder, and how often it was claimed
  organized,  \* organized/<doc>: whether the folder is there, the files of a
              \* finished copy, and parsed.json: the copy it was begun on and
              \* whether the answer was missing by the time it was read
  index,      \* the document's rows: text, the vector of the text, active; and
              \* unread (history): its last record had no answer, see Loaded
  work,       \* per worker: where it is in process_upsert
  purge,      \* the documents a purge listed and will delete once confirmed
  admin       \* the hard delete in progress

vars == <<source, edits, noticed, job, organized, index, work, purge, admin>>

Version == 0..MaxEdits
Note == [doc: Docs, text: Version, blank: BOOLEAN]
Of(d, v) == [doc |-> d, text |-> v, blank |-> FALSE]
NoDir == [dir |-> FALSE, copy |-> 0, parsed |-> 0, blank |-> FALSE]
EmptyDir == [NoDir EXCEPT !.dir = TRUE]
NoRow == [row |-> FALSE, text |-> 0, vector |-> 0, active |-> FALSE, unread |-> "no"]
Idle == [at |-> "idle", doc |-> "none", todo |-> {}, held |-> {}, bad |-> FALSE, seen |-> 0]
NoDelete == [at |-> "none", doc |-> "none", known |-> FALSE]

Stages == {"idle", "retire", "walk", "crawl", "parse", "load", "embed", "store"}

TypeOK ==
  /\ source \in [Docs -> Version] /\ edits \in Version
  /\ noticed \subseteq Docs
  /\ job \in [Docs -> [by: {"none", "pending", "failed"} \cup Workers, tries: 0..MaxAttempts]]
  /\ organized \in [Docs -> [dir: BOOLEAN, copy: Version, parsed: Version, blank: BOOLEAN]]
  /\ index \in [Docs -> [row: BOOLEAN, text: Version, vector: Version, active: BOOLEAN,
                         unread: {"no", "kept", "hidden"}]]
  /\ work \in [Workers -> [at: Stages, doc: Docs \cup {"none"}, todo: SUBSET Docs,
                           held: SUBSET Note, bad: BOOLEAN, seen: Version]]
  /\ purge \subseteq Docs
  /\ admin \in [at: {"none", "rows", "diary", "organized", "source", "queue"},
                doc: Docs \cup {"none"}, known: BOOLEAN]

Init ==
  /\ source = [d \in Docs |-> 0] /\ edits = 0
  /\ noticed = {}
  /\ job = [d \in Docs |-> [by |-> "none", tries |-> 0]]
  /\ organized = [d \in Docs |-> NoDir]
  /\ index = [d \in Docs |-> NoRow]
  /\ work = [w \in Workers |-> Idle]
  /\ purge = {} /\ admin = NoDelete

-----------------------------------------------------------------------------
(* The source tree and the queue.                                           *)

Busy(d) == (\E w \in Workers : work[w].doc = d) \/ admin.doc = d

Change(d, v) ==
  /\ edits < MaxEdits /\ ~Busy(d)
  /\ edits' = edits + 1
  /\ source' = [source EXCEPT ![d] = v]
  /\ noticed' = noticed \cup {d}
  /\ UNCHANGED <<job, organized, index, work, purge, admin>>

Write(d) == Change(d, edits + 1)
Remove(d) == source[d] # 0 /\ Change(d, 0)

(* enqueue: a new row, or the event is coalesced into the live one.         *)
Notice(d) ==
  /\ d \in noticed /\ noticed' = noticed \ {d}
  /\ job' = [job EXCEPT ![d] =
       IF @.by \in {"none", "failed"} THEN [by |-> "pending", tries |-> 0] ELSE @]
  /\ UNCHANGED <<source, edits, organized, index, work, purge, admin>>

(* The worker's job is over; its row may be gone, withdrawn by a delete.    *)
Ended(w, by) ==
  /\ work' = [work EXCEPT ![w] = Idle]
  /\ job' = [job EXCEPT ![work[w].doc] = IF @.by = w THEN [@ EXCEPT !.by = by] ELSE @]

Done(w) == Ended(w, "none")

Failed(w) == Ended(w, IF job[work[w].doc].tries >= MaxAttempts THEN "failed" ELSE "pending")

Fail(w) ==
  /\ Failed(w)
  /\ UNCHANGED <<source, edits, noticed, organized, index, purge, admin>>

(* Mutant: Claims are counted without a limit on what the row can hold.             *)
Take_Uncapped(w, d) ==
  /\ work[w].at = "idle" /\ job[d].by = "pending" /\ d \notin noticed
  /\ job' = [job EXCEPT ![d].by = w, ![d].tries = @ + 1]
  /\ work' = [work EXCEPT ![w] = [Idle EXCEPT !.doc = d, !.at = "walk"]]
  /\ UNCHANGED <<source, edits, noticed, organized, index, purge, admin>>

(* The settle period outlasts the delivery of the folder's events, so the   *)
(* event of a path that is gone is its delete.                              *)
Take(w, d) ==
  /\ work[w].at = "idle" /\ job[d].by = "pending" /\ d \notin noticed
  /\ job' = [job EXCEPT ![d].by = w, ![d].tries = IF @ < MaxAttempts THEN @ + 1 ELSE @]
  /\ work' = [work EXCEPT ![w] = [Idle EXCEPT
       !.doc = d, !.seen = source[d],
       !.at = IF source[d] # 0 THEN "walk" ELSE "retire"]]
  /\ UNCHANGED <<source, edits, noticed, organized, index, purge, admin>>

SoftDelete(w) ==
  /\ work[w].at = "retire"
  /\ index' = [index EXCEPT ![work[w].doc].active = FALSE]
  /\ Done(w)
  /\ UNCHANGED <<source, edits, noticed, organized, purge, admin>>

-----------------------------------------------------------------------------
(* Crawl: the whole source tree, one group after the other.                 *)

Goto(w, stage, todo) == work' = [work EXCEPT ![w].at = stage, ![w].todo = todo, ![w].held = {}]
Drop(w, d) == work' = [work EXCEPT ![w].todo = @ \ {d}, ![w].held = {}]
Hold(w, notes) == work' = [work EXCEPT ![w].held = notes]
InTree(w) == UNCHANGED <<source, edits, noticed, job, index, purge, admin>>
InIndex(w) == UNCHANGED <<source, edits, noticed, job, organized, purge, admin>>

Walk(w) ==
  /\ work[w].at = "walk"
  /\ Goto(w, "crawl", {d \in Docs : source[d] # 0})
  /\ InTree(w) /\ UNCHANGED organized

(* Mutant: The crawl overwrites the copy and leaves parsed.json where it is.        *)
Reset_KeepsParsed(w, d) ==
  /\ work[w].at = "crawl" /\ work[w].held = {} /\ d \in work[w].todo
  /\ organized' = [organized EXCEPT ![d].dir = TRUE, ![d].copy = 0]
  /\ Hold(w, {Of(d, 0)})
  /\ InTree(w)

Reset(w, d) ==
  /\ work[w].at = "crawl" /\ work[w].held = {} /\ d \in work[w].todo
  /\ organized' = [organized EXCEPT ![d] = EmptyDir]
  /\ Hold(w, {Of(d, 0)})
  /\ InTree(w)

(* The output folder is locked: what the retries removed stays removed.     *)
Locked(w, d) ==
  /\ "locks" \in Upsets
  /\ work[w].at = "crawl" /\ work[w].held = {} /\ d \in work[w].todo
  /\ organized[d].dir
  /\ \E copyGone, parsedGone \in BOOLEAN :
       organized' = [organized EXCEPT ![d].copy = IF copyGone THEN 0 ELSE @,
                                      ![d].parsed = IF parsedGone THEN 0 ELSE @]
  /\ Drop(w, d)
  /\ InTree(w)

(* metadata.json, written last, makes the copy visible to the parse stage.  *)
Copy(w) ==
  /\ work[w].at = "crawl"
  /\ \E n \in work[w].held :
       /\ source[n.doc] # 0
       /\ organized' = [organized EXCEPT ![n.doc].dir = TRUE, ![n.doc].copy = source[n.doc]]
       /\ Drop(w, n.doc)
  /\ InTree(w)

(* The file to copy vanished since the walk, or two crawls (or a crawl and  *)
(* a hard delete) pull the same folder from under each other.               *)
CrawlAborts(w) ==
  /\ work[w].at = "crawl"
  /\ \/ \E n \in work[w].held : source[n.doc] = 0
     \/ work[w].todo # {} /\ \E v \in Workers \ {w} : work[v].at = "crawl" /\ work[v].todo # {}
     \/ work[w].todo # {} /\ admin.at = "organized"
  /\ Fail(w)

(* Mutant: The slice is not scoped by the question.                                 *)
Slice_WholeSession(d) == Docs

(* The slice's question folders, listed once when the parse stage starts.   *)
Slice(d) == {d} \cup {e \in Docs : <<d, e>> \in Overlaps}

StartParse(w) ==
  /\ work[w].at = "crawl" /\ work[w].todo = {}
  /\ Goto(w, "parse", {d \in Slice(work[w].doc) : organized[d].copy # 0})
  /\ InTree(w) /\ UNCHANGED organized

-----------------------------------------------------------------------------
(* Parse: a folder that has a parsed.json is skipped; a folder that fails   *)
(* is logged and the run goes on.                                           *)

Read(w, d) ==
  /\ work[w].at = "parse" /\ work[w].held = {} /\ d \in work[w].todo
  /\ IF organized[d].parsed # 0 \/ organized[d].copy = 0
     THEN Drop(w, d)
     ELSE Hold(w, {Of(d, organized[d].copy)})
  /\ InTree(w) /\ UNCHANGED organized

(* metadata.json is read first and the answer later: by then another crawl  *)
(* may have made a new copy, or be at it and have left no answer to read.   *)
ReadLater(w) ==
  /\ work[w].at = "parse"
  /\ \E n \in work[w].held :
       LET found == organized[n.doc].copy IN
       /\ organized[n.doc].dir /\ found # n.text /\ ~n.blank
       /\ Hold(w, {IF found = 0 THEN [n EXCEPT !.blank = TRUE] ELSE [n EXCEPT !.text = found]})
  /\ InTree(w) /\ UNCHANGED organized

WriteParsed(w) ==
  /\ work[w].at = "parse"
  /\ \E n \in work[w].held :
       /\ organized' = IF organized[n.doc].dir
                       THEN [organized EXCEPT ![n.doc].parsed = n.text, ![n.doc].blank = n.blank]
                       ELSE organized
       /\ Drop(w, n.doc)
  /\ InTree(w)

(* A folder that is removed under the parse can fail it, too.               *)
ParseFails(w) ==
  /\ work[w].at = "parse"
  /\ \E n \in work[w].held :
       /\ "errors" \in Upsets \/ organized[n.doc].copy = 0
       /\ Drop(w, n.doc)
  /\ InTree(w) /\ UNCHANGED organized

-----------------------------------------------------------------------------
(* Index: load the slice, one transaction per document, then embed every    *)
(* row of the database that has no vector.                                  *)

Parsed(w) == {d \in Slice(work[w].doc) : organized[d].parsed # 0}

StartLoad(w) ==
  /\ work[w].at = "parse" /\ work[w].todo = {} /\ Parsed(w) # {}
  /\ Goto(w, "load", Parsed(w))
  /\ InTree(w) /\ UNCHANGED organized

(* Mutant: a slice that ingested nothing is a success.                      *)
NothingToLoad_Succeeds(w) ==
  /\ work[w].at = "parse" /\ work[w].todo = {} /\ Parsed(w) = {}
  /\ Done(w)
  /\ UNCHANGED <<source, edits, noticed, organized, index, purge, admin>>

NothingToLoad(w) ==
  /\ work[w].at = "parse" /\ work[w].todo = {} /\ Parsed(w) = {}
  /\ Fail(w)

(* The upsert sets neither the vector nor active: an existing row keeps both. *)
(* A record without an answer has no sub-questions: it loads the diary and    *)
(* deletes no text there is, which stays searchable ("kept") or comes back    *)
(* when the document is reactivated ("hidden").                               *)
Loaded(r, record) ==
  [r EXCEPT !.row = TRUE, !.active = r.row => r.active,
            !.text = IF record.blank THEN r.text ELSE record.parsed,
            !.unread = CASE ~record.blank \/ r.text = record.parsed -> "no"
                         [] OTHER -> IF r.unread = "hidden" \/ (r.row /\ ~r.active)
                                     THEN "hidden" ELSE "kept"]

Load(w, d) ==
  /\ work[w].at = "load" /\ d \in work[w].todo
  /\ organized[d].parsed # 0
  /\ index' = [index EXCEPT ![d] = Loaded(@, organized[d])]
  /\ Drop(w, d)
  /\ InIndex(w)

LoadFails(w, d) ==
  /\ work[w].at = "load" /\ d \in work[w].todo
  /\ organized[d].parsed = 0 \/ "errors" \in Upsets
  /\ work' = [work EXCEPT ![w].todo = @ \ {d}, ![w].bad = TRUE]
  /\ InIndex(w) /\ UNCHANGED index

EndLoad(w) ==
  /\ work[w].at = "load" /\ work[w].todo = {}
  /\ IF work[w].bad
     THEN Fail(w)
     ELSE Goto(w, "embed", {}) /\ InIndex(w) /\ UNCHANGED index

Unembedded == {n \in Note : /\ index[n.doc].row /\ index[n.doc].text = n.text /\ ~n.blank
                             /\ n.text # 0 /\ index[n.doc].vector = 0}

SelectUnembedded(w) ==
  /\ work[w].at = "embed" /\ work[w].held = {}
  /\ IF Unembedded = {} THEN Goto(w, "store", {}) ELSE Hold(w, Unembedded)
  /\ InIndex(w) /\ UNCHANGED index

(* The vectors go to the rows that were selected, if they still exist.      *)
WithVectors(notes) ==
  [d \in Docs |-> IF index[d].text # 0 /\ \E n \in notes : n.doc = d
                  THEN [index[d] EXCEPT !.vector = (CHOOSE n \in notes : n.doc = d).text]
                  ELSE index[d]]

Embed(w) ==
  /\ work[w].at = "embed" /\ work[w].held # {}
  /\ index' = WithVectors(work[w].held)
  /\ Goto(w, "store", {})
  /\ InIndex(w)

(* Some batches fail, the others are written.                               *)
EmbedFails(w) ==
  /\ "errors" \in Upsets
  /\ work[w].at = "embed"
  /\ \E embedded \in SUBSET work[w].held :
       embedded # work[w].held /\ index' = WithVectors(embedded)
  /\ Failed(w)
  /\ UNCHANGED <<source, edits, noticed, organized, purge, admin>>

(* Mutant: A folder that returns is loaded and stays soft-deleted.                  *)
Reactivate_Forgotten(w) ==
  /\ work[w].at = "store" /\ index[work[w].doc].row
  /\ Done(w)
  /\ UNCHANGED <<source, edits, noticed, organized, index, purge, admin>>

(* The slice's own document is found by its key, and reactivated.           *)
Reactivate(w) ==
  /\ work[w].at = "store" /\ index[work[w].doc].row
  /\ index' = [index EXCEPT ![work[w].doc].active = TRUE]
  /\ Done(w)
  /\ UNCHANGED <<source, edits, noticed, organized, purge, admin>>

IngestedNothing(w) ==
  /\ work[w].at = "store" /\ ~index[work[w].doc].row
  /\ Fail(w)

(* The worker dies; recover_stale puts its row back.                        *)
Crash(w) ==
  /\ "crashes" \in Upsets /\ w \in Mortal
  /\ work[w].at # "idle"
  /\ Ended(w, "pending")
  /\ UNCHANGED <<source, edits, noticed, organized, index, purge, admin>>

-----------------------------------------------------------------------------
(* nhpc purge: list, ask, delete what was listed.                           *)

OutsidePurge == UNCHANGED <<source, edits, noticed, job, organized, work, admin>>

ListPurge ==
  /\ "purges" \in Upsets /\ purge = {}
  /\ purge' = {d \in Docs : index[d].row /\ ~index[d].active}
  /\ purge' # {}
  /\ OutsidePurge /\ UNCHANGED index

ConfirmPurge ==
  /\ purge # {}
  /\ index' = [d \in Docs |-> IF d \in purge THEN NoRow ELSE index[d]]
  /\ purge' = {}
  /\ OutsidePurge

AbortPurge == purge # {} /\ purge' = {} /\ OutsidePurge /\ UNCHANGED index

-----------------------------------------------------------------------------
(* DELETE /admin/tree: rows, copy, source files, queue rows, in this order. *)

Outside == UNCHANGED <<edits, work, purge>>
Step(at, next) == admin.at = at /\ admin' = [admin EXCEPT !.at = next]

(* A document that is not in the index yet keeps its copy.                  *)
BeginDelete(d) ==
  /\ "deletes" \in Upsets /\ admin.at = "none" /\ source[d] # 0
  /\ admin' = [at |-> IF index[d].row THEN "rows" ELSE "source", doc |-> d, known |-> index[d].row]
  /\ Outside /\ UNCHANGED <<source, noticed, job, organized, index>>

(* The connection commits each DELETE by itself, children before diaries.   *)
DeleteChildren ==
  /\ Step("rows", "diary")
  /\ index' = [index EXCEPT ![admin.doc].text = 0, ![admin.doc].vector = 0]
  /\ Outside /\ UNCHANGED <<source, noticed, job, organized>>

DeleteDiary ==
  /\ Step("diary", "organized")
  /\ index' = [index EXCEPT ![admin.doc] = NoRow]
  /\ Outside /\ UNCHANGED <<source, noticed, job, organized>>

RemoveOrganized ==
  /\ Step("organized", "source")
  /\ organized' = [organized EXCEPT ![admin.doc] = NoDir]
  /\ Outside /\ UNCHANGED <<source, noticed, job, index>>

RemoveSource ==
  /\ Step("source", "queue")
  /\ source' = [source EXCEPT ![admin.doc] = 0]
  /\ noticed' = noticed \cup {admin.doc}
  /\ Outside /\ UNCHANGED <<job, organized, index>>

CancelJobs ==
  /\ admin.at = "queue" /\ admin' = NoDelete
  /\ job' = [job EXCEPT ![admin.doc].by = "none"]
  /\ Outside /\ UNCHANGED <<source, noticed, organized, index>>

DeleteFails ==
  /\ "errors" \in Upsets /\ admin.at \in {"rows", "diary", "source"}
  /\ admin' = NoDelete
  /\ Outside /\ UNCHANGED <<source, noticed, job, organized, index>>

-----------------------------------------------------------------------------
CrawlStage(w) ==
  \/ Walk(w) \/ Copy(w) \/ CrawlAborts(w)
  \/ \E d \in Docs : Reset(w, d) \/ Locked(w, d)
ParseStage(w) ==
  \/ StartParse(w) \/ ReadLater(w) \/ WriteParsed(w) \/ ParseFails(w)
  \/ \E d \in Docs : Read(w, d)
IndexStage(w) ==
  \/ StartLoad(w) \/ NothingToLoad(w) \/ EndLoad(w)
  \/ SelectUnembedded(w) \/ Embed(w) \/ EmbedFails(w)
  \/ Reactivate(w) \/ IngestedNothing(w)
  \/ \E d \in Docs : Load(w, d) \/ LoadFails(w, d)
Upsert(w) == CrawlStage(w) \/ ParseStage(w) \/ IndexStage(w)
Purge == ListPurge \/ ConfirmPurge \/ AbortPurge
HardDelete ==
  \/ DeleteChildren \/ DeleteDiary \/ RemoveOrganized \/ RemoveSource \/ CancelJobs \/ DeleteFails
  \/ \E d \in Docs : BeginDelete(d)

Next ==
  \/ \E d \in Docs : Write(d) \/ Remove(d) \/ Notice(d) \/ \E w \in Workers : Take(w, d)
  \/ \E w \in Workers : SoftDelete(w) \/ Upsert(w) \/ Crash(w)
  \/ Purge \/ HardDelete

Spec == Init /\ [][Next]_vars

(* Events are delivered, a worker takes a waiting job and goes on with it.  *)
Fairness ==
  /\ \A d \in Docs : WF_vars(Notice(d))
  /\ \A w \in Workers :
       /\ WF_vars(\E d \in Docs : Take(w, d))
       /\ WF_vars(SoftDelete(w) \/ Upsert(w))
FairSpec == Spec /\ Fairness

-----------------------------------------------------------------------------
(* A job that ends well leaves the content that was there when it was       *)
(* claimed, or a newer one, searchable: "a slice that ingested nothing is a *)
(* failure, not a success" (process_upsert).  The one exception is a record *)
(* whose answer another crawl removed before it was read.                   *)
DoneIsIndexed ==
  [][\A w \in Workers : Reactivate(w) =>
       LET r == index'[work[w].doc] IN r.text >= work[w].seen \/ r.unread # "no"]_vars

(* And the same without the exception, which does not hold: the record is   *)
(* loaded, the diary row is there, and the job ends well.                   *)
DoneIsSuccess ==
  [][\A w \in Workers : Reactivate(w) => index'[work[w].doc].text >= work[w].seen]_vars

(* What one worker parses, it has read.                                     *)
AnswersAreRead == \A d \in Docs : index[d].unread = "no"

(* No load replaces the text of a document by an older one: what a worker   *)
(* parsed before another worker's crawl is not loaded after it.             *)
NeverBackwards ==
  [][\A w \in Workers, d \in Docs : Load(w, d) => index'[d].text >= index[d].text]_vars

Quiet ==
  /\ noticed = {} /\ \A d \in Docs : job[d].by = "none"
  /\ \A w \in Workers : work[w].at = "idle"
  /\ admin.at = "none"

(* Once every event is worked off, search offers the present folders in     *)
(* their current content, where that was read, and no others.               *)
Current(d) ==
  index[d].row /\ index[d].active /\ (index[d].text = source[d] \/ index[d].unread # "no")
GoneIsUnsearchable == Quiet => \A d \in Docs : source[d] = 0 => ~index[d].active
InSync == \A d \in Docs : IF source[d] = 0 THEN ~index[d].active ELSE Current(d)
SettledInSync == Quiet => InSync

(* parsed.json was made from the files that lie beside it.                  *)
ParsedBesideCopy ==
  \A d \in Docs : organized[d].parsed # 0 /\ organized[d].copy # 0
                    => organized[d].parsed = organized[d].copy

(* The crawl copies only what changed, so the parse of a document that did  *)
(* not change is kept (the header of core/queue.py, process_upsert).        *)
KeepsUnchanged ==
  [][\A w \in Workers, d \in Docs :
       Reset(w, d) /\ organized[d].copy = source[d] => organized'[d].parsed = organized[d].parsed]_vars

(* Load and embed both upsert: in a quiet system a vector is the vector of  *)
(* the text it finds (process_upsert, step 3).                              *)
VectorOfText == Quiet => \A d \in Docs : index[d].vector # 0 => index[d].vector = index[d].text

(* A purge removes records that are soft-deleted (watcher/purge.py).        *)
PurgesRetiredOnly == [][ConfirmPurge => \A d \in purge : ~index[d].active]_vars

(* A hard delete whose database step fails has deleted nothing, so no       *)
(* document is left without its questions (delete_path, step 2).            *)
WholeOrGone ==
  admin.at = "none" => \A d \in Docs : index[d].row => index[d].text # 0 \/ index[d].unread # "no"

(* Unless workers keep dying, the corpus comes to rest: two workers may     *)
(* abort each other's crawl, but no job is retried for ever, and whatever   *)
(* was not given up is indexed as the source tree has it, where its answer  *)
(* was read (fail, sync.py).                                                *)
Rest ==
  /\ noticed = {} /\ \A w \in Workers : work[w].at = "idle"
  /\ \A d \in Docs :
       \/ job[d].by = "failed"
       \/ /\ job[d].by = "none"
          /\ IF source[d] = 0 THEN ~index[d].active ELSE Current(d)
EventuallyRests == \/ []<><<\E w \in Workers : Crash(w)>>_vars
                   \/ <>[]Rest
-----------------------------------------------------------------------------
(* What a search shows of a document: "AND d.active" in every retriever.    *)
(* The old text that a record without an answer brought back is left out.   *)
Shown == [d \in Docs |-> IF index[d].row /\ index[d].active /\ index[d].unread # "hidden"
                         THEN index[d].text ELSE 0]

MT == INSTANCE MirroredTree WITH Folders <- Docs, tree <- source, shown <- Shown

(* Over all stages, workers and restarts a search changes only to what the  *)
(* folder holds: "must reflect the LATEST state of the filesystem"          *)
(* (queue.enqueue, process_upsert, process_delete).                         *)
ImplementsMirror == MT!Spec

(* The lease of a folder that the row of the queue stands for.              *)
Leases == [d \in Docs |-> CASE job[d].by \in {"none", "failed"} -> "clear"
                            [] job[d].by = "pending" -> "waiting"
                            [] OTHER -> job[d].by]

FL == INSTANCE FolderLease WITH Paths <- Docs, lease <- Leases

(* The queue of this module is a queue as SyncQueue is one: a folder is     *)
(* worked on by the worker that claimed it until that worker ends the job   *)
(* or dies (claim_ready, complete, fail, recover_stale).                    *)
ImplementsLease == FL!Spec
=============================================================================
