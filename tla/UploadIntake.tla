------------------------------ MODULE UploadIntake ------------------------------
(***************************************************************************)
(* Uploads into the source tree: several requests stream their files to a  *)
(* staging folder side by side; the event loop then runs one request at a  *)
(* time from its collision check to its answer.  A file that is moved into *)
(* the tree is also an event of the watcher, so folders are queued twice.  *)
(*                                                                         *)
(* The queue is the one of SyncQueue, reduced to the rows of a folder.  A  *)
(* folder is not uploaded into during its own job (WatcherSync shows what  *)
(* happens then), and the settle period outlasts moves and events.         *)
(***************************************************************************)
EXTENDS FiniteSets, Naturals

CONSTANTS
  Requests,    \* upload requests
  Files,       \* places in the source tree, <dest>/<relative path>
  Folders,     \* question folders
  FolderOf,    \* question_folder of a place
  MaxCrashes,  \* bound: how often the API or the watcher dies
  Nobody       \* the owner of a file that is not there

ASSUME UploadAssumption ==
  /\ FolderOf \in [Files -> Folders]
  /\ MaxCrashes \in Nat
  /\ Nobody \notin Requests /\ "before" \notin Requests

VARIABLES
  tree,      \* whose bytes lie at each place: a request's, older ones, nobody's
  request,   \* what each request has come to
  live,      \* the live queue row of a folder
  finished,  \* how its finished rows ended
  events,    \* folders with an event the watcher has not enqueued yet
  lost,      \* history: folders whose event died with the watcher, until their next job
  index,     \* whose bytes of each place the index holds
  tried,     \* whose bytes the last job of the folder read, however it ended
  recorded,  \* the uploads table: outcome and folders
  crashes

vars == <<tree, request, live, finished, events, lost, index, tried, recorded, crashes>>

Owners == Requests \cup {"before", Nobody}
Fresh == [at |-> "new", mode |-> "fail", todo |-> {}, accepted |-> {}, rejected |-> {}, written |-> {}]
NoRecord == [outcome |-> "none", folders |-> {}]

TypeOK ==
  /\ tree \in [Files -> Owners] /\ index \in [Files -> Owners] /\ tried \in [Files -> Owners]
  /\ request \in [Requests -> [at: {"new", "staging", "moving", "queueing", "answered", "dead"},
                               mode: {"fail", "skip", "replace"}, todo: SUBSET (Files \cup Folders),
                               accepted: SUBSET Files, rejected: SUBSET Files, written: SUBSET Files]]
  /\ live \in [Folders -> {"none", "pending", "processing"}]
  /\ finished \in [Folders -> SUBSET {"done", "failed"}]
  /\ events \subseteq Folders /\ lost \subseteq Folders
  /\ recorded \in [Requests -> [outcome: {"none", "accepted", "rejected", "conflict"},
                                folders: SUBSET Folders]]
  /\ crashes \in 0..MaxCrashes

Init ==
  /\ tree \in [Files -> {"before", Nobody}] /\ index = tree /\ tried = tree
  /\ request = [r \in Requests |-> Fresh]
  /\ live = [f \in Folders |-> "none"] /\ finished = [f \in Folders |-> {}]
  /\ events = {} /\ lost = {} /\ crashes = 0
  /\ recorded = [r \in Requests |-> NoRecord]

-----------------------------------------------------------------------------
(* A request.                                                               *)

(* Mutant: requests take turns anywhere.                                    *)
LoopFree_Always(r) == TRUE

(* Between two awaits no other request runs.                                *)
LoopFree(r) == \A q \in Requests \ {r} : request[q].at \notin {"moving", "queueing"}

Elsewhere == UNCHANGED <<live, finished, events, lost, index, tried, crashes>>

Record(r, outcome, folders) ==
  recorded' = [recorded EXCEPT ![r] = [outcome |-> outcome, folders |-> folders]]

(* The destination, the number of files and the session names are in order. *)
Begin(r, files, mode) ==
  /\ request[r].at = "new" /\ files # {} /\ LoopFree(r)
  /\ request' = [request EXCEPT ![r] = [Fresh EXCEPT !.at = "staging", !.mode = mode, !.todo = files]]
  /\ Elsewhere /\ UNCHANGED <<tree, recorded>>

(* Too many files, or a session nobody could ingest.                        *)
RefuseAtDoor(r) ==
  /\ request[r].at = "new" /\ LoopFree(r)
  /\ request' = [request EXCEPT ![r].at = "answered"]
  /\ Record(r, "rejected", {})
  /\ Elsewhere /\ UNCHANGED tree

(* Mutant: each file goes to its place as soon as it is found in order.     *)
Stage_AtOnce(r, f) ==
  /\ request[r].at = "staging" /\ f \in request[r].todo /\ LoopFree(r)
  /\ tree[f] = Nobody
  /\ tree' = [tree EXCEPT ![f] = r]
  /\ request' = [request EXCEPT ![r].todo = @ \ {f}, ![r].accepted = @ \cup {f}]
  /\ Elsewhere /\ UNCHANGED recorded

(* Streaming a file is where requests take turns.                           *)
Stage(r, f) ==
  /\ request[r].at = "staging" /\ f \in request[r].todo /\ LoopFree(r)
  /\ request' = [request EXCEPT ![r].todo = @ \ {f}, ![r].accepted = @ \cup {f}]
  /\ Elsewhere /\ UNCHANGED <<tree, recorded>>

(* Its name, extension, size or content is not what it must be.             *)
Reject(r, f) ==
  /\ request[r].at = "staging" /\ f \in request[r].todo /\ LoopFree(r)
  /\ request' = [request EXCEPT ![r].todo = @ \ {f}, ![r].rejected = @ \cup {f}]
  /\ Elsewhere /\ UNCHANGED <<tree, recorded>>

Staged(r) == request[r].at = "staging" /\ request[r].todo = {} /\ LoopFree(r)
Collisions(r) == {f \in request[r].accepted : tree[f] # Nobody}

Refuse(r) ==
  /\ Staged(r) /\ request[r].rejected # {}
  /\ request' = [request EXCEPT ![r].at = "answered"]
  /\ Record(r, "rejected", {})
  /\ Elsewhere /\ UNCHANGED tree

(* Mutant: an outcome that no reader of the table knows.                    *)
Conflict_Exists(r) ==
  /\ Staged(r) /\ Collisions(r) # {}
  /\ request' = [request EXCEPT ![r].at = "answered"]
  /\ Record(r, "exists", {})
  /\ Elsewhere /\ UNCHANGED tree

Conflict(r) ==
  /\ Staged(r) /\ request[r].rejected = {}
  /\ request[r].mode = "fail" /\ Collisions(r) # {}
  /\ request' = [request EXCEPT ![r].at = "answered"]
  /\ Record(r, "conflict", {})
  /\ Elsewhere /\ UNCHANGED tree

ToWrite(r) ==
  IF request[r].mode = "skip" THEN request[r].accepted \ Collisions(r) ELSE request[r].accepted

Commit(r) ==
  /\ Staged(r) /\ request[r].rejected = {}
  /\ request[r].mode = "fail" => Collisions(r) = {}
  /\ request' = [request EXCEPT ![r].at = "moving", ![r].todo = ToWrite(r)]
  /\ Elsewhere /\ UNCHANGED <<tree, recorded>>

(* os.replace: the file appears complete, and the watcher sees it.          *)
Move(r, f) ==
  /\ request[r].at = "moving" /\ f \in request[r].todo
  /\ live[FolderOf[f]] # "processing"
  /\ tree' = [tree EXCEPT ![f] = r]
  /\ request' = [request EXCEPT ![r].todo = @ \ {f}, ![r].written = @ \cup {f}]
  /\ events' = events \cup {FolderOf[f]}
  /\ UNCHANGED <<live, finished, lost, index, tried, recorded, crashes>>

(* A target that cannot be replaced ends the request with an error; what    *)
(* was moved stays.                                                         *)
MoveFails(r) ==
  /\ request[r].at = "moving" /\ request[r].todo # {}
  /\ request' = [request EXCEPT ![r].at = "answered"]
  /\ Elsewhere /\ UNCHANGED <<tree, recorded>>

WrittenFolders(r) == {FolderOf[f] : f \in request[r].written}

(* Mutant: the folders are left to the watcher's own events.                *)
StartQueueing_LeftToWatcher(r) ==
  /\ request[r].at = "moving" /\ request[r].todo = {}
  /\ request' = [request EXCEPT ![r].at = "queueing"]
  /\ Elsewhere /\ UNCHANGED <<tree, recorded>>

StartQueueing(r) ==
  /\ request[r].at = "moving" /\ request[r].todo = {}
  /\ request' = [request EXCEPT ![r].at = "queueing", ![r].todo = WrittenFolders(r)]
  /\ Elsewhere /\ UNCHANGED <<tree, recorded>>

(* Mutant: the unique index covers finished rows too.                       *)
WithRow_OncePerFolder(f) ==
  [live EXCEPT ![f] = IF @ = "none" /\ finished[f] = {} THEN "pending" ELSE @]

(* enqueue: a new row, or the folder's live row is pushed back.             *)
WithRow(f) == [live EXCEPT ![f] = IF @ = "none" THEN "pending" ELSE @]

Enqueue(r, f) ==
  /\ request[r].at = "queueing" /\ f \in request[r].todo
  /\ live' = WithRow(f)
  /\ request' = [request EXCEPT ![r].todo = @ \ {f}]
  /\ UNCHANGED <<tree, finished, events, lost, index, tried, recorded, crashes>>

Accept(r) ==
  /\ request[r].at = "queueing" /\ request[r].todo = {}
  /\ request' = [request EXCEPT ![r].at = "answered"]
  /\ Record(r, "accepted", WrittenFolders(r))
  /\ Elsewhere /\ UNCHANGED tree

(* The API process or the watcher dies, or both, for by default the watcher *)
(* is a thread of the API.  The requests get no answer and no record, and   *)
(* the events the watcher had not enqueued are gone: nothing scans the tree *)
(* at the next start.                                                       *)
Crash(died) ==
  /\ crashes < MaxCrashes /\ crashes' = crashes + 1
  /\ request' = [r \in Requests |->
       IF "api" \in died /\ request[r].at \in {"staging", "moving", "queueing"}
       THEN [request[r] EXCEPT !.at = "dead"] ELSE request[r]]
  /\ events' = IF "watcher" \in died THEN {} ELSE events
  /\ lost' = lost \cup (events \ events')
  /\ UNCHANGED <<tree, live, finished, index, tried, recorded>>

-----------------------------------------------------------------------------
(* Watcher and worker.                                                      *)

Deliver(f) ==
  /\ f \in events /\ events' = events \ {f}
  /\ live' = WithRow(f)
  /\ UNCHANGED <<tree, request, finished, lost, index, tried, recorded, crashes>>

BeingFilled(f) ==
  \E r \in Requests :
    \/ request[r].at = "moving" /\ \E g \in request[r].todo : FolderOf[g] = f
    \/ request[r].at = "queueing" /\ f \in request[r].todo

Claim(f) ==
  /\ live[f] = "pending" /\ f \notin events /\ ~BeingFilled(f)
  /\ live' = [live EXCEPT ![f] = "processing"]
  /\ UNCHANGED <<tree, request, finished, events, lost, index, tried, recorded, crashes>>

JobEnds(f, status) ==
  /\ live[f] = "processing"
  /\ live' = [live EXCEPT ![f] = "none"]
  /\ finished' = [finished EXCEPT ![f] = @ \cup {status}]
  /\ tried' = [g \in Files |-> IF FolderOf[g] = f THEN tree[g] ELSE tried[g]]
  /\ lost' = lost \ {f}
  /\ UNCHANGED <<tree, request, events, recorded, crashes>>

Complete(f) ==
  /\ JobEnds(f, "done")
  /\ index' = [g \in Files |-> IF FolderOf[g] = f THEN tree[g] ELSE index[g]]

GiveUp(f) == JobEnds(f, "failed") /\ UNCHANGED index

Next ==
  \/ \E r \in Requests :
       \/ \E files \in SUBSET Files, mode \in {"fail", "skip", "replace"} : Begin(r, files, mode)
       \/ RefuseAtDoor(r) \/ Refuse(r) \/ Conflict(r) \/ Commit(r) \/ MoveFails(r)
       \/ StartQueueing(r) \/ Accept(r)
       \/ \E f \in Files : Stage(r, f) \/ Reject(r, f) \/ Move(r, f)
       \/ \E f \in Folders : Enqueue(r, f)
  \/ \E f \in Folders : Deliver(f) \/ Claim(f) \/ Complete(f) \/ GiveUp(f)
  \/ \E died \in {{"api"}, {"watcher"}, {"api", "watcher"}} : Crash(died)

Spec == Init /\ [][Next]_vars
-----------------------------------------------------------------------------
(* upload_status: the rows of the upload's folders, whoever queued them.    *)
Statuses(r) ==
  LET folders == recorded[r].folders IN
    {live[f] : f \in folders} \cup UNION {finished[f] : f \in folders}

Status(r) ==
  CASE recorded[r].outcome # "accepted" -> recorded[r].outcome
    [] recorded[r].outcome = "accepted" /\ "failed" \in Statuses(r) -> "failed"
    [] recorded[r].outcome = "accepted" /\ "failed" \notin Statuses(r)
         /\ "processing" \in Statuses(r) -> "processing"
    [] recorded[r].outcome = "accepted" /\ Statuses(r) \cap {"failed", "processing"} = {}
         /\ ("pending" \in Statuses(r) \/ recorded[r].folders = {}) -> "queued"
    [] OTHER -> "done"

(* "All or nothing": a request that was refused or met a collision has left *)
(* nothing in the source tree (module comment, step 2).                     *)
RefusedWritesNothing ==
  \A r \in Requests, f \in Files :
    tree[f] = r => recorded[r].outcome \in {"none", "accepted"} /\ request[r].rejected = {}

(* "Never a silent overwrite": two admins who upload the same file at the   *)
(* same time do not overwrite each other unless they chose to (step 3).     *)
OnlyReplaceOverwrites ==
  [][\A r \in Requests, f \in Files :
       tree[f] # Nobody /\ tree'[f] = r /\ tree[f] # r => request[r].mode = "replace"]_vars

(* A file that arrived is worked on, queued, or about to be queued by the   *)
(* watcher: always when its upload was accepted ("Nothing is lost", upload),*)
(* and when it was not, unless the watcher died with the event of the move. *)
(* Nothing else loses a file: no refusal, failing move or crash of the API  *)
(* alone (step 5).                                                          *)
WrittenIsHandled ==
  \A f \in Files :
    tried[f] # tree[f] =>
      \/ live[FolderOf[f]] # "none" \/ FolderOf[f] \in events
      \/ /\ FolderOf[f] \in lost
         /\ \E r \in Requests : tree[f] = r /\ recorded[r].outcome # "accepted"

(* An upload that is shown as done is indexed, file by file, unless a later *)
(* upload replaced the file (upload_status).                                *)
DoneIsTrue ==
  \A r \in Requests :
    Status(r) = "done" => \A f \in request[r].written : index[f] = r \/ tree[f] # r

(* "The status cannot drift from what actually happened": an upload is not  *)
(* shown as failed when what it wrote is indexed (upload_status).           *)
FailedIsTrue ==
  \A r \in Requests :
    Status(r) = "failed" => \E f \in request[r].written : index[f] # r
=============================================================================
