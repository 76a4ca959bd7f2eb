----------------------------- MODULE WatcherSync -----------------------------
(***************************************************************************)
(* The watcher end to end: the source tree, the observer that turns file   *)
(* events into queue rows, the workers that run the pipeline slice, and    *)
(* what the index then holds for each question folder.                     *)
(*                                                                         *)
(* A folder's content is a version number, 0 when the folder is absent.    *)
(* The observer and the worker of a service live in one process, so the    *)
(* events that watchdog has not delivered yet die with it.  The stages of  *)
(* process_upsert are the two steps that matter here: the crawl reads the  *)
(* source, the later stages store what the crawl read.                     *)
(* A folder is named by its canonical id: of a name that canonical_qid     *)
(* changes, process_upsert and process_delete look for rows by another id. *)
(***************************************************************************)
EXTENDS SyncQueue, Sequences

CONSTANTS
  MaxVersion,      \* bound: how many changes happen to the source tree
  MaxNotices,      \* bound: undelivered events
  CalmWhileBusy    \* environment: a folder is left alone while a job runs on it

ASSUME WatcherAssumption ==
  /\ MaxVersion \in Nat /\ MaxNotices \in Nat /\ CalmWhileBusy \in BOOLEAN
  /\ Events = {"upsert", "delete"}

VARIABLES
  disk,      \* content of each question folder in the source tree
  stamp,     \* the last version written
  notices,   \* events watchdog has seen and not yet handed to the handler
  task,      \* per worker: the event it claimed, its stage, what it crawled
  indexed,   \* the version the index holds for the folder, 0 for none
  active,    \* diaries.active of the folder's document
  missed,    \* history: a change of the folder never reached the queue
  gaveUp     \* history: the folder's last job ended as 'failed'

wvars == <<disk, stamp, notices, task, indexed, active, missed, gaveUp>>
allVars == <<vars, wvars>>

NoTask == [event |-> "upsert", stage |-> "none", seen |-> 0]
Stages == {"none", "claimed", "deleting", "crawling", "storing", "finished"}

WatcherTypeOK ==
  /\ TypeOK
  /\ disk \in [Paths -> 0..MaxVersion] /\ indexed \in [Paths -> 0..MaxVersion]
  /\ stamp \in 0..MaxVersion
  /\ notices \in Seq(Paths \X Events) /\ Len(notices) <= MaxNotices
  /\ task \in [Workers -> [event: Events, stage: Stages, seen: 0..MaxVersion]]
  /\ active \in [Paths -> BOOLEAN]
  /\ missed \in [Paths -> BOOLEAN] /\ gaveUp \in [Paths -> BOOLEAN]

WatcherInit ==
  /\ Init
  /\ disk = [p \in Paths |-> 0] /\ stamp = 0 /\ notices = <<>>
  /\ task = [w \in Workers |-> NoTask]
  /\ indexed = [p \in Paths |-> 0] /\ active = [p \in Paths |-> FALSE]
  /\ missed = [p \in Paths |-> FALSE] /\ gaveUp = [p \in Paths |-> FALSE]

ObserverUp == \E w \in Services : pc[w] # "down"
JobOn(p) == Holders(p) # {}
Left(p) == CalmWhileBusy => ~JobOn(p)

-----------------------------------------------------------------------------
(* The source tree changes; watchdog reports it if a service is up.         *)

Report(ps, batch) ==
  IF ObserverUp
  THEN /\ Len(notices) + Len(batch) <= MaxNotices
       /\ notices' = notices \o batch
       /\ UNCHANGED missed
  ELSE /\ missed' = [p \in Paths |-> missed[p] \/ p \in ps]
       /\ UNCHANGED notices

(* A file is created or modified in the folder.                             *)
WriteFolder(p) ==
  /\ stamp < MaxVersion /\ Left(p)
  /\ stamp' = stamp + 1 /\ disk' = [disk EXCEPT ![p] = stamp + 1]
  /\ Report({p}, << <<p, "upsert">> >>)
  /\ UNCHANGED <<vars, task, indexed, active, gaveUp>>

RemoveFolder(p) ==
  /\ disk[p] # 0 /\ Left(p)
  /\ disk' = [disk EXCEPT ![p] = 0]
  /\ Report({p}, << <<p, "delete">> >>)
  /\ UNCHANGED <<vars, stamp, task, indexed, active, gaveUp>>

(* on_moved: an upsert for the destination, then a delete for the source;   *)
(* a rename inside one folder yields both for the same folder.              *)
MoveFolder(p, q) ==
  /\ disk[p] # 0 /\ stamp < MaxVersion /\ Left(p) /\ Left(q)
  /\ stamp' = stamp + 1
  /\ disk' = [[disk EXCEPT ![p] = 0] EXCEPT ![q] = stamp + 1]
  /\ Report({p, q}, << <<q, "upsert">>, <<p, "delete">> >>)
  /\ UNCHANGED <<vars, task, indexed, active, gaveUp>>

(* Handler._enqueue.                                                        *)
Deliver ==
  /\ notices # <<>>
  /\ LET p == Head(notices)[1] IN
       /\ Left(p)
       /\ Enqueue(p, Head(notices)[2])
       /\ missed' = [missed EXCEPT ![p] = FALSE]
       /\ gaveUp' = [gaveUp EXCEPT ![p] = FALSE]
  /\ notices' = Tail(notices)
  /\ UNCHANGED <<disk, stamp, task, indexed, active>>

(* The database cannot be reached: the error is logged, the event is gone.  *)
DeliverFails ==
  /\ notices # <<>>
  /\ missed' = [missed EXCEPT ![Head(notices)[1]] = TRUE]
  /\ notices' = Tail(notices)
  /\ UNCHANGED <<vars, disk, stamp, task, indexed, active, gaveUp>>

-----------------------------------------------------------------------------
(* _work_once, one job: decide on the claimed event and on whether the      *)
(* folder exists, run the slice, complete.                                  *)

ClaimTask(w) ==
  /\ Claim(w)
  /\ task' = [task EXCEPT ![w] = [event |-> rows[job'[w]].event,
                                  stage |-> "claimed", seen |-> 0]]
  /\ UNCHANGED <<disk, stamp, notices, indexed, active, missed, gaveUp>>

Folder(w) == rows[job[w]].path

(* Mutant: the claimed event is trusted, the folder is not looked at.       *)
Decide_TrustsEvent(w) ==
  /\ task[w].stage = "claimed"
  /\ task' = [task EXCEPT ![w].stage =
                IF task[w].event = "delete" THEN "deleting" ELSE "crawling"]
  /\ UNCHANGED <<vars, disk, stamp, notices, indexed, active, missed, gaveUp>>

(* The folder exists: process_upsert, whatever the event was.  It is gone:  *)
(* process_delete for a delete, nothing at all for an upsert.               *)
Decide(w) ==
  /\ task[w].stage = "claimed"
  /\ task' = [task EXCEPT ![w].stage =
                IF disk[Folder(w)] # 0 THEN "crawling"
                ELSE IF task[w].event = "delete" THEN "deleting" ELSE "finished"]
  /\ UNCHANGED <<vars, disk, stamp, notices, indexed, active, missed, gaveUp>>

(* process_delete, soft_delete.                                             *)
SoftDelete(w) ==
  /\ task[w].stage = "deleting"
  /\ active' = [active EXCEPT ![Folder(w)] = FALSE]
  /\ task' = [task EXCEPT ![w].stage = "finished"]
  /\ UNCHANGED <<vars, disk, stamp, notices, indexed, missed, gaveUp>>

(* process_upsert up to the parse.  A folder that vanished since Decide     *)
(* leaves what an earlier crawl put in organized/ to be loaded again.       *)
Crawl(w) ==
  /\ task[w].stage = "crawling"
  /\ LET found == IF disk[Folder(w)] # 0 THEN disk[Folder(w)] ELSE indexed[Folder(w)] IN
       /\ found # 0
       /\ task' = [task EXCEPT ![w].stage = "storing", ![w].seen = found]
  /\ UNCHANGED <<vars, disk, stamp, notices, indexed, active, missed, gaveUp>>

(* Mutant: the folder is crawled and indexed but not reactivated.           *)
Store_NoReactivate(w) ==
  /\ task[w].stage = "storing"
  /\ indexed' = [indexed EXCEPT ![Folder(w)] = task[w].seen]
  /\ active' = [active EXCEPT ![Folder(w)] = indexed[Folder(w)] = 0 \/ @]
  /\ task' = [task EXCEPT ![w].stage = "finished"]
  /\ UNCHANGED <<vars, disk, stamp, notices, missed, gaveUp>>

(* load, embed and reactivate.                                              *)
Store(w) ==
  /\ task[w].stage = "storing"
  /\ indexed' = [indexed EXCEPT ![Folder(w)] = task[w].seen]
  /\ active' = [active EXCEPT ![Folder(w)] = TRUE]
  /\ task' = [task EXCEPT ![w].stage = "finished"]
  /\ UNCHANGED <<vars, disk, stamp, notices, missed, gaveUp>>

Complete(w) ==
  /\ task[w].stage = "finished" /\ Succeed(w)
  /\ task' = [task EXCEPT ![w] = NoTask]
  /\ UNCHANGED <<disk, stamp, notices, indexed, active, missed, gaveUp>>

(* Any stage raises: crawl, parse, load or embed returned non-zero, the     *)
(* slice ingested nothing, the folder vanished before the crawl.            *)
TaskFails(w) ==
  /\ FailJob(w) \/ FailRaises(w)
  /\ gaveUp' = [gaveUp EXCEPT ![Folder(w)] =
                  @ \/ (rows[job[w]].status # "failed" /\ rows'[job[w]].status = "failed")]
  /\ task' = [task EXCEPT ![w] = NoTask]
  /\ UNCHANGED <<disk, stamp, notices, indexed, active, missed>>

(* Process control; with the last service the undelivered events are gone.  *)
Undelivered == {notices[i][1] : i \in DOMAIN notices}

Control(w) ==
  /\ StartService(w) \/ StartDrainer(w) \/ BeginTick(w) \/ Drained(w)
     \/ StopService(w) \/ Crash(w)
  /\ task' = [task EXCEPT ![w] = NoTask]
  /\ LET lost == ObserverUp /\ ~ObserverUp' IN
       /\ notices' = IF lost THEN <<>> ELSE notices
       /\ missed' = [p \in Paths |-> missed[p] \/ (lost /\ p \in Undelivered)]
  /\ UNCHANGED <<disk, stamp, indexed, active, gaveUp>>

TimePasses == Tick /\ UNCHANGED wvars

WatcherNext ==
  \/ \E p \in Paths : WriteFolder(p) \/ RemoveFolder(p)
  \/ \E p, q \in Paths : MoveFolder(p, q)
  \/ Deliver \/ DeliverFails
  \/ \E w \in Workers :
       \/ ClaimTask(w) \/ Decide(w) \/ SoftDelete(w) \/ Crawl(w) \/ Store(w)
       \/ Complete(w) \/ TaskFails(w) \/ Control(w)
  \/ TimePasses

WatcherSpec == WatcherInit /\ [][WatcherNext]_allVars

-----------------------------------------------------------------------------
InSync(p) ==
  IF disk[p] = 0 THEN ~active[p] ELSE active[p] /\ indexed[p] = disk[p]

Quiet(p) ==
  /\ p \notin Undelivered /\ LiveRows(p) = {} /\ ~JobOn(p)
  /\ ~missed[p] /\ ~gaveUp[p]

(* "The worker can be killed at any moment without losing a pending event"   *)
(* (runner module comment), "must reflect the LATEST state of the            *)
(* filesystem" (queue.enqueue): once a folder's events are all delivered and *)
(* its job is done, the index holds the folder's current content, or has it  *)
(* inactive when the folder is gone.                                         *)
DoneMeansInSync == \A p \in Paths : Quiet(p) => InSync(p)

(* A document is taken out of the index only for a folder that was absent:   *)
(* an event alone never deactivates a folder that is on disk.                *)
SoftDeleteOnlyAbsent ==
  [][\A p \in Paths : active[p] /\ ~active'[p] => disk[p] = 0]_allVars
(* What a search shows of a folder: "AND d.active" in every retriever.      *)
Shown == [p \in Paths |-> IF active[p] THEN indexed[p] ELSE 0]

MT == INSTANCE MirroredTree WITH Folders <- Paths, tree <- disk, shown <- Shown

(* A search changes only to what the folder holds: lost or late events,     *)
(* retries and restarts show nothing older and hide no folder that is there *)
(* (queue.enqueue: "must reflect the LATEST state of the filesystem").      *)
ImplementsMirror == MT!Spec
=============================================================================
