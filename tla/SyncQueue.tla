------------------------------ MODULE SyncQueue ------------------------------
(***************************************************************************)
(* The durable work queue of the watcher (core/queue.py, table sync_queue) *)
(* and the worker half of the watcher (watcher/runner.py).                 *)
(*                                                                         *)
(* Several processes share the table: long-running services (`nhpc watch`, *)
(* or the thread `nhpc serve` starts) and one-shot drainers                *)
(* (`nhpc watch --once`).  Every queue function is one SQL statement on an *)
(* autocommit connection, so it is one atomic step here.                   *)
(*                                                                         *)
(* Time is kept relative to the database clock: `due` is settle_until      *)
(* minus now, `age` is now minus claimed_at, `quiet` is now minus          *)
(* last_event_at.  Tick moves them together; OverdueCap, StaleAfter + 1    *)
(* and Settle are the values beyond which they are no longer told apart.   *)
(***************************************************************************)
EXTENDS Integers, FiniteSets

CONSTANTS
  Paths,        \* question folders: the queue key (queue.question_folder)
  Events,       \* event types; the queue itself never looks at them
  RowIds,       \* ids of rows; the id of a finished row nobody holds is reused
  Services,     \* `nhpc watch` processes and watcher threads of `nhpc serve`
  Drainers,     \* `nhpc watch --once` processes
  NoRow,        \* a worker that holds no job
  NoWorker,     \* claimed_by IS NULL
  Settle,       \* WATCH_SETTLE_SECONDS
  Backoff,      \* the 30 seconds that fail() multiplies by attempts
  MaxAttempts,  \* WATCH_MAX_ATTEMPTS
  StaleAfter,   \* WATCH_STALE_SECONDS
  MaxJobTime,   \* environment: the longest a job runs before it ends or dies
  OverdueCap,   \* bound: an overdue job is at most this much overdue
  MaxStarts,    \* bound: how many times worker processes are launched
  SoloStart,    \* environment: a service is launched only while no job runs
  HardDeletes   \* environment: admins hard-delete folders while workers run

Workers == Services \cup Drainers
Live == {"pending", "processing"}

ASSUME QueueAssumption ==
  /\ Settle \in Nat /\ Backoff \in Nat /\ StaleAfter \in Nat
  /\ MaxJobTime \in Nat /\ OverdueCap \in Nat /\ MaxStarts \in Nat
  /\ MaxAttempts \in Nat \ {0}
  /\ Events # {} /\ Events \subseteq {"upsert", "delete"}
  /\ SoloStart \in BOOLEAN /\ HardDeletes \in BOOLEAN
  /\ NoRow \notin RowIds /\ NoWorker \notin Workers
  /\ Services \cap Drainers = {}
  /\ Workers \cap {"clear", "waiting", "orphaned"} = {}   \* the words of FolderLease

VARIABLES
  rows,     \* the table sync_queue
  pc,       \* where each worker is in runner.main / _work_once
  job,      \* the row id a worker got from claim_ready
  elapsed,  \* how long it has been working on it
  starts    \* launches so far

vars == <<rows, pc, job, elapsed, starts>>

Row == [status: Live \cup {"absent", "done", "failed"}, path: Paths,
        event: Events, due: Int, quiet: 0..Settle, attempts: Nat,
        owner: Workers \cup {NoWorker}, age: 0..(StaleAfter + 1)]

TypeOK ==
  /\ rows \in [RowIds -> Row]
  /\ pc \in [Workers -> {"down", "idle", "draining", "busy"}]
  /\ job \in [Workers -> RowIds \cup {NoRow}]
  /\ elapsed \in [Workers -> 0..MaxJobTime]
  /\ starts \in 0..MaxStarts

Larger(a, b) == IF a >= b THEN a ELSE b
Smaller(a, b) == IF a <= b THEN a ELSE b

LiveRows(p) == {r \in RowIds : rows[r].path = p /\ rows[r].status \in Live}
Held(r) == \E w \in Workers : job[w] = r
Ready == {r \in RowIds : rows[r].status = "pending" /\ rows[r].due <= 0}

FreshRow(p, e) ==
  [status |-> "pending", path |-> p, event |-> e, due |-> Settle, quiet |-> 0,
   attempts |-> 0, owner |-> NoWorker, age |-> 0]

(* claimed_by and claimed_at are read only while a row is 'processing', its  *)
(* other times only while it is live.                                       *)
Finished(row, status) ==
  [status |-> status, path |-> row.path, event |-> row.event, due |-> 0, quiet |-> 0,
   attempts |-> row.attempts, owner |-> NoWorker, age |-> 0]

Pending(row, due) ==
  [status |-> "pending", path |-> row.path, event |-> row.event, due |-> due,
   quiet |-> row.quiet, attempts |-> row.attempts, owner |-> NoWorker, age |-> 0]

Init ==
  /\ \E p \in Paths, e \in Events :
       rows = [r \in RowIds |->
                Finished(FreshRow(p, e), "absent")]
  /\ pc = [w \in Workers |-> "down"]
  /\ job = [w \in Workers |-> NoRow]
  /\ elapsed = [w \in Workers |-> 0]
  /\ starts = 0

-----------------------------------------------------------------------------
(* queue.enqueue: INSERT, or ON CONFLICT on the partial unique index        *)
(* coalesce into the live row, whatever its status is.                      *)

(* Mutant: the conflict target covers pending rows only.                    *)
Insert_PendingOnly(p, e) ==
  /\ \A r \in LiveRows(p) : rows[r].status # "pending"
  /\ \E r \in RowIds :
       /\ rows[r].status \notin Live /\ ~Held(r)
       /\ rows' = [rows EXCEPT ![r] = FreshRow(p, e)]

Insert(p, e) ==
  /\ LiveRows(p) = {}
  /\ \E r \in RowIds :
       /\ rows[r].status \notin Live /\ ~Held(r)
       /\ rows' = [rows EXCEPT ![r] = FreshRow(p, e)]

(* Mutant: a repeated event does not push the deadline out.                 *)
Coalesced_KeepsDeadline(row, e) == [row EXCEPT !.event = e, !.quiet = 0]

(* GREATEST of the deadlines, and the newest event type.                    *)
Coalesced(row, e) ==
  [status |-> row.status, path |-> row.path, event |-> e,
   due |-> Larger(row.due, Settle), quiet |-> 0, attempts |-> row.attempts,
   owner |-> row.owner, age |-> row.age]

Coalesce(p, e) ==
  \E r \in LiveRows(p) : rows' = [rows EXCEPT ![r] = Coalesced(@, e)]

Enqueue(p, e) ==
  /\ Insert(p, e) \/ Coalesce(p, e)
  /\ UNCHANGED <<pc, job, elapsed, starts>>

(* tree_routes.delete_path step 5: DELETE FROM sync_queue for the path,     *)
(* claimed or not.  A worker that holds the row does not notice.            *)
Withdraw(p) ==
  /\ HardDeletes
  /\ rows' = [r \in RowIds |->
                IF rows[r].path = p THEN Finished(rows[r], "absent") ELSE rows[r]]
  /\ UNCHANGED <<pc, job, elapsed, starts>>

-----------------------------------------------------------------------------
(* queue.recover_stale(cutoff): release every claim older than the cutoff.  *)

(* Mutant: a claim exactly as old as the cutoff is released too.            *)
Recovered_AtCutoff(r, cutoff) ==
  IF rows[r].status = "processing" /\ rows[r].age >= cutoff
  THEN Pending(rows[r], rows[r].due)
  ELSE rows[r]

(* Mutant: the age of the claim is not looked at.                           *)
Recovered_IgnoresAge(r, cutoff) ==
  IF rows[r].status = "processing"
  THEN Pending(rows[r], rows[r].due)
  ELSE rows[r]

(* Mutant: the comparison of the claim's age is turned round.               *)
Recovered_Younger(r, cutoff) ==
  IF rows[r].status = "processing" /\ rows[r].age < cutoff
  THEN Pending(rows[r], rows[r].due)
  ELSE rows[r]

Recovered(r, cutoff) ==
  IF rows[r].status = "processing" /\ rows[r].age > cutoff
  THEN Pending(rows[r], rows[r].due)
  ELSE rows[r]

RecoverStale(cutoff) == rows' = [r \in RowIds |-> Recovered(r, cutoff)]

-----------------------------------------------------------------------------
(* runner.main: a service releases EVERY claim when it starts (cutoff 0);   *)
(* a drainer goes straight to _work_once.                                   *)

StartService(w) ==
  /\ w \in Services /\ pc[w] = "down" /\ starts < MaxStarts
  /\ SoloStart => \A v \in Workers : job[v] = NoRow
  /\ RecoverStale(0)
  /\ pc' = [pc EXCEPT ![w] = "idle"]
  /\ starts' = starts + 1
  /\ UNCHANGED <<job, elapsed>>

(* The last launch is left to a service: the bound leaves no queue unserved. *)
StartDrainer(w) ==
  /\ w \in Drainers /\ pc[w] = "down" /\ starts + 1 < MaxStarts
  /\ RecoverStale(StaleAfter)
  /\ pc' = [pc EXCEPT ![w] = "draining"]
  /\ starts' = starts + 1
  /\ UNCHANGED <<job, elapsed>>

(* The head of _work_once in the service's poll loop. *)
BeginTick(w) ==
  /\ w \in Services /\ pc[w] = "idle"
  /\ RecoverStale(StaleAfter)
  /\ pc' = [pc EXCEPT ![w] = "draining"]
  /\ UNCHANGED <<job, elapsed, starts>>

Claimed(row, w) ==
  [status |-> "processing", path |-> row.path, event |-> row.event, due |-> row.due,
   quiet |-> row.quiet, attempts |-> row.attempts + 1, owner |-> w, age |-> 0]

(* queue.claim_ready(limit=1), ORDER BY settle_until. *)
Claim(w) ==
  /\ pc[w] = "draining"
  /\ \E r \in Ready :
       /\ \A s \in Ready : rows[r].due <= rows[s].due
       /\ rows' = [rows EXCEPT ![r] = Claimed(@, w)]
       /\ job' = [job EXCEPT ![w] = r]
  /\ pc' = [pc EXCEPT ![w] = "busy"]
  /\ elapsed' = [elapsed EXCEPT ![w] = 0]
  /\ UNCHANGED starts

Rest(w) == IF w \in Services THEN "idle" ELSE "down"

(* claim_ready returned nothing: a service waits for the next poll, a       *)
(* drainer exits.                                                           *)
Drained(w) ==
  /\ pc[w] = "draining" /\ Ready = {}
  /\ pc' = [pc EXCEPT ![w] = Rest(w)]
  /\ UNCHANGED <<rows, job, elapsed, starts>>

Release(w, next) ==
  /\ pc' = [pc EXCEPT ![w] = next]
  /\ job' = [job EXCEPT ![w] = NoRow]
  /\ elapsed' = [elapsed EXCEPT ![w] = 0]
  /\ UNCHANGED starts

(* complete and fail address the row by id alone: they act on whatever has  *)
(* become of it, and match nothing when it was deleted.                     *)
Stored(r, row) == IF rows[r].status = "absent" THEN rows[r] ELSE row

(* Mutant: a status outside the table's CHECK list.                         *)
Succeed_UnknownStatus(w) ==
  /\ pc[w] = "busy"
  /\ rows' = [rows EXCEPT ![job[w]] = Stored(job[w], Finished(@, "complete"))]
  /\ Release(w, "draining")

(* The job ran: queue.complete(id).                                         *)
Succeed(w) ==
  /\ pc[w] = "busy"
  /\ rows' = [rows EXCEPT ![job[w]] = Stored(job[w], Finished(@, "done"))]
  /\ Release(w, "draining")

(* queue.fail(id): retry with a back-off, or give up at max_attempts.       *)
Failed(row) ==
  IF row.attempts >= MaxAttempts
  THEN Finished(row, "failed")
  ELSE Pending(row, Backoff * row.attempts)

(* Mutant: the unique index does not cover the row that fail() revives.     *)
Conflicts_Never(r) == FALSE

Conflicts(r) ==
  /\ rows[r].status # "absent"
  /\ Failed(rows[r]).status = "pending"
  /\ LiveRows(rows[r].path) \ {r} # {}

FailJob(w) ==
  /\ pc[w] = "busy" /\ ~Conflicts(job[w])
  /\ rows' = [rows EXCEPT ![job[w]] = Stored(job[w], Failed(@))]
  /\ Release(w, "draining")

(* fail() would make a second live row for the path: the unique index       *)
(* raises, the exception leaves _work_once and ends this tick.              *)
FailRaises(w) ==
  /\ pc[w] = "busy" /\ Conflicts(job[w])
  /\ UNCHANGED rows
  /\ Release(w, Rest(w))

(* A clean shutdown (_STOP): never in the middle of a job.                  *)
StopService(w) ==
  /\ w \in Services /\ pc[w] \in {"idle", "draining"} /\ starts < MaxStarts
  /\ pc' = [pc EXCEPT ![w] = "down"]
  /\ UNCHANGED <<rows, job, elapsed, starts>>

(* The process dies; what it claimed stays 'processing' in the table.       *)
Crash(w) ==
  /\ pc[w] # "down" /\ starts < MaxStarts
  /\ UNCHANGED rows
  /\ Release(w, "down")

-----------------------------------------------------------------------------
Aged(row) ==
  [status |-> row.status, path |-> row.path, event |-> row.event,
   due |-> IF row.due > -OverdueCap THEN row.due - 1 ELSE row.due,
   quiet |-> Smaller(row.quiet + 1, Settle), attempts |-> row.attempts,
   owner |-> row.owner,
   age |-> IF row.status = "processing" THEN Smaller(row.age + 1, StaleAfter + 1)
           ELSE row.age]

Tick ==
  /\ \A w \in Workers : pc[w] = "busy" => elapsed[w] < MaxJobTime
  /\ rows' = [r \in RowIds |-> IF rows[r].status \in Live THEN Aged(rows[r]) ELSE rows[r]]
  /\ elapsed' = [w \in Workers |-> IF pc[w] = "busy" THEN elapsed[w] + 1 ELSE elapsed[w]]
  /\ UNCHANGED <<pc, job, starts>>

WorkerStep(w) ==
  \/ StartService(w) \/ StartDrainer(w) \/ BeginTick(w) \/ Claim(w)
  \/ Drained(w) \/ Succeed(w) \/ FailJob(w) \/ FailRaises(w)
  \/ StopService(w) \/ Crash(w)

Next ==
  \/ \E p \in Paths, e \in Events : Enqueue(p, e)
  \/ \E p \in Paths : Withdraw(p)
  \/ \E w \in Workers : WorkerStep(w)
  \/ Tick

Spec == Init /\ [][Next]_vars
-----------------------------------------------------------------------------
(* The unique index over live rows is never violated, by the statements as  *)
(* they are: enqueue coalesces, recover_stale keeps a live row live, fail    *)
(* is the one statement that could revive a finished row (migration 004).   *)
OneLiveRowPerPath == \A p \in Paths : Cardinality(LiveRows(p)) <= 1

(* "Two workers can never claim the same job" (queue.claim_ready, module     *)
(* comment): a worker in the middle of a job still owns its row, so no other *)
(* worker can claim it and its complete() or fail() hits its own claim.      *)
ClaimExclusive ==
  \A w \in Workers :
    job[w] # NoRow =>
      \/ rows[job[w]].status = "processing" /\ rows[job[w]].owner = w
      \/ rows[job[w]].status = "absent"

(* No two workers run the pipeline on the same folder at the same time.      *)
(* Stronger than ClaimExclusive: it is about paths, across rows.             *)
OneWorkerPerPath ==
  \A v, w \in Workers :
    v # w /\ job[v] # NoRow /\ job[w] # NoRow => rows[job[v]].path # rows[job[w]].path

(* Settling (runner module comment): a folder is handed to a worker only     *)
(* once no event has touched it for Settle, whether the row is new, was      *)
(* pushed out, came back from fail's back-off or was recovered.              *)
ClaimsQuietRows ==
  \A r \in RowIds :
    rows[r].status = "pending" /\ rows'[r].status = "processing" => rows[r].quiet >= Settle

QuietBeforeClaim == [][ClaimsQuietRows]_vars

(* queue.fail: "retrying forever would hide a genuinely broken document      *)
(* behind an infinite loop": no row is claimed more than MaxAttempts times.  *)
RetryBudget == \A r \in RowIds : rows[r].attempts <= MaxAttempts

(* A row leaves 'processing' for 'done' or 'failed' only through the worker  *)
(* that claimed it, and 'pending' never turns into 'done': nothing is marked *)
(* finished that nobody processed.                                           *)
OwnerFinishes ==
  \A r \in RowIds :
    rows[r].status \in Live /\ rows'[r].status \in {"done", "failed"}
      => /\ rows[r].status = "processing"
         /\ rows[r].owner \in Workers
         /\ job[rows[r].owner] = r /\ job'[rows[r].owner] = NoRow

FinishedByOwner == [][OwnerFinishes]_vars
-----------------------------------------------------------------------------
(* The abstract lease of a folder: waiting if its live row is pending, held *)
(* by the worker whose job it is, orphaned if the claim outlived its worker. *)
Holders(p) == {w \in Workers : job[w] # NoRow /\ rows[job[w]].path = p}

Lease(p) ==
  CASE LiveRows(p) = {} -> "clear"
    [] \E r \in LiveRows(p) : rows[r].status = "pending" -> "waiting"
    [] OTHER -> IF Holders(p) = {} THEN "orphaned" ELSE CHOOSE w \in Holders(p) : TRUE

Leases == [p \in Paths |-> Lease(p)]

FL == INSTANCE FolderLease WITH lease <- Leases

(* While services start only when no job runs and jobs end within the stale *)
(* cutoff, the table and the workers implement the lease: recover_stale      *)
(* releases orphaned claims only, complete and fail act on their own claim.  *)
ImplementsLease == FL!Spec

(* Scheduling: the service polls for ever, systemd restarts it               *)
(* (Restart=always), a drainer once launched runs to its end, every job ends *)
(* (the stages have timeouts), and time passes.                              *)
Fairness ==
  /\ WF_vars(Tick)
  /\ \A w \in Services : WF_vars(StartService(w)) /\ WF_vars(BeginTick(w))
  /\ \A w \in Workers :
       /\ WF_vars(Claim(w)) /\ WF_vars(Drained(w))
       /\ WF_vars(Succeed(w) \/ FailJob(w) \/ FailRaises(w))

FairSpec == Spec /\ Fairness

(* Once events stop arriving, every folder's job ends as done or failed,     *)
(* crashes and restarts included: nothing stays pending or claimed for ever. *)
EventuallyDrained ==
  \/ []<><<\E p \in Paths, e \in Events : Enqueue(p, e)>>_vars
  \/ <>[](\A p \in Paths : LiveRows(p) = {})
=============================================================================
