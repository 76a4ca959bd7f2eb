--------------------------- MODULE WatcherSyncProofs ---------------------------
(***************************************************************************)
(* First what the work queue guarantees for any number of folders, rows and *)
(* workers: types, one live row per folder, settling; and, where services   *)
(* start only while no job runs and no job outlasts the stale cutoff, the   *)
(* claims and the lease of a folder.                                        *)
(*                                                                         *)
(* Then what the watcher guarantees end to end, on top of that queue.  There *)
(* it is assumed throughout that services start only while no job runs, no  *)
(* job outlasts the stale cutoff, nobody hard-deletes, and a folder is left *)
(* alone while a job runs on it.                                            *)
(***************************************************************************)
EXTENDS WatcherSync, FiniteSetTheorems, TLAPS

(* A worker holds a row exactly while it is busy: with it, types are         *)
(* inductive.                                                               *)
BusyHasJob == \A w \in Workers : pc[w] = "busy" <=> job[w] # NoRow

TypeInv == TypeOK /\ BusyHasJob

LEMMA RowFields ==
  ASSUME NEW row \in Row
  PROVE  /\ row.status \in Live \cup {"absent", "done", "failed"}
         /\ row.path \in Paths /\ row.event \in Events /\ row.due \in Int
         /\ row.quiet \in 0..Settle /\ row.attempts \in Nat
         /\ row.owner \in Workers \cup {NoWorker} /\ row.age \in 0..(StaleAfter + 1)
  BY DEF Row

(* Every operator that rewrites a row yields a row.                         *)
LEMMA FreshRowType ==
  ASSUME NEW p \in Paths, NEW e \in Events
  PROVE  FreshRow(p, e) \in Row
  BY QueueAssumption DEF FreshRow, Row, Live

LEMMA CoalescedType ==
  ASSUME NEW row \in Row, NEW e \in Events
  PROVE  Coalesced(row, e) \in Row
  BY QueueAssumption DEF Coalesced, Row, Larger

LEMMA FinishedType ==
  ASSUME NEW row \in Row, NEW s \in {"absent", "done", "failed"}
  PROVE  Finished(row, s) \in Row
  BY QueueAssumption DEF Finished, Row

LEMMA PendingType ==
  ASSUME NEW row \in Row, NEW due \in Int
  PROVE  Pending(row, due) \in Row
  BY QueueAssumption DEF Pending, Row, Live

LEMMA ClaimedType ==
  ASSUME NEW row \in Row, NEW w \in Workers
  PROVE  Claimed(row, w) \in Row
  BY QueueAssumption DEF Claimed, Row, Live

LEMMA FailedType ==
  ASSUME NEW row \in Row
  PROVE  Failed(row) \in Row
  <1>1. Backoff * row.attempts \in Int
    BY RowFields, QueueAssumption
  <1>2. QED
    BY <1>1, FinishedType, PendingType DEF Failed

LEMMA AgedType ==
  ASSUME NEW row \in Row
  PROVE  Aged(row) \in Row
  BY QueueAssumption DEF Aged, Row, Smaller

LEMMA RecoveredType ==
  ASSUME rows \in [RowIds -> Row], NEW r \in RowIds, NEW cutoff
  PROVE  Recovered(r, cutoff) \in Row
  BY RowFields, PendingType DEF Recovered

LEMMA InitTypes == Init => TypeInv
  <1> SUFFICES ASSUME Init PROVE TypeInv
    OBVIOUS
  <1>1. PICK p \in Paths, e \in Events :
          rows = [r \in RowIds |-> Finished(FreshRow(p, e), "absent")]
    BY DEF Init
  <1>2. Finished(FreshRow(p, e), "absent") \in Row
    BY FreshRowType, FinishedType
  <1>3. rows \in [RowIds -> Row]
    BY <1>1, <1>2
  <1>4. QED
    BY <1>3, QueueAssumption DEF Init, TypeInv, TypeOK, BusyHasJob, Workers

(* The steps of a worker that end a job keep the types of its own state.    *)
LEMMA ReleaseTypes ==
  ASSUME TypeInv, NEW w \in Workers, NEW next \in {"down", "idle", "draining"},
         Release(w, next), rows' \in [RowIds -> Row]
  PROVE  TypeInv'
  BY QueueAssumption DEF TypeInv, TypeOK, BusyHasJob, Release

LEMMA StepTypes == TypeInv /\ [Next]_vars => TypeInv'
  <1> SUFFICES ASSUME TypeInv, [Next]_vars PROVE TypeInv'
    OBVIOUS
  <1>a. rows \in [RowIds -> Row]
    BY DEF TypeInv, TypeOK
  <1>b. ASSUME NEW w \in Workers, pc[w] = "busy" PROVE job[w] \in RowIds
    BY <1>b DEF TypeInv, TypeOK, BusyHasJob
  <1>1. ASSUME NEW p \in Paths, NEW e \in Events, Enqueue(p, e) PROVE TypeInv'
    <2>1. CASE Insert(p, e)
      <3>1. rows' \in [RowIds -> Row]
        BY <2>1, <1>a, FreshRowType DEF Insert
      <3>2. QED
        BY <3>1, <1>1 DEF Enqueue, TypeInv, TypeOK, BusyHasJob
    <2>2. CASE Coalesce(p, e)
      <3>3. rows' \in [RowIds -> Row]
        BY <2>2, <1>a, CoalescedType DEF Coalesce, LiveRows
      <3>4. QED
        BY <3>3, <1>1 DEF Enqueue, TypeInv, TypeOK, BusyHasJob
    <2>3. QED
      BY <2>1, <2>2, <1>1 DEF Enqueue
  <1>2. ASSUME NEW p \in Paths, Withdraw(p) PROVE TypeInv'
    <2>1. rows' \in [RowIds -> Row]
      BY <1>2, <1>a, FinishedType DEF Withdraw
    <2>2. QED
      BY <2>1, <1>2 DEF Withdraw, TypeInv, TypeOK, BusyHasJob
  <1>3. ASSUME NEW w \in Workers, StartService(w) \/ StartDrainer(w) \/ BeginTick(w)
        PROVE  TypeInv'
    <2>1. rows' \in [RowIds -> Row]
      BY <1>3, <1>a, RecoveredType DEF StartService, StartDrainer, BeginTick, RecoverStale
    <2>2. QED
      BY <2>1, <1>3, QueueAssumption
         DEF StartService, StartDrainer, BeginTick, TypeInv, TypeOK, BusyHasJob
  <1>4. ASSUME NEW w \in Workers, Claim(w) PROVE TypeInv'
    <2>1. PICK r \in RowIds :
            /\ rows' = [rows EXCEPT ![r] = Claimed(@, w)]
            /\ job' = [job EXCEPT ![w] = r]
      BY <1>4 DEF Claim, Ready
    <2>2. rows' \in [RowIds -> Row]
      BY <2>1, <1>a, ClaimedType
    <2>3. QED
      BY <2>1, <2>2, <1>4, QueueAssumption DEF Claim, TypeInv, TypeOK, BusyHasJob
  <1>5. ASSUME NEW w \in Workers, Drained(w) \/ StopService(w) PROVE TypeInv'
    BY <1>5 DEF Drained, StopService, Rest, TypeInv, TypeOK, BusyHasJob
  <1>6. ASSUME NEW w \in Workers, Succeed(w) PROVE TypeInv'
    <2>1. rows' \in [RowIds -> Row]
      BY <1>6, <1>a, <1>b, FinishedType DEF Succeed, Stored
    <2>2. QED
      BY <2>1, <1>6, ReleaseTypes DEF Succeed
  <1>7. ASSUME NEW w \in Workers, FailJob(w) PROVE TypeInv'
    <2>1. rows' \in [RowIds -> Row]
      BY <1>7, <1>a, <1>b, FailedType DEF FailJob, Stored
    <2>2. QED
      BY <2>1, <1>7, ReleaseTypes DEF FailJob
  <1>8. ASSUME NEW w \in Workers, FailRaises(w) \/ Crash(w) PROVE TypeInv'
    BY <1>8, <1>a, ReleaseTypes DEF FailRaises, Crash, Rest
  <1>9. CASE Tick
    <2>1. rows' \in [RowIds -> Row]
      BY <1>9, <1>a, AgedType DEF Tick
    <2>2. QED
      BY <2>1, <1>9, QueueAssumption DEF Tick, TypeInv, TypeOK, BusyHasJob
  <1>10. CASE UNCHANGED vars
    BY <1>10 DEF vars, TypeInv, TypeOK, BusyHasJob
  <1>11. QED
    BY <1>1, <1>2, <1>3, <1>4, <1>5, <1>6, <1>7, <1>8, <1>9, <1>10 DEF Next, WorkerStep

(* Every reachable table, worker and counter has the type stated.           *)
THEOREM TypeCorrect == Spec => []TypeOK
  <1>1. TypeInv => TypeOK
    BY DEF TypeInv
  <1>2. QED
    BY InitTypes, StepTypes, <1>1, PTL DEF Spec

-----------------------------------------------------------------------------
(* One live row per folder.                                                 *)

UniqueLive ==
  \A r, s \in RowIds :
    rows[r].status \in Live /\ rows[s].status \in Live /\ rows[r].path = rows[s].path
      => r = s

(* What each rewriting operator does to the status and the path of a row.   *)
LEMMA CoalescedFields ==
  \A row, e : Coalesced(row, e).status = row.status /\ Coalesced(row, e).path = row.path
  BY DEF Coalesced

LEMMA FinishedFields ==
  \A row, s : Finished(row, s).status = s /\ Finished(row, s).path = row.path
  BY DEF Finished

LEMMA PendingFields ==
  \A row, due : Pending(row, due).status = "pending" /\ Pending(row, due).path = row.path
  BY DEF Pending

LEMMA ClaimedFields ==
  \A row, w : Claimed(row, w).status = "processing" /\ Claimed(row, w).path = row.path
  BY DEF Claimed

LEMMA AgedFields ==
  \A row : Aged(row).status = row.status /\ Aged(row).path = row.path
  BY DEF Aged

LEMMA FailedStatus ==
  ASSUME NEW row
  PROVE  /\ Failed(row).path = row.path
         /\ Failed(row).status \in {"pending", "failed"}
  <1>1. CASE row.attempts >= MaxAttempts
    BY <1>1, FinishedFields DEF Failed
  <1>2. CASE ~(row.attempts >= MaxAttempts)
    BY <1>2, PendingFields DEF Failed
  <1>3. QED
    BY <1>1, <1>2

LEMMA RecoveredStatus ==
  ASSUME NEW r \in RowIds, NEW cutoff
  PROVE  /\ Recovered(r, cutoff).path = rows[r].path
         /\ Recovered(r, cutoff).status \in Live <=> rows[r].status \in Live
  <1>1. CASE rows[r].status = "processing" /\ rows[r].age > cutoff
    BY <1>1, PendingFields DEF Recovered, Live
  <1>2. CASE ~(rows[r].status = "processing" /\ rows[r].age > cutoff)
    BY <1>2 DEF Recovered
  <1>3. QED
    BY <1>1, <1>2

LEMMA InitUnique == Init => UniqueLive
  <1> SUFFICES ASSUME Init PROVE UniqueLive
    OBVIOUS
  <1>1. PICK p \in Paths, e \in Events :
          rows = [r \in RowIds |-> Finished(FreshRow(p, e), "absent")]
    BY DEF Init
  <1>2. \A r \in RowIds : rows[r].status \notin Live
    BY <1>1, FinishedFields DEF Live
  <1>3. QED
    BY <1>2 DEF UniqueLive

LEMMA StepUnique == TypeInv /\ UniqueLive /\ [Next]_vars => UniqueLive'
  <1> SUFFICES ASSUME TypeInv, UniqueLive, [Next]_vars PROVE UniqueLive'
    OBVIOUS
  <1>a. rows \in [RowIds -> Row]
    BY DEF TypeInv, TypeOK
  <1>b. ASSUME NEW w \in Workers, pc[w] = "busy" PROVE job[w] \in RowIds
    BY <1>b DEF TypeInv, TypeOK, BusyHasJob
  <1>1. ASSUME NEW p \in Paths, NEW e \in Events, Enqueue(p, e) PROVE UniqueLive'
    <2>1. CASE Insert(p, e)
      <3>1. PICK r \in RowIds : rows' = [rows EXCEPT ![r] = FreshRow(p, e)]
        BY <2>1 DEF Insert
      <3>2. \A s \in RowIds : rows[s].status \in Live => rows[s].path # p
        BY <2>1 DEF Insert, LiveRows
      <3>3. FreshRow(p, e).path = p
        BY DEF FreshRow
      <3>4. QED
        BY <1>a, <3>1, <3>2, <3>3 DEF UniqueLive
    <2>2. CASE Coalesce(p, e)
      <3>1. PICK r \in RowIds : rows' = [rows EXCEPT ![r] = Coalesced(rows[r], e)]
        BY <2>2 DEF Coalesce, LiveRows
      <3>2. \A s \in RowIds : rows'[s].status = rows[s].status /\ rows'[s].path = rows[s].path
        BY <1>a, <3>1, CoalescedFields
      <3>3. QED
        BY <3>2 DEF UniqueLive
    <2>3. QED
      BY <1>1, <2>1, <2>2 DEF Enqueue
  <1>2. ASSUME NEW p \in Paths, Withdraw(p) PROVE UniqueLive'
    <2>1. \A r \in RowIds : /\ rows'[r].path = rows[r].path
                            /\ rows'[r].status \in Live => rows[r].status \in Live
      <3> SUFFICES ASSUME NEW r \in RowIds
                   PROVE  /\ rows'[r].path = rows[r].path
                          /\ rows'[r].status \in Live => rows[r].status \in Live
        OBVIOUS
      <3>1. rows'[r] = Finished(rows[r], "absent") \/ rows'[r] = rows[r]
        BY <1>2 DEF Withdraw
      <3>2. QED
        BY <3>1, FinishedFields DEF Live
    <2>2. QED
      BY <2>1 DEF UniqueLive
  <1>3. ASSUME NEW w \in Workers, StartService(w) \/ StartDrainer(w) \/ BeginTick(w)
        PROVE  UniqueLive'
    <2>1. \A r \in RowIds : /\ rows'[r].path = rows[r].path
                            /\ rows'[r].status \in Live => rows[r].status \in Live
      BY <1>3, <1>a, RecoveredStatus DEF StartService, StartDrainer, BeginTick, RecoverStale
    <2>2. QED
      BY <2>1 DEF UniqueLive
  <1>4. ASSUME NEW w \in Workers, Claim(w) PROVE UniqueLive'
    <2>1. PICK r \in Ready : rows' = [rows EXCEPT ![r] = Claimed(rows[r], w)]
      BY <1>4 DEF Claim
    <2>2. \A s \in RowIds : /\ rows'[s].path = rows[s].path
                            /\ rows'[s].status \in Live => rows[s].status \in Live
      BY <2>1, <1>a, ClaimedFields DEF Ready, Live
    <2>3. QED
      BY <2>2 DEF UniqueLive
  <1>5. ASSUME NEW w \in Workers, Succeed(w) PROVE UniqueLive'
    <2>1. rows' = [rows EXCEPT ![job[w]] = Stored(job[w], Finished(rows[job[w]], "done"))]
      BY <1>5 DEF Succeed
    <2>2. \A s \in RowIds : /\ rows'[s].path = rows[s].path
                            /\ rows'[s].status \in Live => rows[s].status \in Live
      BY <2>1, <1>a, <1>b, <1>5, FinishedFields DEF Stored, Live, Succeed
    <2>3. QED
      BY <2>2 DEF UniqueLive
  <1>6. ASSUME NEW w \in Workers, FailJob(w) PROVE UniqueLive'
    <2>1. rows' = [rows EXCEPT ![job[w]] = Stored(job[w], Failed(rows[job[w]]))]
      BY <1>6 DEF FailJob
    <2>2. \A s \in RowIds : rows'[s].path = rows[s].path
      BY <2>1, <1>a, FailedStatus DEF Stored
    <2>3. \A s \in RowIds : s # job[w] => rows'[s] = rows[s]
      BY <2>1, <1>a
    <2>4. CASE rows'[job[w]].status \in Live
      <3>1. rows[job[w]].status # "absent"
        BY <2>4, <2>1, <1>a, <1>b, <1>6 DEF Stored, Live, FailJob
      <3>2. Failed(rows[job[w]]).status = "pending"
        BY <2>4, <3>1, <2>1, <1>a, <1>b, <1>6, FailedStatus DEF Stored, Live, FailJob
      <3>3. \A s \in RowIds : s # job[w] /\ rows[s].path = rows[job[w]].path
                                => rows[s].status \notin Live
        BY <3>1, <3>2, <1>6 DEF FailJob, Conflicts, LiveRows
      <3>4. QED
        BY <2>2, <2>3, <3>3 DEF UniqueLive
    <2>5. CASE rows'[job[w]].status \notin Live
      BY <2>2, <2>3, <2>5 DEF UniqueLive
    <2>6. QED
      BY <2>4, <2>5
  <1>7. ASSUME NEW w \in Workers,
               Drained(w) \/ StopService(w) \/ FailRaises(w) \/ Crash(w)
        PROVE  UniqueLive'
    BY <1>7 DEF Drained, StopService, FailRaises, Crash, UniqueLive
  <1>8. CASE Tick
    <2>1. \A r \in RowIds : /\ rows'[r].path = rows[r].path
                            /\ rows'[r].status = rows[r].status
      BY <1>8, <1>a, AgedFields DEF Tick
    <2>2. QED
      BY <2>1 DEF UniqueLive
  <1>9. CASE UNCHANGED vars
    BY <1>9 DEF vars, UniqueLive
  <1>10. QED
    BY <1>1, <1>2, <1>3, <1>4, <1>5, <1>6, <1>7, <1>8, <1>9 DEF Next, WorkerStep

LEMMA UniqueLiveCardinality == TypeInv /\ UniqueLive => OneLiveRowPerPath
  <1> SUFFICES ASSUME TypeInv, UniqueLive, NEW p \in Paths
               PROVE  Cardinality(LiveRows(p)) <= 1
    BY DEF OneLiveRowPerPath
  <1>1. CASE LiveRows(p) = {}
    BY <1>1, FS_EmptySet
  <1>2. CASE LiveRows(p) # {}
    <2>1. PICK r \in LiveRows(p) : TRUE
      BY <1>2
    <2>2. LiveRows(p) = {r}
      BY <2>1 DEF UniqueLive, LiveRows
    <2>3. Cardinality({r}) = 1
      BY FS_Singleton
    <2>4. QED
      BY <2>2, <2>3
  <1>3. QED
    BY <1>1, <1>2

(* The partial unique index of migration 004 is never violated, whatever     *)
(* the workers do, stale complete() and fail() calls and hard deletes        *)
(* included.                                                                 *)
THEOREM OneLiveRow == Spec => []OneLiveRowPerPath
  <1>1. Init => TypeInv /\ UniqueLive
    BY InitTypes, InitUnique
  <1>2. TypeInv /\ UniqueLive /\ [Next]_vars => (TypeInv /\ UniqueLive)'
    BY StepTypes, StepUnique
  <1>3. QED
    BY <1>1, <1>2, UniqueLiveCardinality, PTL DEF Spec

-----------------------------------------------------------------------------
(* Settling.  A live row has been quiet for Settle, or its deadline is still *)
(* far enough away; a row on which a worker may call fail() has been tried,  *)
(* so the back-off is at least one Backoff.                                  *)

Settles(row) ==
  row.status \in Live => row.quiet >= Settle \/ row.due + row.quiet >= Settle

SettleInv ==
  /\ \A r \in RowIds : Settles(rows[r])
  /\ \A w \in Workers :
       job[w] # NoRow /\ rows[job[w]].status # "absent" => rows[job[w]].attempts >= 1

LEMMA SettlesFresh ==
  ASSUME NEW p, NEW e PROVE Settles(FreshRow(p, e))
  BY QueueAssumption DEF FreshRow, Settles

LEMMA SettlesCoalesced ==
  ASSUME NEW row \in Row, NEW e PROVE Settles(Coalesced(row, e))
  BY QueueAssumption, RowFields DEF Coalesced, Settles, Larger

LEMMA SettlesClaimed ==
  ASSUME NEW row \in Row, Settles(row), row.status \in Live, NEW w
  PROVE  Settles(Claimed(row, w))
  BY DEF Claimed, Settles

LEMMA SettlesFinished ==
  ASSUME NEW row, NEW s \in {"absent", "done", "failed"} PROVE Settles(Finished(row, s))
  BY DEF Finished, Settles, Live

LEMMA SettlesRecovered ==
  ASSUME NEW r \in RowIds, Settles(rows[r]), NEW cutoff PROVE Settles(Recovered(r, cutoff))
  BY DEF Recovered, Pending, Settles, Live

LEMMA SettlesAged ==
  ASSUME NEW row \in Row, Settles(row) PROVE Settles(Aged(row))
  BY QueueAssumption, RowFields DEF Aged, Settles, Smaller

LEMMA SettlesFailed ==
  ASSUME Backoff >= Settle, NEW row \in Row, row.attempts >= 1
  PROVE  Settles(Failed(row))
  <1>1. CASE row.attempts >= MaxAttempts
    BY <1>1, SettlesFinished DEF Failed
  <1>2. CASE ~(row.attempts >= MaxAttempts)
    <2>1. row.attempts \in Nat /\ row.quiet \in Nat
      BY RowFields, QueueAssumption
    <2>2. Backoff * row.attempts >= Settle
      BY <2>1, QueueAssumption
    <2>3. /\ Failed(row).due = Backoff * row.attempts
          /\ Failed(row).quiet = row.quiet
      BY <1>2 DEF Failed, Pending
    <2>4. QED
      BY <2>1, <2>2, <2>3, QueueAssumption DEF Settles
  <1>3. QED
    BY <1>1, <1>2

LEMMA AttemptsKept ==
  /\ \A row, e : Coalesced(row, e).attempts = row.attempts
  /\ \A row, s : Finished(row, s).attempts = row.attempts
  /\ \A row, due : Pending(row, due).attempts = row.attempts
  /\ \A row, w : Claimed(row, w).attempts = row.attempts + 1
  /\ \A row : Failed(row).attempts = row.attempts
  /\ \A row : Aged(row).attempts = row.attempts
  BY DEF Coalesced, Finished, Pending, Claimed, Failed, Aged

LEMMA InitSettles == Init => SettleInv
  <1> SUFFICES ASSUME Init PROVE SettleInv
    OBVIOUS
  <1>1. PICK p \in Paths, e \in Events :
          rows = [r \in RowIds |-> Finished(FreshRow(p, e), "absent")]
    BY DEF Init
  <1>2. QED
    BY <1>1, SettlesFinished DEF Init, SettleInv

LEMMA StepSettles ==
  ASSUME Backoff >= Settle
  PROVE  TypeInv /\ SettleInv /\ [Next]_vars => SettleInv'
  <1> SUFFICES ASSUME TypeInv, SettleInv, [Next]_vars PROVE SettleInv'
    OBVIOUS
  <1>a. /\ rows \in [RowIds -> Row] /\ job \in [Workers -> RowIds \cup {NoRow}]
    BY DEF TypeInv, TypeOK
  <1>b. ASSUME NEW w \in Workers PROVE job[w] # NoRow <=> pc[w] = "busy"
    BY DEF TypeInv, BusyHasJob
  <1>c. \A r \in RowIds : Settles(rows[r])
    BY DEF SettleInv
  <1>1. ASSUME NEW p \in Paths, NEW e \in Events, Enqueue(p, e) PROVE SettleInv'
    <2>1. CASE Insert(p, e)
      <3>1. PICK r \in RowIds : ~Held(r) /\ rows' = [rows EXCEPT ![r] = FreshRow(p, e)]
        BY <2>1 DEF Insert
      <3>2. \A s \in RowIds : Settles(rows'[s])
        BY <3>1, <1>a, <1>c, SettlesFresh
      <3>3. \A w \in Workers : job[w] # NoRow => rows'[job[w]] = rows[job[w]]
        BY <3>1, <1>a DEF Held
      <3>4. QED
        BY <3>2, <3>3, <1>1 DEF Enqueue, SettleInv
    <2>2. CASE Coalesce(p, e)
      <3>1. PICK r \in RowIds : /\ rows' = [rows EXCEPT ![r] = Coalesced(rows[r], e)]
                                /\ rows[r].status \in Live
        BY <2>2 DEF Coalesce, LiveRows
      <3>2. \A s \in RowIds : Settles(rows'[s])
        BY <3>1, <1>a, <1>c, SettlesCoalesced
      <3>3. \A s \in RowIds : /\ rows'[s].status = rows[s].status
                              /\ rows'[s].attempts = rows[s].attempts
        BY <3>1, <1>a, CoalescedFields, AttemptsKept
      <3>4. QED
        BY <3>2, <3>3, <1>1, <1>a DEF Enqueue, SettleInv
    <2>3. QED
      BY <1>1, <2>1, <2>2 DEF Enqueue
  <1>2. ASSUME NEW p \in Paths, Withdraw(p) PROVE SettleInv'
    <2>1. \A r \in RowIds : rows'[r] = rows[r] \/ rows'[r] = Finished(rows[r], "absent")
      BY <1>2 DEF Withdraw
    <2>2. \A r \in RowIds : Settles(rows'[r])
      BY <2>1, <1>c, SettlesFinished
    <2>3. \A r \in RowIds : rows'[r] = rows[r] \/ rows'[r].status = "absent"
      BY <2>1, FinishedFields
    <2>4. QED
      BY <2>2, <2>3, <1>2, <1>a DEF Withdraw, SettleInv
  <1>3. ASSUME NEW w \in Workers, StartService(w) \/ StartDrainer(w) \/ BeginTick(w)
        PROVE  SettleInv'
    <2>1. PICK cutoff : rows' = [r \in RowIds |-> Recovered(r, cutoff)]
      BY <1>3 DEF StartService, StartDrainer, BeginTick, RecoverStale
    <2>2. \A r \in RowIds : Settles(rows'[r])
      BY <2>1, <1>c, SettlesRecovered
    <2>3. \A r \in RowIds : \/ rows'[r] = rows[r]
                            \/ /\ rows[r].status = "processing"
                               /\ rows'[r].attempts = rows[r].attempts
      BY <2>1, AttemptsKept DEF Recovered
    <2>4. QED
      BY <2>2, <2>3, <1>3, <1>a DEF StartService, StartDrainer, BeginTick, SettleInv
  <1>4. ASSUME NEW w \in Workers, Claim(w) PROVE SettleInv'
    <2>1. PICK r \in Ready : /\ rows' = [rows EXCEPT ![r] = Claimed(rows[r], w)]
                             /\ job' = [job EXCEPT ![w] = r]
      BY <1>4 DEF Claim
    <2>2. r \in RowIds /\ rows[r] \in Row /\ rows[r].status \in Live
      BY <2>1, <1>a DEF Ready, Live
    <2>3. \A s \in RowIds : Settles(rows'[s])
      BY <2>1, <2>2, <1>a, <1>c, SettlesClaimed
    <2>4. rows'[r].attempts >= 1
      BY <2>1, <2>2, <1>a, AttemptsKept, RowFields
    <2>5. \A s \in RowIds : s # r => rows'[s] = rows[s]
      BY <2>1, <1>a
    <2>6. \A v \in Workers : v # w => job'[v] = job[v]
      BY <2>1, <1>a
    <2>7. job'[w] = r
      BY <2>1, <1>a
    <2>8. ASSUME NEW v \in Workers, job'[v] # NoRow, rows'[job'[v]].status # "absent"
          PROVE  rows'[job'[v]].attempts >= 1
      <3>1. CASE job'[v] = r
        BY <3>1, <2>4
      <3>2. CASE job'[v] # r
        BY <3>2, <2>5, <2>6, <2>7, <2>8, <1>a DEF SettleInv
      <3>3. QED
        BY <3>1, <3>2
    <2>9. QED
      BY <2>3, <2>8 DEF SettleInv
  <1>5. ASSUME NEW w \in Workers, Drained(w) \/ StopService(w) PROVE SettleInv'
    BY <1>5 DEF Drained, StopService, SettleInv
  <1>6. ASSUME NEW w \in Workers, Succeed(w) PROVE SettleInv'
    <2>1. job[w] \in RowIds /\ job[w] # NoRow
      BY <1>6, <1>a, <1>b DEF Succeed
    <2>2. \A r \in RowIds : rows'[r] = rows[r] \/ rows'[r] = Finished(rows[r], "done")
      BY <1>6, <1>a DEF Succeed, Stored
    <2>3. \A r \in RowIds : rows[r].status = "absent" => rows'[r] = rows[r]
      BY <1>6, <1>a DEF Succeed, Stored
    <2>4. \A v \in Workers : job'[v] = NoRow \/ job'[v] = job[v]
      BY <1>6, <1>a DEF Succeed, Release
    <2>5. \A r \in RowIds : Settles(rows'[r])
      BY <2>2, <1>c, SettlesFinished
    <2>6. \A r \in RowIds : rows'[r].attempts = rows[r].attempts
      BY <2>2, AttemptsKept
    <2>7. QED
      BY <2>3, <2>4, <2>5, <2>6, <1>a DEF SettleInv
  <1>7. ASSUME NEW w \in Workers, FailJob(w) PROVE SettleInv'
    <2>1. job[w] \in RowIds /\ job[w] # NoRow
      BY <1>7, <1>a, <1>b DEF FailJob
    <2>2. \A r \in RowIds :
            \/ rows'[r] = rows[r]
            \/ r = job[w] /\ rows[r].status # "absent" /\ rows'[r] = Failed(rows[r])
      BY <1>7, <1>a DEF FailJob, Stored
    <2>3. \A v \in Workers : job'[v] = NoRow \/ job'[v] = job[v]
      BY <1>7, <1>a DEF FailJob, Release
    <2>4. \A r \in RowIds : Settles(rows'[r])
      BY <2>1, <2>2, <1>a, <1>c, SettlesFailed DEF SettleInv
    <2>5. \A r \in RowIds : rows'[r].attempts = rows[r].attempts
      BY <2>2, AttemptsKept
    <2>6. \A r \in RowIds : rows[r].status = "absent" => rows'[r] = rows[r]
      BY <2>2
    <2>7. QED
      BY <2>3, <2>4, <2>5, <2>6, <1>a DEF SettleInv
  <1>8. ASSUME NEW w \in Workers, FailRaises(w) \/ Crash(w) PROVE SettleInv'
    BY <1>8, <1>a DEF FailRaises, Crash, Release, SettleInv
  <1>9. CASE Tick
    <2>1. \A r \in RowIds : rows'[r] = rows[r] \/ rows'[r] = Aged(rows[r])
      BY <1>9 DEF Tick
    <2>2. \A r \in RowIds : Settles(rows'[r])
      BY <2>1, <1>a, <1>c, SettlesAged
    <2>3. \A r \in RowIds : /\ rows'[r].status = rows[r].status
                            /\ rows'[r].attempts = rows[r].attempts
      BY <2>1, AgedFields, AttemptsKept
    <2>4. QED
      BY <2>2, <2>3, <1>9, <1>a DEF Tick, SettleInv
  <1>10. CASE UNCHANGED vars
    BY <1>10 DEF vars, SettleInv
  <1>11. QED
    BY <1>1, <1>2, <1>3, <1>4, <1>5, <1>6, <1>7, <1>8, <1>9, <1>10 DEF Next, WorkerStep

(* If one back-off is at least the settle window, no folder is handed to a   *)
(* worker within the window of its last event: not by coalescing, not by a   *)
(* retry, not by recovering a claim, stale complete() and fail() included.   *)
THEOREM SettledBeforeClaim ==
  ASSUME Backoff >= Settle
  PROVE  Spec => QuietBeforeClaim
  <1>1. TypeInv /\ SettleInv /\ [Next]_vars => [ClaimsQuietRows]_vars
    <2> SUFFICES ASSUME TypeInv, SettleInv, Next, NEW r \in RowIds,
                        rows[r].status = "pending", rows'[r].status = "processing"
                 PROVE  rows[r].quiet >= Settle
      BY DEF ClaimsQuietRows
    <2>a. /\ rows \in [RowIds -> Row] /\ job \in [Workers -> RowIds \cup {NoRow}]
      BY DEF TypeInv, TypeOK
    <2>b. rows'[r] # rows[r]
      OBVIOUS
    <2>1. ASSUME NEW w \in Workers, Claim(w) PROVE rows[r].quiet >= Settle
      <3>1. r \in Ready
        BY <2>1, <2>a, <2>b DEF Claim, Ready
      <3>2. Settles(rows[r]) /\ rows[r].due <= 0 /\ rows[r] \in Row
        BY <3>1, <2>a DEF SettleInv, Ready
      <3>3. QED
        BY <3>2, RowFields, QueueAssumption DEF Settles, Live
    <2>2. ASSUME NEW p \in Paths, NEW e \in Events, Enqueue(p, e) PROVE FALSE
      <3>1. CASE Insert(p, e)
        <4>1. rows'[r] = FreshRow(p, e)
          BY <3>1, <2>a, <2>b DEF Insert
        <4>2. QED
          BY <4>1 DEF FreshRow
      <3>2. CASE Coalesce(p, e)
        <4>1. rows'[r] = Coalesced(rows[r], e)
          BY <3>2, <2>a, <2>b DEF Coalesce, LiveRows
        <4>2. QED
          BY <4>1, CoalescedFields
      <3>3. QED
        BY <2>2, <3>1, <3>2 DEF Enqueue
    <2>3. ASSUME NEW p \in Paths, Withdraw(p) PROVE FALSE
      BY <2>3, <2>b, FinishedFields DEF Withdraw
    <2>4. ASSUME NEW w \in Workers, StartService(w) \/ StartDrainer(w) \/ BeginTick(w)
          PROVE  FALSE
      BY <2>4, <2>b DEF StartService, StartDrainer, BeginTick, RecoverStale, Recovered
    <2>5. ASSUME NEW w \in Workers, Succeed(w) PROVE FALSE
      <3>1. rows'[r] = Finished(rows[r], "done")
        BY <2>5, <2>a, <2>b DEF Succeed, Stored
      <3>2. QED
        BY <3>1, FinishedFields
    <2>6. ASSUME NEW w \in Workers, FailJob(w) PROVE FALSE
      <3>1. rows'[r] = Failed(rows[r])
        BY <2>6, <2>a, <2>b DEF FailJob, Stored
      <3>2. QED
        BY <3>1, FailedStatus
    <2>7. ASSUME NEW w \in Workers,
                 Drained(w) \/ StopService(w) \/ FailRaises(w) \/ Crash(w)
          PROVE  FALSE
      BY <2>7, <2>b DEF Drained, StopService, FailRaises, Crash
    <2>8. CASE Tick
      BY <2>8, <2>b, AgedFields DEF Tick
    <2>9. QED
      BY <2>1, <2>2, <2>3, <2>4, <2>5, <2>6, <2>7, <2>8 DEF Next, WorkerStep
  <1>2. TypeInv /\ SettleInv /\ [Next]_vars => (TypeInv /\ SettleInv)'
    BY StepTypes, StepSettles
  <1>3. Init => TypeInv /\ SettleInv
    BY InitTypes, InitSettles
  <1>4. QED
    BY <1>1, <1>2, <1>3, PTL DEF Spec, QuietBeforeClaim
-----------------------------------------------------------------------------
(* A claim is never taken from a worker that is still on the job, provided   *)
(* services start only while no job runs and no job outlasts the stale       *)
(* cutoff: the claim is then never older than the work on it.                *)

Holds(w) ==
  LET row == rows[job[w]] IN
  \/ row.status = "processing" /\ row.owner = w /\ row.age <= elapsed[w]
  \/ HardDeletes /\ row.status = "absent"

LeaseInv == \A w \in Workers : job[w] # NoRow => Holds(w)

LEMMA CoalescedClaim ==
  \A row, e : Coalesced(row, e).owner = row.owner /\ Coalesced(row, e).age = row.age
  BY DEF Coalesced

LEMMA ClaimedClaim ==
  \A row, w : Claimed(row, w).owner = w /\ Claimed(row, w).age = 0
  BY DEF Claimed

LEMMA AgedClaim ==
  ASSUME NEW row \in Row
  PROVE  Aged(row).owner = row.owner /\ Aged(row).age <= row.age + 1
  BY QueueAssumption DEF Aged, Row, Smaller

LEMMA InitLease == Init => LeaseInv
  BY DEF Init, LeaseInv

(* A step that leaves alone the workers' jobs and every row some worker      *)
(* holds.                                                                    *)
LEMMA LeaseKept ==
  ASSUME LeaseInv, UNCHANGED <<job, elapsed>>,
         \A w \in Workers : job[w] # NoRow => rows'[job[w]] = rows[job[w]]
  PROVE  LeaseInv'
  BY DEF LeaseInv, Holds

(* The end of w's job: it rewrites w's row only, and that row is nobody      *)
(* else's.                                                                   *)
LEMMA LeaseEnds ==
  ASSUME TypeInv, LeaseInv, NEW w \in Workers, NEW next, Release(w, next), NEW row,
         job[w] # NoRow,
         rows' = [rows EXCEPT ![job[w]] = Stored(job[w], row)]
  PROVE  LeaseInv'
  <1> SUFFICES ASSUME NEW v \in Workers, job'[v] # NoRow PROVE Holds(v)'
    BY DEF LeaseInv
  <1>a. /\ rows \in [RowIds -> Row] /\ job \in [Workers -> RowIds \cup {NoRow}]
        /\ elapsed \in [Workers -> 0..MaxJobTime]
    BY DEF TypeInv, TypeOK
  <1>1. v # w /\ job'[v] = job[v] /\ elapsed'[v] = elapsed[v]
    BY <1>a DEF Release
  <1>2. Holds(v) /\ Holds(w)
    BY <1>1 DEF LeaseInv
  <1>3. rows'[job[v]] = rows[job[v]]
    <2>1. CASE job[v] # job[w]
      BY <2>1, <1>a, <1>1
    <2>2. CASE job[v] = job[w]
      <3>1. rows[job[w]].status = "absent"
        BY <2>2, <1>1, <1>2 DEF Holds
      <3>2. QED
        BY <3>1, <2>2, <1>a DEF Stored
    <2>3. QED
      BY <2>1, <2>2
  <1>4. QED
    BY <1>1, <1>2, <1>3 DEF Holds

LEMMA StepLease ==
  ASSUME SoloStart, MaxJobTime <= StaleAfter
  PROVE  TypeInv /\ LeaseInv /\ [Next]_vars => LeaseInv'
  <1> SUFFICES ASSUME TypeInv, LeaseInv, [Next]_vars PROVE LeaseInv'
    OBVIOUS
  <1>a. /\ rows \in [RowIds -> Row] /\ job \in [Workers -> RowIds \cup {NoRow}]
        /\ elapsed \in [Workers -> 0..MaxJobTime]
    BY DEF TypeInv, TypeOK
  <1>b. ASSUME NEW w \in Workers PROVE job[w] # NoRow <=> pc[w] = "busy"
    BY DEF TypeInv, BusyHasJob
  <1>1. ASSUME NEW p \in Paths, NEW e \in Events, Enqueue(p, e) PROVE LeaseInv'
    <2>1. CASE Insert(p, e)
      <3>1. \A w \in Workers : job[w] # NoRow => rows'[job[w]] = rows[job[w]]
        BY <2>1, <1>a DEF Insert, Held
      <3>2. QED
        BY <3>1, <1>1, LeaseKept DEF Enqueue
    <2>2. CASE Coalesce(p, e)
      <3>1. PICK r \in RowIds : rows' = [rows EXCEPT ![r] = Coalesced(rows[r], e)]
        BY <2>2 DEF Coalesce, LiveRows
      <3>2. \A s \in RowIds : /\ rows'[s].status = rows[s].status
                              /\ rows'[s].owner = rows[s].owner
                              /\ rows'[s].age = rows[s].age
        BY <1>a, <3>1, CoalescedFields, CoalescedClaim
      <3>3. QED
        BY <1>a, <3>2, <1>1 DEF Enqueue, LeaseInv, Holds
    <2>3. QED
      BY <1>1, <2>1, <2>2 DEF Enqueue
  <1>2. ASSUME NEW p \in Paths, Withdraw(p) PROVE LeaseInv'
    <2> SUFFICES ASSUME NEW w \in Workers, job[w] # NoRow PROVE Holds(w)'
      BY <1>2 DEF Withdraw, LeaseInv
    <2>1. job[w] \in RowIds /\ Holds(w)
      BY <1>a DEF LeaseInv
    <2>2. \/ rows'[job[w]] = rows[job[w]]
          \/ rows'[job[w]] = Finished(rows[job[w]], "absent")
      BY <2>1, <1>2 DEF Withdraw
    <2>3. QED
      BY <2>1, <2>2, <1>2, FinishedFields DEF Withdraw, Holds
  <1>3. ASSUME NEW w \in Workers, StartService(w) PROVE LeaseInv'
    BY <1>3 DEF StartService, LeaseInv
  <1>4. ASSUME NEW w \in Workers, StartDrainer(w) \/ BeginTick(w) PROVE LeaseInv'
    <2>1. ASSUME NEW v \in Workers, job[v] # NoRow PROVE rows'[job[v]] = rows[job[v]]
      <3>1. job[v] \in RowIds /\ Holds(v)
        BY <1>a, <2>1 DEF LeaseInv
      <3>2. rows[job[v]].age \in Int /\ elapsed[v] \in 0..MaxJobTime
        BY <3>1, <1>a, RowFields
      <3>3. ~(rows[job[v]].status = "processing" /\ rows[job[v]].age > StaleAfter)
        BY <3>1, <3>2, QueueAssumption DEF Holds
      <3>4. QED
        BY <3>1, <3>3, <1>4 DEF StartDrainer, BeginTick, RecoverStale, Recovered
    <2>2. QED
      BY <2>1, <1>4, LeaseKept DEF StartDrainer, BeginTick
  <1>5. ASSUME NEW w \in Workers, Claim(w) PROVE LeaseInv'
    <2>1. PICK r \in Ready : /\ rows' = [rows EXCEPT ![r] = Claimed(rows[r], w)]
                             /\ job' = [job EXCEPT ![w] = r]
      BY <1>5 DEF Claim
    <2>2. r \in RowIds /\ rows[r].status = "pending"
      BY <2>1 DEF Ready
    <2> SUFFICES ASSUME NEW v \in Workers, job'[v] # NoRow PROVE Holds(v)'
      BY DEF LeaseInv
    <2>3. CASE v = w
      BY <2>1, <2>2, <2>3, <1>5, <1>a, ClaimedFields, ClaimedClaim DEF Claim, Holds
    <2>4. CASE v # w
      <3>1. job'[v] = job[v] /\ elapsed'[v] = elapsed[v]
        BY <2>1, <2>4, <1>5, <1>a DEF Claim
      <3>2. Holds(v)
        BY <3>1 DEF LeaseInv
      <3>3. job[v] # r
        BY <3>2, <2>2 DEF Holds
      <3>4. rows'[job[v]] = rows[job[v]]
        BY <3>1, <3>3, <2>1, <1>a
      <3>5. QED
        BY <3>1, <3>2, <3>4 DEF Holds
    <2>5. QED
      BY <2>3, <2>4
  <1>6. ASSUME NEW w \in Workers, Drained(w) \/ StopService(w) PROVE LeaseInv'
    BY <1>6 DEF Drained, StopService, LeaseInv, Holds
  <1>7. ASSUME NEW w \in Workers, Succeed(w) PROVE LeaseInv'
    BY <1>7, <1>b, LeaseEnds DEF Succeed
  <1>8. ASSUME NEW w \in Workers, FailJob(w) PROVE LeaseInv'
    BY <1>8, <1>b, LeaseEnds DEF FailJob
  <1>9. ASSUME NEW w \in Workers, FailRaises(w) \/ Crash(w) PROVE LeaseInv'
    <2> SUFFICES ASSUME NEW v \in Workers, job'[v] # NoRow PROVE Holds(v)'
      BY DEF LeaseInv
    <2>1. v # w /\ job'[v] = job[v] /\ elapsed'[v] = elapsed[v] /\ UNCHANGED rows
      BY <1>9, <1>a DEF FailRaises, Crash, Release
    <2>2. QED
      BY <2>1 DEF LeaseInv, Holds
  <1>10. CASE Tick
    <2> SUFFICES ASSUME NEW w \in Workers, job[w] # NoRow PROVE Holds(w)'
      BY <1>10 DEF Tick, LeaseInv
    <2>1. job[w] \in RowIds /\ Holds(w) /\ elapsed'[w] = elapsed[w] + 1
      BY <1>10, <1>a, <1>b DEF LeaseInv, Tick
    <2>2. CASE rows[job[w]].status = "processing"
      <3>1. rows'[job[w]] = Aged(rows[job[w]])
        BY <2>1, <2>2, <1>10 DEF Tick, Live
      <3>2. rows[job[w]] \in Row /\ elapsed[w] \in Int
        BY <2>1, <1>a, QueueAssumption
      <3>3. /\ Aged(rows[job[w]]).status = "processing"
            /\ Aged(rows[job[w]]).owner = w
            /\ Aged(rows[job[w]]).age <= elapsed[w] + 1
        BY <3>2, <2>1, <2>2, AgedFields, AgedClaim, AgedType, RowFields DEF Holds
      <3>4. QED
        BY <3>1, <3>3, <2>1, <1>10 DEF Holds, Tick
    <2>3. CASE rows[job[w]].status # "processing"
      BY <2>1, <2>3, <1>10 DEF Tick, Holds, Live
    <2>4. QED
      BY <2>2, <2>3
  <1>11. CASE UNCHANGED vars
    BY <1>11 DEF vars, LeaseInv, Holds
  <1>12. QED
    BY <1>1, <1>2, <1>3, <1>4, <1>5, <1>6, <1>7, <1>8, <1>9, <1>10, <1>11
       DEF Next, WorkerStep

(* While services start only when no job runs and jobs end within the stale  *)
(* cutoff, a worker in the middle of a job owns its claim: no recover_stale   *)
(* hands the row to somebody else.                                           *)
THEOREM ExclusiveClaims ==
  ASSUME SoloStart, MaxJobTime <= StaleAfter
  PROVE  Spec => []ClaimExclusive
  <1>1. LeaseInv => ClaimExclusive
    BY DEF LeaseInv, Holds, ClaimExclusive
  <1>2. TypeInv /\ LeaseInv /\ [Next]_vars => (TypeInv /\ LeaseInv)'
    BY StepTypes, StepLease
  <1>3. Init => TypeInv /\ LeaseInv
    BY InitTypes, InitLease
  <1>4. QED
    BY <1>1, <1>2, <1>3, PTL DEF Spec

(* A row is finished by the worker that claimed it, and by nobody else.      *)
THEOREM OwnersFinish ==
  ASSUME SoloStart, MaxJobTime <= StaleAfter
  PROVE  Spec => FinishedByOwner
  <1>1. TypeInv /\ LeaseInv /\ [Next]_vars => [OwnerFinishes]_vars
    <2> SUFFICES ASSUME TypeInv, LeaseInv, Next, NEW r \in RowIds,
                        rows[r].status \in Live, rows'[r].status \in {"done", "failed"}
                 PROVE  /\ rows[r].status = "processing" /\ rows[r].owner \in Workers
                        /\ job[rows[r].owner] = r /\ job'[rows[r].owner] = NoRow
      BY DEF OwnerFinishes
    <2>a. /\ rows \in [RowIds -> Row] /\ job \in [Workers -> RowIds \cup {NoRow}]
      BY DEF TypeInv, TypeOK
    <2>b. rows'[r] # rows[r]
      BY DEF Live
    <2>1. ASSUME NEW w \in Workers, Succeed(w) \/ FailJob(w)
          PROVE  /\ rows[r].status = "processing" /\ rows[r].owner = w
                 /\ job[w] = r /\ job'[w] = NoRow
      <3>1. job[w] = r
        BY <2>1, <2>a, <2>b DEF Succeed, FailJob
      <3>2. r # NoRow
        BY QueueAssumption
      <3>3. Holds(w)
        BY <3>1, <3>2 DEF LeaseInv
      <3>4. job'[w] = NoRow
        BY <2>1, <2>a DEF Succeed, FailJob, Release
      <3>5. QED
        BY <3>1, <3>3, <3>4 DEF Holds, Live
    <2>2. ASSUME NEW p \in Paths, NEW e \in Events, Enqueue(p, e) PROVE FALSE
      <3>1. CASE Insert(p, e)
        <4>1. rows'[r] = FreshRow(p, e)
          BY <3>1, <2>a, <2>b DEF Insert
        <4>2. QED
          BY <4>1 DEF FreshRow
      <3>2. CASE Coalesce(p, e)
        <4>1. rows'[r] = Coalesced(rows[r], e)
          BY <3>2, <2>a, <2>b DEF Coalesce, LiveRows
        <4>2. QED
          BY <4>1, CoalescedFields DEF Live
      <3>3. QED
        BY <2>2, <3>1, <3>2 DEF Enqueue
    <2>3. ASSUME NEW p \in Paths, Withdraw(p) PROVE FALSE
      BY <2>3, <2>b, FinishedFields DEF Withdraw
    <2>4. ASSUME NEW w \in Workers, StartService(w) \/ StartDrainer(w) \/ BeginTick(w)
          PROVE  FALSE
      BY <2>4, RecoveredStatus DEF StartService, StartDrainer, BeginTick, RecoverStale, Live
    <2>5. ASSUME NEW w \in Workers, Claim(w) PROVE FALSE
      <3>1. rows'[r] = Claimed(rows[r], w)
        BY <2>5, <2>a, <2>b DEF Claim
      <3>2. QED
        BY <3>1, ClaimedFields
    <2>6. ASSUME NEW w \in Workers,
                 Drained(w) \/ StopService(w) \/ FailRaises(w) \/ Crash(w)
          PROVE  FALSE
      BY <2>6, <2>b DEF Drained, StopService, FailRaises, Crash
    <2>7. CASE Tick
      BY <2>7, <2>b, AgedFields DEF Tick, Live
    <2>8. QED
      BY <2>1, <2>2, <2>3, <2>4, <2>5, <2>6, <2>7 DEF Next, WorkerStep
  <1>2. TypeInv /\ LeaseInv /\ [Next]_vars => (TypeInv /\ LeaseInv)'
    BY StepTypes, StepLease
  <1>3. Init => TypeInv /\ LeaseInv
    BY InitTypes, InitLease
  <1>4. QED
    BY <1>1, <1>2, <1>3, PTL DEF Spec, FinishedByOwner

(* Without hard deletes no two workers ever work on the same folder: each    *)
(* owns its row, and a folder has one live row.                              *)
THEOREM FolderToOneWorker ==
  ASSUME SoloStart, MaxJobTime <= StaleAfter, ~HardDeletes
  PROVE  Spec => []OneWorkerPerPath
  <1>1. TypeInv /\ UniqueLive /\ LeaseInv => OneWorkerPerPath
    BY DEF TypeInv, TypeOK, UniqueLive, LeaseInv, Holds, OneWorkerPerPath, Live
  <1>2. TypeInv /\ UniqueLive /\ LeaseInv /\ [Next]_vars => (TypeInv /\ UniqueLive /\ LeaseInv)'
    BY StepTypes, StepUnique, StepLease
  <1>3. Init => TypeInv /\ UniqueLive /\ LeaseInv
    BY InitTypes, InitUnique, InitLease
  <1>4. QED
    BY <1>1, <1>2, <1>3, PTL DEF Spec

-----------------------------------------------------------------------------
(* The queue implements the lease.                                           *)
LeaseIs ==
  /\ \A p \in Paths : LiveRows(p) = {} => Lease(p) = "clear"
  /\ \A r \in RowIds : rows[r].status = "pending" => Lease(rows[r].path) = "waiting"
  /\ \A w \in Workers : job[w] # NoRow => Lease(rows[job[w]].path) = w
  /\ \A r \in RowIds :
       rows[r].status = "processing" /\ (\A w \in Workers : job[w] # r)
         => Lease(rows[r].path) = "orphaned"

QueueInv == TypeInv /\ UniqueLive /\ LeaseInv

LEMMA HolderOwnsLiveRow ==
  ASSUME QueueInv, ~HardDeletes, NEW w \in Workers, job[w] # NoRow
  PROVE  /\ job[w] \in RowIds /\ rows[job[w]].status = "processing"
         /\ rows[job[w]].owner = w /\ rows[job[w]].path \in Paths
         /\ Holders(rows[job[w]].path) = {w}
         /\ LiveRows(rows[job[w]].path) = {job[w]}
  <1>1. job[w] \in RowIds /\ rows \in [RowIds -> Row]
    BY DEF QueueInv, TypeInv, TypeOK
  <1>2. rows[job[w]].status = "processing" /\ rows[job[w]].owner = w
    BY DEF QueueInv, LeaseInv, Holds
  <1>3. rows[job[w]].path \in Paths
    BY <1>1, RowFields
  <1>4. ASSUME NEW v \in Workers, job[v] # NoRow, rows[job[v]].path = rows[job[w]].path
        PROVE  v = w
    <2>1. job[v] \in RowIds
      BY <1>4 DEF QueueInv, TypeInv, TypeOK
    <2>2. rows[job[v]].status = "processing" /\ rows[job[v]].owner = v
      BY <1>4 DEF QueueInv, LeaseInv, Holds
    <2>3. job[v] = job[w]
      BY <1>1, <1>2, <1>4, <2>1, <2>2 DEF QueueInv, UniqueLive, Live
    <2>4. QED
      BY <1>2, <2>2, <2>3
  <1>5. Holders(rows[job[w]].path) = {w}
    BY <1>4 DEF Holders
  <1>6. LiveRows(rows[job[w]].path) = {job[w]}
    BY <1>1, <1>2 DEF QueueInv, UniqueLive, LiveRows, Live
  <1>7. QED
    BY <1>1, <1>2, <1>3, <1>5, <1>6

LEMMA LeaseValues == ~HardDeletes /\ QueueInv => LeaseIs
  <1> SUFFICES ASSUME ~HardDeletes, QueueInv PROVE LeaseIs
    OBVIOUS
  <1>a. rows \in [RowIds -> Row]
    BY DEF QueueInv, TypeInv, TypeOK
  <1>1. ASSUME NEW p \in Paths, LiveRows(p) = {} PROVE Lease(p) = "clear"
    BY <1>1 DEF Lease
  <1>2. ASSUME NEW r \in RowIds, rows[r].status = "pending"
        PROVE  Lease(rows[r].path) = "waiting"
    <2>1. r \in LiveRows(rows[r].path)
      BY <1>2 DEF LiveRows, Live
    <2>2. QED
      BY <2>1, <1>2 DEF Lease
  <1>3. ASSUME NEW w \in Workers, job[w] # NoRow PROVE Lease(rows[job[w]].path) = w
    <2>1. /\ LiveRows(rows[job[w]].path) = {job[w]} /\ rows[job[w]].status = "processing"
          /\ Holders(rows[job[w]].path) = {w}
      BY <1>3, HolderOwnsLiveRow
    <2>2. QED
      BY <2>1 DEF Lease
  <1>4. ASSUME NEW r \in RowIds, rows[r].status = "processing", \A w \in Workers : job[w] # r
        PROVE  Lease(rows[r].path) = "orphaned"
    <2>1. LiveRows(rows[r].path) = {r}
      BY <1>4 DEF QueueInv, UniqueLive, LiveRows, Live
    <2>2. ASSUME NEW w \in Workers, job[w] # NoRow, rows[job[w]].path = rows[r].path
          PROVE  FALSE
      <3>1. LiveRows(rows[r].path) = {job[w]}
        BY <2>2, HolderOwnsLiveRow
      <3>2. QED
        BY <3>1, <2>1, <1>4
    <2>3. Holders(rows[r].path) = {}
      BY <2>2 DEF Holders
    <2>4. QED
      BY <2>1, <2>3, <1>4 DEF Lease
  <1>5. QED
    BY <1>1, <1>2, <1>3, <1>4 DEF LeaseIs

LEMMA LeaseFrame ==
  ASSUME NEW p \in Paths, LiveRows(p)' = LiveRows(p), Holders(p)' = Holders(p),
         \A r \in LiveRows(p) : rows'[r].status = rows[r].status
  PROVE  Lease(p)' = Lease(p)
  BY DEF Lease

(* A step that leaves jobs alone, and the path and status of every row.      *)
LEMMA LeaseStutter ==
  ASSUME UNCHANGED job,
         \A r \in RowIds : rows'[r].status = rows[r].status /\ rows'[r].path = rows[r].path,
         job \in [Workers -> RowIds \cup {NoRow}]
  PROVE  Leases' = Leases
  <1> SUFFICES ASSUME NEW p \in Paths PROVE Lease(p)' = Lease(p)
    BY DEF Leases
  <1>1. LiveRows(p)' = LiveRows(p)
    BY DEF LiveRows
  <1>2. Holders(p)' = Holders(p)
    BY DEF Holders
  <1>3. QED
    BY <1>1, <1>2, LeaseFrame DEF LiveRows

(* A step that rewrites one row, of folder p afterwards, and gives or takes  *)
(* only that row as a job: the leases of the other folders stay.             *)
LEMMA OtherFolders ==
  ASSUME NEW p \in Paths, NEW r \in RowIds,
         job \in [Workers -> RowIds \cup {NoRow}],
         \A s \in RowIds : s # r => rows'[s] = rows[s],
         rows[r].path = p \/ (rows[r].status \notin Live /\ ~Held(r)),
         rows'[r].path = p,
         \A v \in Workers :
            job'[v] = job[v] \/ (job[v] \in {NoRow, r} /\ job'[v] \in {NoRow, r})
  PROVE  \A q \in Paths \ {p} : Lease(q)' = Lease(q)
  <1> SUFFICES ASSUME NEW q \in Paths \ {p} PROVE Lease(q)' = Lease(q)
    OBVIOUS
  <1>1. LiveRows(q)' = LiveRows(q)
    BY DEF LiveRows
  <1>2. r \notin LiveRows(q)
    BY DEF LiveRows
  <1>3. ASSUME NEW v \in Workers
        PROVE  v \in Holders(q)' <=> v \in Holders(q)
    <2>1. CASE job'[v] = job[v] /\ job[v] # r
      BY <2>1 DEF Holders
    <2>2. CASE job'[v] = job[v] /\ job[v] = r
      BY <2>2 DEF Holders, Held
    <2>3. CASE job[v] \in {NoRow, r} /\ job'[v] \in {NoRow, r}
      BY <2>3 DEF Holders, Held
    <2>4. QED
      BY <2>1, <2>2, <2>3
  <1>4. Holders(q)' = Holders(q)
    BY <1>3 DEF Holders
  <1>5. QED
    BY <1>1, <1>2, <1>4, LeaseFrame DEF LiveRows

LEMMA OneLease ==
  ASSUME NEW p \in Paths, NEW v, Lease(p)' = v, \A q \in Paths \ {p} : Lease(q)' = Lease(q)
  PROVE  Leases' = [Leases EXCEPT ![p] = v] /\ Leases[p] = Lease(p)
  BY DEF Leases

LEMMA StepLeases ==
  ASSUME SoloStart, MaxJobTime <= StaleAfter, ~HardDeletes
  PROVE  QueueInv /\ QueueInv' /\ LeaseIs /\ LeaseIs' /\ [Next]_vars => [FL!Next]_Leases
  <1> SUFFICES ASSUME QueueInv, QueueInv', LeaseIs, LeaseIs', [Next]_vars
               PROVE  FL!Next \/ Leases' = Leases
    OBVIOUS
  <1>a. /\ rows \in [RowIds -> Row] /\ job \in [Workers -> RowIds \cup {NoRow}]
        /\ elapsed \in [Workers -> 0..MaxJobTime]
    BY DEF QueueInv, TypeInv, TypeOK
  <1>b. ASSUME NEW w \in Workers PROVE job[w] # NoRow <=> pc[w] = "busy"
    BY DEF QueueInv, TypeInv, BusyHasJob
  <1>c. \A r \in RowIds : rows[r].path \in Paths
    BY <1>a, RowFields
  <1>1. ASSUME NEW p \in Paths, NEW e \in Events, Insert(p, e), UNCHANGED job
        PROVE  FL!Next
    <2>1. PICK r \in RowIds : /\ rows[r].status \notin Live /\ ~Held(r)
                              /\ rows' = [rows EXCEPT ![r] = FreshRow(p, e)]
      BY <1>1 DEF Insert
    <2>2. rows'[r].path = p /\ rows'[r].status = "pending"
      BY <2>1, <1>a DEF FreshRow
    <2>3. Lease(p) = "clear"
      BY <1>1 DEF Insert, LeaseIs
    <2>4. Lease(p)' = "waiting"
      BY <2>2 DEF LeaseIs
    <2>5. \A q \in Paths \ {p} : Lease(q)' = Lease(q)
      BY <2>1, <2>2, <1>1, <1>a, OtherFolders
    <2>6. Leases' = [Leases EXCEPT ![p] = "waiting"] /\ Leases[p] = "clear"
      BY <2>3, <2>4, <2>5, OneLease
    <2>7. QED
      BY <2>6 DEF FL!Next, FL!Request
  <1>2. ASSUME NEW p \in Paths, NEW e \in Events, Coalesce(p, e), UNCHANGED job
        PROVE  Leases' = Leases
    <2>1. PICK r \in RowIds : rows' = [rows EXCEPT ![r] = Coalesced(rows[r], e)]
      BY <1>2 DEF Coalesce, LiveRows
    <2>2. QED
      BY <2>1, <1>2, <1>a, CoalescedFields, LeaseStutter
  <1>3. ASSUME NEW w \in Workers, StartService(w) \/ StartDrainer(w) \/ BeginTick(w)
        PROVE  FL!Next
    <2>1. PICK cutoff : /\ rows' = [r \in RowIds |-> Recovered(r, cutoff)]
                        /\ UNCHANGED job
                        /\ \/ \A v \in Workers : job[v] = NoRow
                           \/ cutoff = StaleAfter
      BY <1>3 DEF StartService, StartDrainer, BeginTick, RecoverStale
    <2> DEFINE Freed(r) == rows[r].status = "processing" /\ rows[r].age > cutoff
    <2>2. \A r \in RowIds : IF Freed(r)
                            THEN rows'[r].status = "pending" /\ rows'[r].path = rows[r].path
                            ELSE rows'[r] = rows[r]
      BY <2>1, PendingFields DEF Recovered
    <2>3. ASSUME NEW r \in RowIds, Freed(r), NEW v \in Workers, job[v] = r PROVE FALSE
      <3>1. Holds(v) /\ r # NoRow
        BY <2>3, QueueAssumption DEF QueueInv, LeaseInv
      <3>2. rows[r].age \in Int /\ elapsed[v] \in 0..MaxJobTime
        BY <1>a, RowFields
      <3>3. QED
        BY <3>1, <3>2, <2>1, <2>3, QueueAssumption DEF Holds
    <2> DEFINE S == {rows[r].path : r \in {s \in RowIds : Freed(s)}}
    <2>4. ASSUME NEW p \in S PROVE p \in Paths /\ Lease(p) = "orphaned" /\ Lease(p)' = "waiting"
      <3>1. PICK r \in RowIds : Freed(r) /\ p = rows[r].path
        OBVIOUS
      <3>2. Lease(p) = "orphaned"
        BY <3>1, <2>3 DEF LeaseIs
      <3>3. rows'[r].status = "pending" /\ rows'[r].path = p
        BY <3>1, <2>2
      <3>4. Lease(p)' = "waiting"
        BY <3>3 DEF LeaseIs
      <3>5. QED
        BY <3>1, <3>2, <3>4, <1>c
    <2>5. ASSUME NEW q \in Paths \ S PROVE Lease(q)' = Lease(q)
      <3>1. \A r \in RowIds : rows'[r].path = q \/ rows[r].path = q => rows'[r] = rows[r]
        BY <2>2
      <3>2. LiveRows(q)' = LiveRows(q)
        BY <3>1 DEF LiveRows
      <3>3. \A r \in RowIds : rows'[r].path = rows[r].path
        BY <2>2
      <3>4. Holders(q)' = Holders(q)
        BY <3>3, <2>1, <1>a DEF Holders
      <3>5. QED
        BY <3>1, <3>2, <3>4, LeaseFrame DEF LiveRows
    <2>6. /\ S \in SUBSET {p \in Paths : Leases[p] = "orphaned"}
          /\ Leases' = [p \in Paths |-> IF p \in S THEN "waiting" ELSE Leases[p]]
      <3> HIDE DEF S
      <3>1. QED
        BY <2>4, <2>5 DEF Leases
    <2>7. QED
      BY <2>6 DEF FL!Next, FL!Reclaim
  <1>4. ASSUME NEW w \in Workers, Claim(w) PROVE FL!Next
    <2>1. PICK r \in Ready : /\ rows' = [rows EXCEPT ![r] = Claimed(rows[r], w)]
                             /\ job' = [job EXCEPT ![w] = r]
      BY <1>4 DEF Claim
    <2>2. r \in RowIds /\ rows[r].status = "pending" /\ r # NoRow
      BY <2>1, QueueAssumption DEF Ready
    <2>3. PICK p \in Paths : p = rows[r].path /\ p = rows'[r].path
      BY <2>1, <2>2, <1>a, <1>c, ClaimedFields
    <2>4. job[w] = NoRow /\ job'[w] = r
      BY <2>1, <1>4, <1>a, <1>b DEF Claim
    <2>5. Lease(p) = "waiting"
      <3>1. \A s \in RowIds : rows[s].status = "pending" => Lease(rows[s].path) = "waiting"
        BY DEF LeaseIs
      <3>2. QED
        BY <2>2, <2>3, <3>1
    <2>6. Lease(p)' = w
      BY <2>2, <2>3, <2>4 DEF LeaseIs
    <2>7. \A q \in Paths \ {p} : Lease(q)' = Lease(q)
      <3>1. \A s \in RowIds : s # r => rows'[s] = rows[s]
        BY <2>1, <1>a
      <3>2. \A v \in Workers :
              job'[v] = job[v] \/ (job[v] \in {NoRow, r} /\ job'[v] \in {NoRow, r})
        BY <2>1, <2>4, <1>a
      <3>3. QED
        BY <3>1, <3>2, <2>2, <2>3, <1>a, OtherFolders
    <2>8. Leases' = [Leases EXCEPT ![p] = w] /\ Leases[p] = "waiting"
      BY <2>5, <2>6, <2>7, OneLease
    <2>9. FL!Idle(w)
      <3>1. ASSUME NEW q \in Paths, Lease(q) = w PROVE FALSE
        <4>1. LiveRows(q) # {} /\ w \notin {"clear", "waiting", "orphaned"}
          BY <3>1, QueueAssumption DEF LeaseIs
        <4>2. PICK s \in LiveRows(q) : TRUE
          BY <4>1
        <4>3. s \in RowIds /\ rows[s].path = q /\ rows[s].status \in Live
          BY <4>2 DEF LiveRows
        <4>4. rows[s].status = "processing"
          BY <4>1, <4>3, <3>1 DEF LeaseIs, Live
        <4>5. PICK v \in Workers : job[v] = s
          BY <4>1, <4>3, <4>4, <3>1 DEF LeaseIs
        <4>6. Lease(q) = v
          BY <4>3, <4>5, QueueAssumption DEF LeaseIs
        <4>7. QED
          BY <4>5, <4>6, <4>3, <3>1, <2>4, QueueAssumption
      <3>2. QED
        BY <3>1 DEF FL!Idle, Leases
    <2>10. QED
      BY <2>8, <2>9 DEF FL!Next, FL!Take
  <1>5. ASSUME NEW w \in Workers, Drained(w) \/ StopService(w) PROVE Leases' = Leases
    <2>1. UNCHANGED <<rows, job>>
      BY <1>5 DEF Drained, StopService
    <2>2. QED
      BY <2>1, <1>a, LeaseStutter
  <1>6. ASSUME NEW w \in Workers, NEW next, Release(w, next), job[w] # NoRow,
               NEW p \in Paths, p = rows[job[w]].path, rows'[job[w]].path = p,
               \A s \in RowIds : s # job[w] => rows'[s] = rows[s]
        PROVE  Leases[p] = w /\ Leases' = [Leases EXCEPT ![p] = Lease(p)']
    <2>1. job[w] \in RowIds /\ Lease(p) = w
      BY <1>6, <1>a DEF LeaseIs
    <2>2. \A v \in Workers :
            \/ job'[v] = job[v]
            \/ job[v] \in {NoRow, job[w]} /\ job'[v] \in {NoRow, job[w]}
      BY <1>6, <1>a DEF Release
    <2>3. PICK r \in RowIds : r = job[w]
      BY <2>1
    <2>4. \A q \in Paths \ {p} : Lease(q)' = Lease(q)
      BY <1>6, <2>2, <2>3, <1>a, OtherFolders
    <2>5. QED
      BY <2>1, <2>4 DEF Leases
  <1>7. ASSUME NEW w \in Workers, job[w] # NoRow
        PROVE  \E p \in Paths : /\ p = rows[job[w]].path /\ LiveRows(p) = {job[w]}
                                /\ Holders(p) = {w} /\ job[w] \in RowIds
                                /\ rows[job[w]].status = "processing"
    BY <1>7, HolderOwnsLiveRow
  <1>8. ASSUME NEW w \in Workers, Succeed(w) \/ FailJob(w) PROVE FL!Next
    <2>1. job[w] # NoRow /\ Release(w, "draining")
      BY <1>8, <1>b DEF Succeed, FailJob
    <2>2. PICK p \in Paths : /\ p = rows[job[w]].path /\ LiveRows(p) = {job[w]}
                             /\ job[w] \in RowIds /\ rows[job[w]].status = "processing"
      BY <2>1, <1>7
    <2>3. \A s \in RowIds : s # job[w] => rows'[s] = rows[s]
      BY <1>8, <1>a DEF Succeed, FailJob
    <2>4. /\ rows'[job[w]].path = p
          /\ rows'[job[w]].status \in {"done", "failed", "pending"}
      <3>1. rows'[job[w]] \in {Finished(rows[job[w]], "done"), Failed(rows[job[w]])}
        BY <1>8, <2>2, <1>a DEF Succeed, FailJob, Stored
      <3>2. QED
        BY <3>1, <2>2, FinishedFields, FailedStatus
    <2>5. Leases[p] = w /\ Leases' = [Leases EXCEPT ![p] = Lease(p)']
      BY <1>6, <2>1, <2>2, <2>3, <2>4
    <2>6. CASE rows'[job[w]].status = "pending"
      <3>1. PICK r \in RowIds : r = job[w]
        BY <2>2
      <3>2. Lease(p)' = "waiting"
        BY <2>4, <2>6, <3>1 DEF LeaseIs
      <3>3. QED
        BY <2>5, <3>2 DEF FL!Next, FL!GiveBack
    <2>7. CASE rows'[job[w]].status # "pending"
      <3>1. LiveRows(p)' = {}
        BY <2>2, <2>3, <2>4, <2>7 DEF LiveRows, Live
      <3>2. Lease(p)' = "clear"
        BY <3>1 DEF LeaseIs
      <3>3. QED
        BY <2>5, <3>2 DEF FL!Next, FL!Finish
    <2>8. QED
      BY <2>6, <2>7
  <1>9. ASSUME NEW w \in Workers, FailRaises(w) PROVE FALSE
    <2>1. job[w] # NoRow
      BY <1>9, <1>b DEF FailRaises
    <2>2. LiveRows(rows[job[w]].path) = {job[w]}
      BY <2>1, <1>7
    <2>3. QED
      BY <1>9, <2>2 DEF FailRaises, Conflicts
  <1>10. ASSUME NEW w \in Workers, Crash(w) PROVE FL!Next \/ Leases' = Leases
    <2>1. CASE job[w] = NoRow
      <3>1. UNCHANGED <<rows, job>>
        BY <2>1, <1>10, <1>a DEF Crash, Release
      <3>2. QED
        BY <3>1, <1>a, LeaseStutter
    <2>2. CASE job[w] # NoRow
      <3>1. PICK p \in Paths : /\ p = rows[job[w]].path /\ Holders(p) = {w}
                               /\ job[w] \in RowIds /\ rows[job[w]].status = "processing"
        BY <2>2, <1>7
      <3>2. PICK r \in RowIds : r = job[w]
        BY <3>1
      <3>3. UNCHANGED rows /\ Release(w, "down")
        BY <1>10 DEF Crash
      <3>4. Leases[p] = w /\ Leases' = [Leases EXCEPT ![p] = Lease(p)']
        BY <2>2, <3>1, <3>3, <1>6
      <3>5. ASSUME NEW v \in Workers PROVE job'[v] # r
        <4>1. v # w => job[v] # r
          BY <3>1, <3>2, <2>2 DEF Holders
        <4>2. QED
          BY <4>1, <3>3, <1>a, QueueAssumption DEF Release
      <3>6. Lease(p)' = "orphaned"
        BY <3>1, <3>2, <3>3, <3>5 DEF LeaseIs
      <3>7. QED
        BY <3>4, <3>6 DEF FL!Next, FL!Die
    <2>3. QED
      BY <2>1, <2>2
  <1>11. CASE Tick
    <2>1. \A r \in RowIds : rows'[r].status = rows[r].status /\ rows'[r].path = rows[r].path
      BY <1>11, AgedFields DEF Tick
    <2>2. QED
      BY <2>1, <1>11, <1>a, LeaseStutter DEF Tick
  <1>12. CASE UNCHANGED vars
    BY <1>12, <1>a, LeaseStutter DEF vars
  <1>13. ASSUME NEW p \in Paths, NEW e \in Events, Enqueue(p, e)
         PROVE  FL!Next \/ Leases' = Leases
    BY <1>13, <1>1, <1>2 DEF Enqueue
  <1>14. ASSUME NEW p \in Paths, Withdraw(p) PROVE FALSE
    BY <1>14 DEF Withdraw
  <1>15. QED
    BY <1>3, <1>4, <1>5, <1>8, <1>9, <1>10, <1>11, <1>12, <1>13, <1>14 DEF Next, WorkerStep

LEMMA InitLeases == Init => FL!Init
  <1> SUFFICES ASSUME Init PROVE FL!Init
    OBVIOUS
  <1>1. PICK p \in Paths, e \in Events :
          rows = [r \in RowIds |-> Finished(FreshRow(p, e), "absent")]
    BY DEF Init
  <1>2. \A r \in RowIds : rows[r].status = "absent"
    BY <1>1, FinishedFields
  <1>3. \A q \in Paths : LiveRows(q) = {}
    BY <1>2 DEF LiveRows, Live
  <1>4. QED
    BY <1>3 DEF FL!Init, Leases, Lease

(* The work queue implements the folder lease: every step of the table, the  *)
(* workers and the clock is a step of the lease or leaves it alone.          *)
THEOREM LeaseImplemented ==
  ASSUME SoloStart, MaxJobTime <= StaleAfter, ~HardDeletes
  PROVE  Spec => ImplementsLease
  <1>1. Init => QueueInv
    BY InitTypes, InitUnique, InitLease DEF QueueInv
  <1>2. QueueInv /\ [Next]_vars => QueueInv'
    BY StepTypes, StepUnique, StepLease DEF QueueInv
  <1>3. QueueInv => LeaseIs
    BY LeaseValues
  <1>4. QueueInv /\ QueueInv' /\ LeaseIs /\ LeaseIs' /\ [Next]_vars => [FL!Next]_Leases
    BY StepLeases
  <1>5. QED
    BY <1>1, <1>2, <1>3, <1>4, InitLeases, PTL DEF Spec, ImplementsLease, FL!Spec

-----------------------------------------------------------------------------
(* What breaks the retry limit is the death of a worker at work, and        *)
(* nothing else: fail() gives up at the limit, and no claim is released      *)
(* that somebody still works on.                                            *)
NobodyDiesAtWork == [][\A w \in Workers : pc[w] = "busy" => ~Crash(w)]_vars

BudgetInv ==
  /\ \A r \in RowIds : rows[r].attempts <= MaxAttempts
  /\ \A r \in RowIds : rows[r].status = "pending" => rows[r].attempts < MaxAttempts
  /\ \A r \in RowIds : rows[r].status = "processing" => Held(r)

(* A recovery finds nothing to release.                                     *)
LEMMA NothingStale ==
  ASSUME SoloStart, MaxJobTime <= StaleAfter, TypeInv, LeaseInv, BudgetInv,
         NEW w \in Workers, StartService(w) \/ StartDrainer(w) \/ BeginTick(w)
  PROVE  /\ \A r \in RowIds : rows'[r] = rows[r]
         /\ UNCHANGED job
  <1>1. UNCHANGED job
    BY DEF StartService, StartDrainer, BeginTick
  <1>2. ASSUME NEW r \in RowIds, NEW cutoff, rows[r].status = "processing" => ~(rows[r].age > cutoff)
        PROVE  Recovered(r, cutoff) = rows[r]
    BY <1>2 DEF Recovered
  <1>3. ASSUME NEW r \in RowIds, rows[r].status = "processing"
        PROVE  \E v \in Workers : job[v] = r /\ job[v] # NoRow /\ ~(rows[r].age > StaleAfter)
    <2>1. PICK v \in Workers : job[v] = r
      BY <1>3 DEF BudgetInv, Held
    <2>2. job[v] # NoRow
      BY <2>1, QueueAssumption
    <2>3. rows[r].age <= elapsed[v]
      BY <1>3, <2>1, <2>2 DEF LeaseInv, Holds
    <2>4. rows[r].age \in Int /\ elapsed[v] \in 0..MaxJobTime
      BY RowFields, QueueAssumption DEF TypeInv, TypeOK
    <2>5. QED
      BY <2>1, <2>2, <2>3, <2>4, QueueAssumption
  <1>4. CASE StartService(w)
    <2>1. ASSUME NEW r \in RowIds PROVE rows'[r] = rows[r]
      <3>1. rows[r].status # "processing"
        BY <1>3, <1>4 DEF StartService
      <3>2. rows'[r] = Recovered(r, 0)
        BY <1>4 DEF StartService, RecoverStale
      <3>3. QED
        BY <1>2, <3>1, <3>2
    <2>2. QED
      BY <1>1, <2>1
  <1>5. CASE StartDrainer(w) \/ BeginTick(w)
    <2>1. ASSUME NEW r \in RowIds PROVE rows'[r] = rows[r]
      <3>1. rows'[r] = Recovered(r, StaleAfter)
        BY <1>5 DEF StartDrainer, BeginTick, RecoverStale
      <3>2. QED
        BY <1>2, <1>3, <3>1
    <2>2. QED
      BY <1>1, <2>1
  <1>6. QED
    BY <1>4, <1>5

(* The end of a job: its row is nobody's claim any more.                    *)
LEMMA JobEndsInBudget ==
  ASSUME TypeInv, BudgetInv, NEW w \in Workers, NEW r \in RowIds, r = job[w], NEW next, Release(w, next),
         NEW row, rows' = [rows EXCEPT ![r] = row],
         row.attempts <= MaxAttempts, row.status # "processing",
         row.status = "pending" => row.attempts < MaxAttempts
  PROVE  BudgetInv'
  <1>a. rows \in [RowIds -> Row] /\ job \in [Workers -> RowIds \cup {NoRow}]
    BY DEF TypeInv, TypeOK
  <1>1. rows'[r] = row /\ \A s \in RowIds \ {r} : rows'[s] = rows[s]
    BY <1>a
  <1>2. \A v \in Workers \ {w} : job'[v] = job[v]
    BY <1>a DEF Release
  <1>3. ASSUME NEW s \in RowIds, rows'[s].status = "processing" PROVE Held(s)'
    <2>1. s # r
      BY <1>1, <1>3
    <2>2. PICK v \in Workers : job[v] = s
      BY <1>1, <1>3, <2>1 DEF BudgetInv, Held
    <2>3. QED
      BY <1>2, <2>1, <2>2 DEF Held
  <1>4. QED
    BY <1>1, <1>3 DEF BudgetInv

LEMMA StepBudget ==
  ASSUME SoloStart, MaxJobTime <= StaleAfter, TypeInv, UniqueLive, LeaseInv, BudgetInv,
         [Next]_vars, [\A w \in Workers : pc[w] = "busy" => ~Crash(w)]_vars
  PROVE  BudgetInv'
  <1>a. rows \in [RowIds -> Row] /\ job \in [Workers -> RowIds \cup {NoRow}]
    BY DEF TypeInv, TypeOK
  <1>b. \A r \in RowIds : rows[r].attempts \in Nat
    BY <1>a, RowFields
  <1>c. ASSUME NEW w \in Workers PROVE job[w] # NoRow <=> pc[w] = "busy"
    BY DEF TypeInv, BusyHasJob
  <1>d. ASSUME NEW w \in Workers, pc[w] = "busy" PROVE job[w] \in RowIds
    BY <1>a, <1>c, <1>d
  <1>1. ASSUME \A r \in RowIds : /\ rows'[r].attempts = rows[r].attempts
                                 /\ rows'[r].status \in {rows[r].status, "absent"},
               UNCHANGED job
        PROVE  BudgetInv'
    BY <1>1 DEF BudgetInv, Held
  <1>2. ASSUME NEW p \in Paths, NEW e \in Events, Enqueue(p, e) PROVE BudgetInv'
    <2>1. CASE Insert(p, e)
      <3>1. PICK r \in RowIds : rows' = [rows EXCEPT ![r] = FreshRow(p, e)]
        BY <2>1 DEF Insert
      <3>2. FreshRow(p, e).attempts = 0 /\ FreshRow(p, e).status = "pending"
        BY DEF FreshRow
      <3>3. rows'[r] = FreshRow(p, e) /\ \A s \in RowIds \ {r} : rows'[s] = rows[s]
        BY <1>a, <3>1
      <3>4. UNCHANGED job
        BY <1>2 DEF Enqueue
      <3>5. QED
        BY <3>2, <3>3, <3>4, QueueAssumption DEF BudgetInv, Held
    <2>2. CASE Coalesce(p, e)
      <3>1. PICK r \in RowIds : rows' = [rows EXCEPT ![r] = Coalesced(rows[r], e)]
        BY <2>2 DEF Coalesce, LiveRows
      <3>2. QED
        BY <1>1, <1>2, <1>a, <3>1, AttemptsKept, CoalescedFields DEF Enqueue
    <2>3. QED
      BY <1>2, <2>1, <2>2 DEF Enqueue
  <1>3. ASSUME NEW p \in Paths, Withdraw(p) PROVE BudgetInv'
    <2>1. \A r \in RowIds : rows'[r] \in {rows[r], Finished(rows[r], "absent")}
      BY <1>3 DEF Withdraw
    <2>2. QED
      BY <1>1, <1>3, <2>1, AttemptsKept, FinishedFields DEF Withdraw
  <1>4. ASSUME NEW w \in Workers, StartService(w) \/ StartDrainer(w) \/ BeginTick(w) PROVE BudgetInv'
    BY <1>1, <1>4, NothingStale
  <1>5. ASSUME NEW w \in Workers, Claim(w) PROVE BudgetInv'
    <2>1. PICK r \in Ready : /\ rows' = [rows EXCEPT ![r] = Claimed(rows[r], w)]
                             /\ job' = [job EXCEPT ![w] = r]
      BY <1>5 DEF Claim
    <2>2. r \in RowIds /\ rows[r].attempts < MaxAttempts
      BY <2>1 DEF Ready, BudgetInv
    <2>3. /\ rows'[r].status = "processing" /\ rows'[r].attempts = rows[r].attempts + 1
          /\ \A s \in RowIds \ {r} : rows'[s] = rows[s]
      BY <1>a, <2>1, <2>2, ClaimedFields, AttemptsKept
    <2>4. job[w] = NoRow
      BY <1>5, <1>c DEF Claim
    <2>5. job'[w] = r /\ \A v \in Workers \ {w} : job'[v] = job[v]
      BY <1>a, <2>1
    <2>6. ASSUME NEW s \in RowIds, rows'[s].status = "processing" PROVE Held(s)'
      <3>1. CASE s = r
        BY <2>5, <3>1 DEF Held
      <3>2. CASE s # r
        <4>1. PICK v \in Workers : job[v] = s
          BY <2>3, <2>6, <3>2 DEF BudgetInv, Held
        <4>2. v # w
          BY <2>4, <4>1, QueueAssumption
        <4>3. QED
          BY <2>5, <4>1, <4>2 DEF Held
      <3>3. QED
        BY <3>1, <3>2
    <2>7. \A s \in RowIds : rows'[s].attempts <= MaxAttempts
      BY <1>b, <2>2, <2>3, QueueAssumption DEF BudgetInv
    <2>8. \A s \in RowIds : rows'[s].status = "pending" => rows'[s].attempts < MaxAttempts
      BY <2>3 DEF BudgetInv
    <2>9. QED
      BY <2>6, <2>7, <2>8 DEF BudgetInv
  <1>6. ASSUME NEW w \in Workers, Drained(w) \/ StopService(w) PROVE BudgetInv'
    BY <1>1, <1>6 DEF Drained, StopService
  <1>7. ASSUME NEW w \in Workers, Succeed(w) \/ FailJob(w) PROVE BudgetInv'
    <2>1. PICK r \in RowIds : r = job[w]
      BY <1>7, <1>d DEF Succeed, FailJob
    <2>2. PICK row \in {rows[r], Finished(rows[r], "done"), Failed(rows[r])} :
            /\ rows' = [rows EXCEPT ![r] = row]
            /\ row = rows[r] => rows[r].status = "absent" \/ row \in {Finished(rows[r], "done"), Failed(rows[r])}
      BY <1>7, <2>1 DEF Succeed, FailJob, Stored
    <2>3. rows[r].attempts \in Nat /\ rows[r].attempts <= MaxAttempts
      BY <1>b DEF BudgetInv
    <2>4. /\ Failed(rows[r]).attempts = rows[r].attempts /\ Failed(rows[r]).status # "processing"
          /\ Failed(rows[r]).status = "pending" => rows[r].attempts < MaxAttempts
      <3>1. CASE rows[r].attempts >= MaxAttempts
        BY <3>1, AttemptsKept, FinishedFields DEF Failed
      <3>2. CASE rows[r].attempts < MaxAttempts
        BY <3>2, AttemptsKept, FailedStatus
      <3>3. QED
        BY <2>3, <3>1, <3>2, QueueAssumption
    <2>5. Finished(rows[r], "done").attempts = rows[r].attempts /\ Finished(rows[r], "done").status = "done"
      BY DEF Finished
    <2>6. /\ row.attempts <= MaxAttempts /\ row.status # "processing"
          /\ row.status = "pending" => row.attempts < MaxAttempts
      BY <2>2, <2>3, <2>4, <2>5
    <2>7. Release(w, "draining")
      BY <1>7 DEF Succeed, FailJob
    <2>8. QED
      BY <2>1, <2>2, <2>6, <2>7, JobEndsInBudget
  <1>8. ASSUME NEW w \in Workers, FailRaises(w) PROVE BudgetInv'
    <2>1. PICK r \in RowIds : r = job[w]
      BY <1>8, <1>d DEF FailRaises
    <2>2. PICK s \in LiveRows(rows[r].path) : s # r
      BY <1>8, <2>1 DEF FailRaises, Conflicts
    <2>3. rows[r].status \notin Live
      BY <2>2 DEF UniqueLive, LiveRows
    <2>4. rows' = [rows EXCEPT ![r] = rows[r]]
      BY <1>8, <1>a DEF FailRaises
    <2>5. QED
      BY <1>8, <2>1, <2>3, <2>4, JobEndsInBudget DEF FailRaises, Live, BudgetInv
  <1>9. ASSUME NEW w \in Workers, Crash(w), ~(UNCHANGED vars) PROVE BudgetInv'
    <2>1. pc[w] # "busy"
      BY <1>9
    <2>2. job[w] = NoRow /\ job' = [job EXCEPT ![w] = NoRow] /\ UNCHANGED rows
      BY <1>9, <1>c, <2>1 DEF Crash, Release
    <2>3. UNCHANGED job
      BY <1>a, <2>2
    <2>4. QED
      BY <1>1, <2>2, <2>3
  <1>10. CASE Tick
    <2>1. \A r \in RowIds : rows'[r] \in {rows[r], Aged(rows[r])}
      BY <1>10 DEF Tick
    <2>2. QED
      BY <1>1, <1>10, <2>1, AttemptsKept, AgedFields DEF Tick
  <1>11. CASE UNCHANGED vars
    BY <1>1, <1>11 DEF vars
  <1>12. QED
    BY <1>2, <1>3, <1>4, <1>5, <1>6, <1>7, <1>8, <1>9, <1>10, <1>11 DEF Next, WorkerStep

(* Unless a worker dies in the middle of a job, no row is claimed more than *)
(* MaxAttempts times: the limit of fail() is the limit of the queue, and a   *)
(* death is the one way round it (recover_stale).                           *)
THEOREM OnlyDeathsExceedBudget ==
  ASSUME SoloStart, MaxJobTime <= StaleAfter
  PROVE  Spec /\ NobodyDiesAtWork => []RetryBudget
  <1> DEFINE Inv == TypeInv /\ UniqueLive /\ LeaseInv /\ BudgetInv
  <1>1. Init => Inv
    <2> SUFFICES ASSUME Init PROVE BudgetInv
      BY InitTypes, InitUnique, InitLease
    <2>1. PICK p \in Paths, e \in Events : rows = [r \in RowIds |-> Finished(FreshRow(p, e), "absent")]
      BY DEF Init
    <2>2. Finished(FreshRow(p, e), "absent").attempts = 0 /\ Finished(FreshRow(p, e), "absent").status = "absent"
      BY DEF Finished, FreshRow
    <2>3. QED
      BY <2>1, <2>2, QueueAssumption DEF BudgetInv
  <1>2. Inv /\ [Next]_vars /\ [\A w \in Workers : pc[w] = "busy" => ~Crash(w)]_vars => Inv'
    BY StepTypes, StepUnique, StepLease, StepBudget
  <1>3. Inv => RetryBudget
    BY DEF BudgetInv, RetryBudget
  <1>4. QED
    BY <1>1, <1>2, <1>3, PTL DEF Spec, NobodyDiesAtWork

-------------------------------------------------------------------------------
(* The watcher.                                                             *)

(* The assumptions of every theorem here.                                    *)
Careful == SoloStart /\ MaxJobTime <= StaleAfter /\ ~HardDeletes /\ CalmWhileBusy

(* A change of the folder is still on its way, or never reached the queue.   *)
Open(p) == p \in Undelivered \/ missed[p]

(* Undelivered events need a service, and the last event of a folder that    *)
(* is gone says so.                                                          *)
LastOf(i) == \A j \in DOMAIN notices : j > i => notices[j][1] # notices[i][1]

NoticeInv ==
  /\ ~ObserverUp => notices = <<>>
  /\ \A i \in DOMAIN notices :
       disk[notices[i][1]] = 0 /\ LastOf(i) => notices[i][2] = "delete"

(* A waiting or claimed row of a folder that is gone says so, too.           *)
RowInv ==
  \A r \in RowIds :
    rows[r].status \in Live /\ disk[rows[r].path] = 0 /\ ~Open(rows[r].path)
      => rows[r].event = "delete"

(* A job knows the event of its row, and each stage has seen the folder as   *)
(* it still is.                                                              *)
OnCourse(w, p) ==
  /\ task[w].stage = "deleting" => disk[p] = 0
  /\ task[w].stage = "crawling" => disk[p] # 0
  /\ task[w].stage = "storing" => disk[p] # 0 /\ task[w].seen = disk[p]
  /\ task[w].stage = "finished" => InSync(p) \/ Open(p)

OnTask(w) ==
  IF job[w] = NoRow THEN task[w].stage = "none"
  ELSE task[w].event = rows[job[w]].event /\ OnCourse(w, rows[job[w]].path)

TaskInv == \A w \in Workers : OnTask(w)

(* DoneMeansInSync without its clause on jobs: a folder with a job has a     *)
(* live row.                                                                 *)
Settled(p) == LiveRows(p) = {} /\ ~Open(p) /\ ~gaveUp[p] => InSync(p)

SettledInv == \A p \in Paths : Settled(p)

WatcherInv == WatcherTypeOK /\ QueueInv /\ NoticeInv /\ RowInv /\ TaskInv /\ SettledInv

-----------------------------------------------------------------------------
LEMMA WatcherTypes ==
  ASSUME WatcherTypeOK
  PROVE  /\ rows \in [RowIds -> Row] /\ job \in [Workers -> RowIds \cup {NoRow}]
         /\ disk \in [Paths -> 0..MaxVersion] /\ indexed \in [Paths -> 0..MaxVersion]
         /\ notices \in Seq(Paths \X Events)
         /\ task \in [Workers -> [event: Events, stage: Stages, seen: 0..MaxVersion]]
         /\ active \in [Paths -> BOOLEAN] /\ missed \in [Paths -> BOOLEAN]
         /\ gaveUp \in [Paths -> BOOLEAN]
  BY DEF WatcherTypeOK, TypeOK

(* Every report of the observer names a folder and an event of the queue.   *)
Addressed == notices \in Seq(Paths \X Events)

LEMMA TypedAddressed == ASSUME WatcherTypeOK PROVE Addressed
  BY DEF WatcherTypeOK, Addressed

LEMMA HeadNotice ==
  ASSUME Addressed, notices # <<>>
  PROVE  \E p \in Paths, e \in Events : Head(notices)[1] = p /\ Head(notices)[2] = e
  <1>1. Head(notices) \in Paths \X Events
    BY DEF Addressed
  <1>2. QED
    BY <1>1

(* Every step of the watcher is a step of the queue or leaves it alone.      *)
LEMMA QueueStep == Addressed /\ [WatcherNext]_allVars => [Next]_vars
  <1> SUFFICES ASSUME Addressed, [WatcherNext]_allVars PROVE Next \/ UNCHANGED vars
    OBVIOUS
  <1>1. CASE UNCHANGED allVars
    BY <1>1 DEF allVars
  <1>2. ASSUME NEW p \in Paths, WriteFolder(p) \/ RemoveFolder(p) PROVE UNCHANGED vars
    BY <1>2 DEF WriteFolder, RemoveFolder
  <1>3. ASSUME NEW p \in Paths, NEW q \in Paths, MoveFolder(p, q) PROVE UNCHANGED vars
    BY <1>3 DEF MoveFolder
  <1>4. CASE DeliverFails
    BY <1>4 DEF DeliverFails
  <1>5. CASE Deliver
    <2>1. PICK p \in Paths, e \in Events : Head(notices)[1] = p /\ Head(notices)[2] = e
      BY <1>5, HeadNotice DEF Deliver
    <2>2. Enqueue(p, e)
      BY <1>5, <2>1 DEF Deliver
    <2>3. QED
      BY <2>2 DEF Next
  <1>6. ASSUME NEW w \in Workers, Decide(w) \/ SoftDelete(w) \/ Crawl(w) \/ Store(w)
        PROVE  UNCHANGED vars
    BY <1>6 DEF Decide, SoftDelete, Crawl, Store
  <1>7. ASSUME NEW w \in Workers, ClaimTask(w) \/ Complete(w) \/ TaskFails(w) \/ Control(w)
        PROVE  Next
    BY <1>7 DEF ClaimTask, Complete, TaskFails, Control, Next, WorkerStep
  <1>8. CASE TimePasses
    BY <1>8 DEF TimePasses, Next
  <1>9. QED
    BY <1>1, <1>2, <1>3, <1>4, <1>5, <1>6, <1>7, <1>8 DEF WatcherNext

LEMMA QueueKept ==
  ASSUME Careful
  PROVE  WatcherTypeOK /\ QueueInv /\ [WatcherNext]_allVars => QueueInv'
  BY QueueStep, TypedAddressed, StepTypes, StepUnique, StepLease DEF Careful, QueueInv

-----------------------------------------------------------------------------
(* What the steps do to the rows.                                            *)

(* One row becomes the folder's live row, with the event that arrived.       *)
LEMMA EnqueueEffect ==
  ASSUME TypeInv, NEW p \in Paths, NEW e \in Events, Enqueue(p, e)
  PROVE  \E r \in RowIds :
           /\ \A s \in RowIds \ {r} : rows'[s] = rows[s]
           /\ rows'[r].path = p /\ rows'[r].event = e /\ rows'[r].status \in Live
           /\ rows[r].path = p \/ ~Held(r)
           /\ rows[r].status \in Live => rows[r].path = p
  <1>a. rows \in [RowIds -> Row]
    BY DEF TypeInv, TypeOK
  <1>1. CASE Insert(p, e)
    <2>1. PICK r \in RowIds : /\ rows[r].status \notin Live /\ ~Held(r)
                              /\ rows' = [rows EXCEPT ![r] = FreshRow(p, e)]
      BY <1>1 DEF Insert
    <2>2. rows'[r] = FreshRow(p, e)
      BY <2>1, <1>a
    <2>3. QED
      BY <2>1, <2>2, <1>a DEF FreshRow, Live
  <1>2. CASE Coalesce(p, e)
    <2>1. PICK r \in LiveRows(p) : rows' = [rows EXCEPT ![r] = Coalesced(rows[r], e)]
      BY <1>2 DEF Coalesce
    <2>2. r \in RowIds /\ rows[r].path = p /\ rows[r].status \in Live
      BY <2>1 DEF LiveRows
    <2>3. rows'[r] = Coalesced(rows[r], e)
      BY <2>1, <2>2, <1>a
    <2>4. rows'[r].path = p /\ rows'[r].event = e /\ rows'[r].status \in Live
      BY <2>2, <2>3 DEF Coalesced
    <2>5. QED
      BY <2>1, <2>2, <2>4, <1>a
  <1>3. QED
    BY <1>1, <1>2 DEF Enqueue

(* Every other statement keeps the folder and the event of every row, and    *)
(* makes no row live.                                                        *)
KeptRow(r) ==
  /\ rows'[r].path = rows[r].path /\ rows'[r].event = rows[r].event
  /\ rows'[r].status \in Live => rows[r].status \in Live

LEMMA EventKept ==
  /\ \A row, s : Finished(row, s).event = row.event
  /\ \A row, due : Pending(row, due).event = row.event
  /\ \A row, w : Claimed(row, w).event = row.event
  /\ \A row : Failed(row).event = row.event
  /\ \A row : Aged(row).event = row.event
  BY DEF Finished, Pending, Claimed, Failed, Aged

LEMMA RecoveryKeeps ==
  ASSUME NEW cutoff, RecoverStale(cutoff), NEW r \in RowIds
  PROVE  KeptRow(r) /\ (rows[r].status \in Live => rows'[r].status \in Live)
  <1>1. rows'[r] = Recovered(r, cutoff)
    BY DEF RecoverStale
  <1>2. Recovered(r, cutoff).event = rows[r].event
    BY EventKept DEF Recovered
  <1>3. QED
    BY <1>1, <1>2, RecoveredStatus DEF KeptRow

LEMMA ClaimEffect ==
  ASSUME TypeInv, NEW w \in Workers, Claim(w)
  PROVE  \E r \in RowIds :
           /\ rows[r].status \in Live /\ job' = [job EXCEPT ![w] = r]
           /\ \A s \in RowIds : KeptRow(s) /\ (rows[s].status \in Live => rows'[s].status \in Live)
  <1>a. rows \in [RowIds -> Row]
    BY DEF TypeInv, TypeOK
  <1>1. PICK r \in Ready : /\ rows' = [rows EXCEPT ![r] = Claimed(rows[r], w)]
                           /\ job' = [job EXCEPT ![w] = r]
    BY DEF Claim
  <1>2. r \in RowIds /\ rows[r].status \in Live
    BY <1>1 DEF Ready, Live
  <1>3. \A s \in RowIds : s # r => rows'[s] = rows[s]
    BY <1>1, <1>a
  <1>4. rows'[r] = Claimed(rows[r], w)
    BY <1>1, <1>2, <1>a
  <1>5. KeptRow(r) /\ rows'[r].status \in Live
    BY <1>2, <1>4, ClaimedFields, EventKept DEF KeptRow, Live
  <1>6. QED
    BY <1>1, <1>2, <1>3, <1>5 DEF KeptRow

LEMMA TickKeeps ==
  ASSUME Tick, NEW r \in RowIds
  PROVE  KeptRow(r) /\ (rows[r].status \in Live => rows'[r].status \in Live)
  <1>1. rows'[r] = rows[r] \/ rows'[r] = Aged(rows[r])
    BY DEF Tick
  <1>2. QED
    BY <1>1, AgedFields, EventKept DEF KeptRow

(* A job that ends touches its own row only.                                 *)
LEMMA EndEffect ==
  ASSUME QueueInv, ~HardDeletes, NEW w \in Workers, Succeed(w) \/ FailJob(w)
  PROVE  /\ job[w] \in RowIds /\ job[w] # NoRow /\ job' = [job EXCEPT ![w] = NoRow]
         /\ \A r \in RowIds : KeptRow(r)
         /\ \A r \in RowIds \ {job[w]} : rows'[r] = rows[r]
         /\ FailJob(w) => rows'[job[w]].status \in {"pending", "failed"}
  <1>a. /\ rows \in [RowIds -> Row] /\ job[w] # NoRow
        /\ job \in [Workers -> RowIds \cup {NoRow}]
    BY DEF QueueInv, TypeInv, TypeOK, BusyHasJob, Succeed, FailJob
  <1>1. job[w] \in RowIds /\ rows[job[w]].status = "processing"
    BY <1>a, HolderOwnsLiveRow
  <1>2. \A r \in RowIds \ {job[w]} : rows'[r] = rows[r]
    BY <1>a DEF Succeed, FailJob
  <1>3. PICK own \in RowIds : own = job[w]
    BY <1>1
  <1>4. /\ rows'[own] \in {Finished(rows[own], "done"), Failed(rows[own])}
        /\ FailJob(w) => rows'[own] = Failed(rows[own])
    BY <1>a, <1>1, <1>3 DEF Succeed, FailJob, Stored
  <1>5. KeptRow(own)
    BY <1>1, <1>3, <1>4, FinishedFields, FailedStatus, EventKept DEF KeptRow, Live
  <1>6. \A r \in RowIds : KeptRow(r)
    BY <1>2, <1>3, <1>5 DEF KeptRow
  <1>7. job' = [job EXCEPT ![w] = NoRow]
    BY DEF Succeed, FailJob, Release
  <1>8. QED
    BY <1>a, <1>1, <1>2, <1>3, <1>4, <1>6, <1>7, FailedStatus

(* fail() is never refused: a folder has no second live row.                 *)
LEMMA NeverRefused ==
  ASSUME QueueInv, ~HardDeletes, NEW w \in Workers PROVE ~FailRaises(w)
  <1> SUFFICES ASSUME FailRaises(w) PROVE FALSE
    OBVIOUS
  <1>1. job[w] # NoRow
    BY DEF FailRaises, QueueInv, TypeInv, BusyHasJob
  <1>2. LiveRows(rows[job[w]].path) = {job[w]}
    BY <1>1, HolderOwnsLiveRow
  <1>3. QED
    BY <1>2 DEF FailRaises, Conflicts

-----------------------------------------------------------------------------
(* Types.                                                                    *)

LEMMA StageType ==
  ASSUME WatcherTypeOK, NEW w \in Workers, NEW s \in Stages,
         task' = [task EXCEPT ![w].stage = s]
  PROVE  task' \in [Workers -> [event: Events, stage: Stages, seen: 0..MaxVersion]]
  BY WatcherTypes

LEMMA ReportTypes ==
  ASSUME WatcherTypeOK, NEW ps \in SUBSET Paths, NEW batch \in Seq(Paths \X Events),
         Report(ps, batch)
  PROVE  /\ notices' \in Seq(Paths \X Events) /\ Len(notices') <= MaxNotices
         /\ missed' \in [Paths -> BOOLEAN]
  <1>1. CASE ObserverUp
    <2>1. notices' = notices \o batch /\ missed' = missed /\ Len(notices) + Len(batch) <= MaxNotices
      BY <1>1 DEF Report
    <2>2. Len(notices \o batch) = Len(notices) + Len(batch)
      BY WatcherTypes
    <2>3. QED
      BY <2>1, <2>2, WatcherTypes
  <1>2. CASE ~ObserverUp
    BY <1>2, WatcherTypes DEF Report, WatcherTypeOK
  <1>3. QED
    BY <1>1, <1>2

LEMMA InitWatcherTypes == WatcherInit => WatcherTypeOK
  <1> SUFFICES ASSUME WatcherInit PROVE WatcherTypeOK
    OBVIOUS
  <1>1. TypeOK
    BY InitTypes DEF WatcherInit, TypeInv
  <1>2. NoTask \in [event: Events, stage: Stages, seen: 0..MaxVersion]
    BY WatcherAssumption DEF NoTask, Stages
  <1>3. <<>> \in Seq(Paths \X Events) /\ Len(<<>>) = 0
    OBVIOUS
  <1>4. QED
    BY <1>1, <1>2, <1>3, WatcherAssumption DEF WatcherInit, WatcherTypeOK

LEMMA AtWork ==
  ASSUME WatcherTypeOK, TaskInv, NEW w \in Workers, task[w].stage # "none"
  PROVE  job[w] \in RowIds /\ job[w] # NoRow /\ Folder(w) \in Paths
  <1>1. job[w] # NoRow /\ job[w] \in RowIds
    BY WatcherTypes DEF TaskInv, OnTask
  <1>2. QED
    BY <1>1, WatcherTypes, RowFields DEF Folder

LEMMA StepWatcherTypes ==
  TypeInv /\ WatcherTypeOK /\ TaskInv /\ [WatcherNext]_allVars => WatcherTypeOK'
  <1> SUFFICES ASSUME TypeInv, WatcherTypeOK, TaskInv, [WatcherNext]_allVars
               PROVE  WatcherTypeOK'
    OBVIOUS
  <1>a. TypeOK'
    BY QueueStep, TypedAddressed, StepTypes DEF TypeInv
  <1>b. NoTask \in [event: Events, stage: Stages, seen: 0..MaxVersion]
    BY WatcherAssumption DEF NoTask, Stages
  <1>c. Len(notices) \in Nat /\ Len(notices) <= MaxNotices
    BY WatcherTypes DEF WatcherTypeOK
  <1>1. ASSUME NEW p \in Paths, WriteFolder(p) PROVE WatcherTypeOK'
    <2>1. << <<p, "upsert">> >> \in Seq(Paths \X Events)
      BY WatcherAssumption
    <2>2. /\ notices' \in Seq(Paths \X Events) /\ Len(notices') <= MaxNotices
          /\ missed' \in [Paths -> BOOLEAN]
      BY <1>1, <2>1, ReportTypes DEF WriteFolder
    <2>3. stamp' \in 0..MaxVersion /\ disk' \in [Paths -> 0..MaxVersion]
      BY <1>1, WatcherAssumption DEF WriteFolder, WatcherTypeOK
    <2>4. QED
      BY <1>a, <1>1, <2>2, <2>3 DEF WriteFolder, WatcherTypeOK
  <1>2. ASSUME NEW p \in Paths, RemoveFolder(p) PROVE WatcherTypeOK'
    <2>1. << <<p, "delete">> >> \in Seq(Paths \X Events)
      BY WatcherAssumption
    <2>2. /\ notices' \in Seq(Paths \X Events) /\ Len(notices') <= MaxNotices
          /\ missed' \in [Paths -> BOOLEAN]
      BY <1>2, <2>1, ReportTypes DEF RemoveFolder
    <2>3. disk' \in [Paths -> 0..MaxVersion]
      BY <1>2, WatcherAssumption DEF RemoveFolder, WatcherTypeOK
    <2>4. QED
      BY <1>a, <1>2, <2>2, <2>3 DEF RemoveFolder, WatcherTypeOK
  <1>3. ASSUME NEW p \in Paths, NEW q \in Paths, MoveFolder(p, q) PROVE WatcherTypeOK'
    <2>1. << <<q, "upsert">>, <<p, "delete">> >> \in Seq(Paths \X Events)
      BY WatcherAssumption
    <2>2. /\ notices' \in Seq(Paths \X Events) /\ Len(notices') <= MaxNotices
          /\ missed' \in [Paths -> BOOLEAN]
      BY <1>3, <2>1, ReportTypes DEF MoveFolder
    <2>3. stamp' \in 0..MaxVersion /\ disk' \in [Paths -> 0..MaxVersion]
      <3>1. stamp + 1 \in 0..MaxVersion /\ 0 \in 0..MaxVersion /\ stamp' = stamp + 1
        BY <1>3, WatcherAssumption DEF MoveFolder, WatcherTypeOK
      <3>2. PICK new \in 0..MaxVersion, d \in [Paths -> 0..MaxVersion] :
              new = stamp + 1 /\ d = [disk EXCEPT ![p] = 0]
        BY <3>1, WatcherTypes
      <3>3. disk' = [d EXCEPT ![q] = new]
        BY <1>3, <3>2 DEF MoveFolder
      <3>4. QED
        BY <3>1, <3>3
    <2>4. QED
      BY <1>a, <1>3, <2>2, <2>3 DEF MoveFolder, WatcherTypeOK
  <1>4. CASE Deliver \/ DeliverFails
    <2>1. notices # <<>> /\ notices' = Tail(notices)
      BY <1>4 DEF Deliver, DeliverFails
    <2>2. notices' \in Seq(Paths \X Events) /\ Len(notices') <= MaxNotices
      BY <2>1, <1>c, WatcherTypes, WatcherAssumption
    <2>3. missed' \in [Paths -> BOOLEAN] /\ gaveUp' \in [Paths -> BOOLEAN]
      BY <1>4, WatcherTypes DEF Deliver, DeliverFails
    <2>4. UNCHANGED <<disk, stamp, task, indexed, active>>
      BY <1>4 DEF Deliver, DeliverFails
    <2>5. QED
      BY <1>a, <2>2, <2>3, <2>4 DEF WatcherTypeOK
  <1>5. ASSUME NEW w \in Workers, ClaimTask(w) PROVE WatcherTypeOK'
    <2>1. PICK r \in RowIds : job' = [job EXCEPT ![w] = r]
      BY <1>5, ClaimEffect DEF ClaimTask
    <2>2. rows[job'[w]].event \in Events
      BY <2>1, WatcherTypes, RowFields
    <2> DEFINE new == [event |-> rows[job'[w]].event, stage |-> "claimed", seen |-> 0]
    <2>3. new \in [event: Events, stage: Stages, seen: 0..MaxVersion]
      BY <2>2, WatcherAssumption DEF Stages
    <2>4. task' = [task EXCEPT ![w] = new]
      BY <1>5 DEF ClaimTask
    <2> HIDE DEF new
    <2>5. task' \in [Workers -> [event: Events, stage: Stages, seen: 0..MaxVersion]]
      BY <2>3, <2>4, WatcherTypes
    <2>6. UNCHANGED <<disk, stamp, notices, indexed, active, missed, gaveUp>>
      BY <1>5 DEF ClaimTask
    <2>7. QED
      BY <1>a, <2>5, <2>6 DEF WatcherTypeOK
  <1>6. ASSUME NEW w \in Workers, Decide(w) \/ Crawl(w) PROVE WatcherTypeOK'
    <2>1. task' \in [Workers -> [event: Events, stage: Stages, seen: 0..MaxVersion]]
      <3>1. CASE Decide(w)
        <4>1. PICK s \in Stages : task' = [task EXCEPT ![w].stage = s]
          BY <3>1 DEF Decide, Stages
        <4>2. QED
          BY <4>1, StageType
      <3>2. CASE Crawl(w)
        <4>1. PICK found : /\ task' = [task EXCEPT ![w].stage = "storing", ![w].seen = found]
                           /\ found = IF disk[Folder(w)] # 0 THEN disk[Folder(w)]
                                      ELSE indexed[Folder(w)]
          BY <3>2 DEF Crawl
        <4>2. Folder(w) \in Paths
          BY <3>2, AtWork DEF Crawl
        <4>3. found \in 0..MaxVersion
          BY <4>1, <4>2, WatcherTypes
        <4> DEFINE next == [task[w] EXCEPT !.stage = "storing", !.seen = found]
        <4>4. next \in [event: Events, stage: Stages, seen: 0..MaxVersion]
          <5>1. task[w] \in [event: Events, stage: Stages, seen: 0..MaxVersion]
            BY WatcherTypes
          <5>2. "storing" \in Stages
            BY DEF Stages
          <5>3. QED
            BY <4>3, <5>1, <5>2
        <4>5. task' = [task EXCEPT ![w] = next]
          BY <4>1
        <4> HIDE DEF next
        <4>6. QED
          BY <4>4, <4>5, WatcherTypes
      <3>3. QED
        BY <1>6, <3>1, <3>2
    <2>2. UNCHANGED <<disk, stamp, notices, indexed, active, missed, gaveUp>>
      BY <1>6 DEF Decide, Crawl
    <2>3. QED
      BY <1>a, <2>1, <2>2 DEF WatcherTypeOK
  <1>7. ASSUME NEW w \in Workers, SoftDelete(w) \/ Store(w) PROVE WatcherTypeOK'
    <2>1. task' = [task EXCEPT ![w].stage = "finished"]
      BY <1>7 DEF SoftDelete, Store
    <2>2. task' \in [Workers -> [event: Events, stage: Stages, seen: 0..MaxVersion]]
      BY <2>1, StageType DEF Stages
    <2>3. task[w].seen \in 0..MaxVersion
      BY WatcherTypes
    <2>4. indexed' \in [Paths -> 0..MaxVersion] /\ active' \in [Paths -> BOOLEAN]
      BY <1>7, <2>3, WatcherTypes DEF SoftDelete, Store
    <2>5. UNCHANGED <<disk, stamp, notices, missed, gaveUp>>
      BY <1>7 DEF SoftDelete, Store
    <2>6. QED
      BY <1>a, <2>2, <2>4, <2>5 DEF WatcherTypeOK
  <1>8. ASSUME NEW w \in Workers, Complete(w) \/ TaskFails(w) PROVE WatcherTypeOK'
    <2>1. task' = [task EXCEPT ![w] = NoTask]
      BY <1>8 DEF Complete, TaskFails
    <2>2. task' \in [Workers -> [event: Events, stage: Stages, seen: 0..MaxVersion]]
      BY <2>1, <1>b, WatcherTypes
    <2>3. gaveUp' \in [Paths -> BOOLEAN]
      <3>1. CASE Complete(w)
        BY <3>1, WatcherTypes DEF Complete
      <3>2. CASE TaskFails(w)
        <4>1. PICK b : gaveUp' = [gaveUp EXCEPT ![Folder(w)] = gaveUp[Folder(w)] \/ b]
                       /\ b \in BOOLEAN
          <5>1. (rows[job[w]].status # "failed" /\ rows'[job[w]].status = "failed") \in BOOLEAN
            OBVIOUS
          <5>2. QED
            BY <3>2, <5>1 DEF TaskFails
        <4>2. QED
          BY <4>1, WatcherTypes
      <3>3. QED
        BY <1>8, <3>1, <3>2
    <2>4. UNCHANGED <<disk, stamp, notices, indexed, active, missed>>
      BY <1>8 DEF Complete, TaskFails
    <2>5. QED
      BY <1>a, <2>2, <2>3, <2>4 DEF WatcherTypeOK
  <1>9. ASSUME NEW w \in Workers, Control(w) PROVE WatcherTypeOK'
    <2>1. task' = [task EXCEPT ![w] = NoTask]
      BY <1>9 DEF Control
    <2>2. task' \in [Workers -> [event: Events, stage: Stages, seen: 0..MaxVersion]]
      BY <2>1, <1>b, WatcherTypes
    <2>3. notices' = notices \/ notices' = <<>>
      BY <1>9 DEF Control
    <2>4. notices' \in Seq(Paths \X Events) /\ Len(notices') <= MaxNotices
      <3>1. CASE notices' = notices
        BY <3>1, <1>c, WatcherTypes
      <3>2. CASE notices' = <<>>
        <4>1. <<>> \in Seq(Paths \X Events) /\ Len(<<>>) = 0
          OBVIOUS
        <4>2. QED
          BY <3>2, <4>1, WatcherAssumption
      <3>3. QED
        BY <2>3, <3>1, <3>2
    <2>5. missed' \in [Paths -> BOOLEAN]
      <3> DEFINE lost == ObserverUp /\ ~ObserverUp'
                 now == [p \in Paths |-> missed[p] \/ (lost /\ p \in Undelivered)]
      <3>1. missed' = now
        BY <1>9 DEF Control
      <3>2. ASSUME NEW p \in Paths PROVE now[p] \in BOOLEAN
        OBVIOUS
      <3>3. now \in [Paths -> BOOLEAN]
        <4>1. now = [p \in Paths |-> now[p]]
          OBVIOUS
        <4> HIDE DEF now
        <4>2. QED
          BY <3>2, <4>1
      <3>4. QED
        BY <3>1, <3>3
    <2>6. UNCHANGED <<disk, stamp, indexed, active, gaveUp>>
      BY <1>9 DEF Control
    <2>7. QED
      BY <1>a, <2>2, <2>4, <2>5, <2>6 DEF WatcherTypeOK
  <1>10. CASE TimePasses \/ UNCHANGED allVars
    <2>1. UNCHANGED wvars
      BY <1>10 DEF TimePasses, allVars
    <2>2. QED
      BY <1>a, <2>1 DEF wvars, WatcherTypeOK
  <1>11. QED
    BY <1>1, <1>2, <1>3, <1>4, <1>5, <1>6, <1>7, <1>8, <1>9, <1>10 DEF WatcherNext

-----------------------------------------------------------------------------
(* The source tree changes.                                                  *)

LEMMA Appended ==
  ASSUME NEW S, NEW s \in Seq(S), NEW t \in Seq(S), NEW u, u = s \o t
  PROVE  /\ DOMAIN u = 1..(Len(s) + Len(t)) /\ DOMAIN s = 1..Len(s) /\ DOMAIN t = 1..Len(t)
         /\ Len(s) \in Nat /\ Len(t) \in Nat
         /\ \A i \in DOMAIN s : i \in DOMAIN u /\ u[i] = s[i]
         /\ \A j \in DOMAIN t : Len(s) + j \in DOMAIN u /\ u[Len(s) + j] = t[j]
  <1>1. /\ DOMAIN s = 1..Len(s) /\ DOMAIN t = 1..Len(t)
        /\ Len(s) \in Nat /\ Len(t) \in Nat
    OBVIOUS
  <1>2. DOMAIN u = 1..(Len(s) + Len(t))
    OBVIOUS
  <1>3. ASSUME NEW i \in DOMAIN s PROVE i \in DOMAIN u /\ u[i] = s[i]
    BY <1>1, <1>2
  <1>4. ASSUME NEW j \in DOMAIN t PROVE Len(s) + j \in DOMAIN u /\ u[Len(s) + j] = t[j]
    BY <1>1, <1>2
  <1>5. QED
    BY <1>1, <1>2, <1>3, <1>4

(* The notices after a report that is heard.                                 *)
LEMMA Heard ==
  ASSUME WatcherTypeOK, NEW batch \in Seq(Paths \X Events), notices' = notices \o batch
  PROVE  /\ DOMAIN notices' = 1..(Len(notices) + Len(batch))
         /\ DOMAIN notices = 1..Len(notices) /\ DOMAIN batch = 1..Len(batch)
         /\ Len(notices) \in Nat /\ Len(batch) \in Nat
         /\ \A i \in DOMAIN notices : i \in DOMAIN notices' /\ notices'[i] = notices[i]
         /\ \A j \in DOMAIN batch : /\ Len(notices) + j \in DOMAIN notices'
                                    /\ notices'[Len(notices) + j] = batch[j]
  <1>1. PICK old, new : old \in Seq(Paths \X Events) /\ old = notices /\ new = notices'
    BY WatcherTypes
  <1>2. new = old \o batch
    BY <1>1
  <1>3. /\ DOMAIN new = 1..(Len(old) + Len(batch)) /\ DOMAIN old = 1..Len(old)
        /\ DOMAIN batch = 1..Len(batch)
        /\ Len(old) \in Nat /\ Len(batch) \in Nat
        /\ \A i \in DOMAIN old : i \in DOMAIN new /\ new[i] = old[i]
        /\ \A j \in DOMAIN batch : Len(old) + j \in DOMAIN new /\ new[Len(old) + j] = batch[j]
    BY <1>2, Appended
  <1>4. QED
    BY <1>1, <1>3

OpenNext(p) == p \in Undelivered' \/ missed'[p]

(* A change is open afterwards, and nothing that was open is forgotten.      *)
LEMMA ReportOpens ==
  ASSUME WatcherTypeOK, NEW ps \in SUBSET Paths, NEW batch \in Seq(Paths \X Events),
         Report(ps, batch), \A p \in ps : \E j \in DOMAIN batch : batch[j][1] = p
  PROVE  \A p \in Paths : p \in ps \/ Open(p) => OpenNext(p)
  <1> SUFFICES ASSUME NEW p \in Paths, p \in ps \/ Open(p) PROVE OpenNext(p)
    OBVIOUS
  <1>1. CASE ObserverUp
    <2>1. notices' = notices \o batch /\ missed' = missed
      BY <1>1 DEF Report
    <2>2. \A i \in DOMAIN notices : i \in DOMAIN notices' /\ notices'[i] = notices[i]
      BY <2>1, Heard
    <2>3. ASSUME NEW j \in DOMAIN batch
          PROVE  \E i \in DOMAIN notices' : notices'[i] = batch[j]
      <3>1. Len(notices) + j \in DOMAIN notices' /\ notices'[Len(notices) + j] = batch[j]
        BY <2>1, Heard
      <3>2. QED
        BY <3>1
    <2>4. CASE p \in ps
      BY <2>3, <2>4 DEF OpenNext, Undelivered
    <2>5. CASE Open(p)
      BY <2>1, <2>2, <2>5 DEF Open, OpenNext, Undelivered
    <2>6. QED
      BY <2>4, <2>5
  <1>2. CASE ~ObserverUp
    <2>1. notices' = notices /\ missed' = [q \in Paths |-> missed[q] \/ q \in ps]
      BY <1>2 DEF Report
    <2>2. QED
      BY <2>1 DEF Open, OpenNext, Undelivered
  <1>3. QED
    BY <1>1, <1>2

LEMMA ReportNotices ==
  ASSUME WatcherTypeOK, NoticeInv, NEW ps \in SUBSET Paths,
         NEW batch \in Seq(Paths \X Events), Report(ps, batch), UNCHANGED pc,
         \A p \in ps : \E j \in DOMAIN batch : batch[j][1] = p,
         \A p \in Paths \ ps : disk'[p] = disk[p],
         \A j \in DOMAIN batch :
            \/ batch[j][2] = "delete" \/ disk'[batch[j][1]] # 0
            \/ \E k \in DOMAIN batch : k > j /\ batch[k][1] = batch[j][1]
  PROVE  NoticeInv'
  <1>1. CASE ObserverUp
    <2>1. notices' = notices \o batch
      BY <1>1 DEF Report
    <2>2. ObserverUp'
      BY <1>1 DEF ObserverUp
    <2>3. ASSUME NEW i \in DOMAIN notices', (disk[notices[i][1]] = 0)', LastOf(i)'
          PROVE  (notices[i][2])' = "delete"
      <3>1. CASE i \in DOMAIN notices
        <4>1. notices'[i] = notices[i] /\ i \in 1..Len(notices)
          BY <2>1, <3>1, Heard
        <4>2. notices[i][1] \in Paths
          BY <3>1, WatcherTypes
        <4>3. ASSUME NEW j \in DOMAIN batch PROVE batch[j][1] # notices[i][1]
          <5>1. /\ Len(notices) + j \in DOMAIN notices'
                /\ notices'[Len(notices) + j] = batch[j]
            BY <2>1, Heard
          <5>2. Len(notices) + j > i
            BY <2>1, <4>1, Heard
          <5>3. QED
            BY <2>3, <4>1, <5>1, <5>2 DEF LastOf
        <4>4. disk[notices[i][1]] = 0
          BY <2>3, <4>1, <4>2, <4>3
        <4>5. LastOf(i)
          <5>1. \A j \in DOMAIN notices : j \in DOMAIN notices' /\ notices'[j] = notices[j]
            BY <2>1, Heard
          <5>2. QED
            BY <2>3, <4>1, <5>1 DEF LastOf
        <4>6. QED
          BY <3>1, <4>1, <4>4, <4>5 DEF NoticeInv
      <3>2. CASE i \notin DOMAIN notices
        <4>1. PICK j \in DOMAIN batch : i = Len(notices) + j
          <5>1. /\ i \in 1..(Len(notices) + Len(batch)) /\ DOMAIN notices = 1..Len(notices)
                /\ DOMAIN batch = 1..Len(batch) /\ Len(notices) \in Nat /\ Len(batch) \in Nat
            BY <2>1, Heard
          <5>2. i - Len(notices) \in DOMAIN batch /\ i = Len(notices) + (i - Len(notices))
            BY <3>2, <5>1
          <5>3. QED
            BY <5>2
        <4>2. notices'[i] = batch[j]
          BY <2>1, <4>1, Heard
        <4>3. ASSUME NEW k \in DOMAIN batch, k > j PROVE batch[k][1] # batch[j][1]
          <5>1. /\ Len(notices) + k \in DOMAIN notices'
                /\ notices'[Len(notices) + k] = batch[k]
            BY <2>1, Heard
          <5>2. Len(notices) + k > i
            BY <2>1, <4>1, <4>3, Heard
          <5>3. QED
            BY <2>3, <4>2, <5>1, <5>2 DEF LastOf
        <4>4. disk'[batch[j][1]] = 0
          BY <2>3, <4>2
        <4>5. QED
          BY <4>2, <4>3, <4>4
      <3>3. QED
        BY <3>1, <3>2
    <2>4. QED
      BY <2>2, <2>3 DEF NoticeInv
  <1>2. CASE ~ObserverUp
    <2>1. notices' = <<>>
      BY <1>2 DEF Report, NoticeInv
    <2>2. QED
      BY <2>1 DEF NoticeInv
  <1>3. QED
    BY <1>1, <1>2

(* What the three changes have in common: the folders they touch have no     *)
(* job and are open afterwards.                                              *)
Touches(ps) ==
  /\ UNCHANGED <<vars, task, indexed, active, gaveUp>>
  /\ \A p \in ps : ~JobOn(p)
  /\ \A p \in Paths \ ps : disk'[p] = disk[p]
  /\ \A p \in Paths : p \in ps \/ Open(p) => OpenNext(p)
  /\ NoticeInv'

LEMMA WriteTouches ==
  ASSUME WatcherTypeOK, NoticeInv, CalmWhileBusy, NEW p \in Paths, WriteFolder(p)
  PROVE  Touches({p})
  <1> DEFINE batch == << <<p, "upsert">> >>
  <1>1. /\ batch \in Seq(Paths \X Events) /\ DOMAIN batch = {1}
        /\ batch[1][1] = p
    BY WatcherAssumption
  <1>2. Report({p}, batch)
    BY DEF WriteFolder
  <1>3. disk'[p] # 0
    BY WatcherTypes, WatcherAssumption DEF WriteFolder, WatcherTypeOK
  <1>4. \A q \in Paths \ {p} : disk'[q] = disk[q]
    BY WatcherTypes DEF WriteFolder
  <1>5. UNCHANGED <<vars, task, indexed, active, gaveUp>> /\ ~JobOn(p)
    BY DEF WriteFolder, Left
  <1> HIDE DEF batch
  <1>6. NoticeInv'
    BY <1>1, <1>2, <1>3, <1>4, <1>5, ReportNotices DEF vars
  <1>7. \A q \in Paths : q \in {p} \/ Open(q) => OpenNext(q)
    <2>1. PICK ps \in SUBSET Paths : ps = {p}
      OBVIOUS
    <2>2. Report(ps, batch) /\ \A r \in ps : \E j \in DOMAIN batch : batch[j][1] = r
      BY <1>1, <1>2, <2>1
    <2>3. \A r \in Paths : r \in ps \/ Open(r) => OpenNext(r)
      BY <1>1, <2>2, ReportOpens
    <2>4. QED
      BY <2>1, <2>3
  <1>8. QED
    BY <1>4, <1>5, <1>6, <1>7 DEF Touches

LEMMA RemoveTouches ==
  ASSUME WatcherTypeOK, NoticeInv, CalmWhileBusy, NEW p \in Paths, RemoveFolder(p)
  PROVE  Touches({p})
  <1> DEFINE batch == << <<p, "delete">> >>
  <1>1. /\ batch \in Seq(Paths \X Events) /\ DOMAIN batch = {1}
        /\ batch[1][1] = p /\ batch[1][2] = "delete"
    BY WatcherAssumption
  <1>2. Report({p}, batch)
    BY DEF RemoveFolder
  <1>3. \A q \in Paths \ {p} : disk'[q] = disk[q]
    BY WatcherTypes DEF RemoveFolder
  <1>4. UNCHANGED <<vars, task, indexed, active, gaveUp>> /\ ~JobOn(p)
    BY DEF RemoveFolder, Left
  <1> HIDE DEF batch
  <1>5. NoticeInv'
    BY <1>1, <1>2, <1>3, <1>4, ReportNotices DEF vars
  <1>6. \A q \in Paths : q \in {p} \/ Open(q) => OpenNext(q)
    <2>1. PICK ps \in SUBSET Paths : ps = {p}
      OBVIOUS
    <2>2. Report(ps, batch) /\ \A r \in ps : \E j \in DOMAIN batch : batch[j][1] = r
      BY <1>1, <1>2, <2>1
    <2>3. \A r \in Paths : r \in ps \/ Open(r) => OpenNext(r)
      BY <1>1, <2>2, ReportOpens
    <2>4. QED
      BY <2>1, <2>3
  <1>7. QED
    BY <1>3, <1>4, <1>5, <1>6 DEF Touches

LEMMA MoveTouches ==
  ASSUME WatcherTypeOK, NoticeInv, CalmWhileBusy, NEW p \in Paths, NEW q \in Paths,
         MoveFolder(p, q)
  PROVE  Touches({p, q})
  <1> DEFINE batch == << <<q, "upsert">>, <<p, "delete">> >>
  <1>1. /\ batch \in Seq(Paths \X Events) /\ DOMAIN batch = {1, 2}
        /\ batch[1][1] = q /\ batch[2][1] = p /\ batch[2][2] = "delete"
    BY WatcherAssumption
  <1>2. Report({p, q}, batch)
    BY DEF MoveFolder
  <1>3. stamp + 1 # 0
    BY WatcherAssumption DEF MoveFolder, WatcherTypeOK
  <1>4. disk'[q] # 0 /\ \A o \in Paths \ {p, q} : disk'[o] = disk[o]
    BY <1>3, WatcherTypes DEF MoveFolder
  <1>5. UNCHANGED <<vars, task, indexed, active, gaveUp>> /\ ~JobOn(p) /\ ~JobOn(q)
    BY DEF MoveFolder, Left
  <1> HIDE DEF batch
  <1>6. NoticeInv'
    <2>1. PICK ps \in SUBSET Paths : ps = {p, q}
      OBVIOUS
    <2>2. Report(ps, batch) /\ UNCHANGED pc
      BY <1>2, <1>5, <2>1 DEF vars
    <2>3. \A r \in ps : \E j \in DOMAIN batch : batch[j][1] = r
      BY <1>1, <2>1
    <2>4. \A r \in Paths \ ps : disk'[r] = disk[r]
      BY <1>4, <2>1
    <2>5. \A j \in DOMAIN batch : batch[j][2] = "delete" \/ disk'[batch[j][1]] # 0
      BY <1>1, <1>4
    <2>6. QED
      BY <1>1, <2>2, <2>3, <2>4, <2>5, ReportNotices
  <1>7. \A o \in Paths : o \in {p, q} \/ Open(o) => OpenNext(o)
    <2>1. PICK ps \in SUBSET Paths : ps = {p, q}
      OBVIOUS
    <2>2. Report(ps, batch) /\ \A r \in ps : \E j \in DOMAIN batch : batch[j][1] = r
      BY <1>1, <1>2, <2>1
    <2>3. \A r \in Paths : r \in ps \/ Open(r) => OpenNext(r)
      BY <1>1, <2>2, ReportOpens
    <2>4. QED
      BY <2>1, <2>3
  <1>8. QED
    BY <1>4, <1>5, <1>6, <1>7 DEF Touches

-----------------------------------------------------------------------------
(* What a step that does not concern a job, the rows or a folder leaves      *)
(* intact.                                                                   *)

SameFolder(p) ==
  /\ disk'[p] = disk[p] /\ active'[p] = active[p] /\ indexed'[p] = indexed[p]
  /\ Open(p) => OpenNext(p)

LEMMA OpenPrime == ASSUME NEW p PROVE Open(p)' <=> OpenNext(p)
  BY DEF Open, OpenNext

LEMMA JobGoesOn ==
  ASSUME TaskInv, NEW w \in Workers, job'[w] = job[w], task'[w] = task[w],
         job[w] # NoRow =>
           /\ rows'[job[w]].path = rows[job[w]].path
           /\ rows'[job[w]].event = rows[job[w]].event
           /\ SameFolder(rows[job[w]].path)
  PROVE  OnTask(w)'
  <1>1. CASE job[w] = NoRow
    BY <1>1 DEF TaskInv, OnTask
  <1>2. CASE job[w] # NoRow
    <2>1. PICK p : p = rows[job[w]].path
      OBVIOUS
    <2>2. SameFolder(p)
      BY <1>2, <2>1
    <2>3. InSync(p)' <=> InSync(p)
      BY <2>2 DEF SameFolder, InSync
    <2>4. OnCourse(w, p) /\ task[w].event = rows[job[w]].event
      BY <1>2, <2>1 DEF TaskInv, OnTask
    <2>5. OnCourse(w, p)'
      BY <2>2, <2>3, <2>4, OpenPrime DEF OnCourse, SameFolder
    <2>6. task'[w].event = rows'[job'[w]].event /\ rows'[job'[w]].path = p
      BY <1>2, <2>1, <2>4
    <2>7. QED
      BY <1>2, <2>5, <2>6 DEF OnTask, OnCourse, InSync, Open
  <1>3. QED
    BY <1>1, <1>2

LEMMA RowsGoOn ==
  ASSUME WatcherTypeOK, RowInv, UNCHANGED disk, \A r \in RowIds : KeptRow(r),
         \A p \in Paths : Open(p) => OpenNext(p)
  PROVE  RowInv'
  <1> SUFFICES ASSUME NEW r \in RowIds, NEW p \in Paths, p = rows'[r].path,
                      rows'[r].status \in Live, disk'[p] = 0, ~OpenNext(p)
               PROVE  rows'[r].event = "delete"
    <2>1. \A r \in RowIds : rows'[r].path \in Paths
      BY WatcherTypes, RowFields DEF KeptRow
    <2>2. QED
      BY <2>1 DEF RowInv, Open, OpenNext
  <1>1. /\ rows[r].path = p /\ rows[r].status \in Live /\ rows'[r].event = rows[r].event
        /\ disk[p] = 0 /\ ~Open(p)
    BY DEF KeptRow
  <1>2. QED
    BY <1>1 DEF RowInv

LEMMA FolderStaysSettled ==
  ASSUME SettledInv, NEW p \in Paths, SameFolder(p), gaveUp'[p] = gaveUp[p],
         LiveRows(p)' = {} => LiveRows(p) = {}
  PROVE  Settled(p)'
  <1>1. InSync(p)' <=> InSync(p)
    BY DEF SameFolder, InSync
  <1>2. Open(p) => Open(p)'
    BY OpenPrime DEF SameFolder
  <1>3. QED
    BY <1>1, <1>2 DEF SettledInv, Settled

LEMMA LiveRowsStay ==
  ASSUME NEW p, \A r \in RowIds : rows[r].status \in Live =>
           rows'[r].status \in Live /\ rows'[r].path = rows[r].path
  PROVE  LiveRows(p)' = {} => LiveRows(p) = {}
  BY DEF LiveRows

LEMMA NoticesStay ==
  ASSUME NoticeInv, UNCHANGED <<notices, disk>>, ~ObserverUp' => ~ObserverUp
  PROVE  NoticeInv'
  BY DEF NoticeInv, LastOf

(* The tree.                                                                 *)
Inner == NoticeInv /\ RowInv /\ TaskInv /\ SettledInv

LEMMA TreeKeeps ==
  ASSUME WatcherInv, NEW ps \in SUBSET Paths, Touches(ps)
  PROVE  Inner'
  <1>a. UNCHANGED <<rows, pc, job, task, indexed, active, gaveUp>>
    BY DEF Touches, vars
  <1>b. ASSUME NEW p \in Paths \ ps PROVE SameFolder(p)
    BY <1>a DEF Touches, SameFolder
  <1>1. NoticeInv'
    BY DEF Touches
  <1>2. RowInv'
    <2> SUFFICES ASSUME NEW r \in RowIds, NEW p \in Paths, p = rows[r].path,
                        rows[r].status \in Live, disk'[p] = 0, ~OpenNext(p)
                 PROVE  rows[r].event = "delete"
      <3>1. \A r \in RowIds : rows[r].path \in Paths
        BY WatcherTypes, RowFields DEF WatcherInv
      <3>2. QED
        BY <3>1, <1>a DEF RowInv, Open, OpenNext
    <2>1. p \notin ps /\ ~Open(p) /\ disk[p] = 0
      BY DEF Touches
    <2>2. QED
      BY <2>1 DEF WatcherInv, RowInv
  <1>3. TaskInv'
    <2> SUFFICES ASSUME NEW w \in Workers PROVE OnTask(w)'
      BY DEF TaskInv
    <2>1. ASSUME job[w] # NoRow PROVE SameFolder(rows[job[w]].path)
      <3>1. job[w] \in RowIds /\ rows[job[w]].path \in Paths
        BY <2>1, WatcherTypes, RowFields DEF WatcherInv
      <3>2. rows[job[w]].path \notin ps
        BY <2>1, <3>1 DEF Touches, JobOn, Holders
      <3>3. QED
        BY <1>b, <3>1, <3>2
    <2>2. QED
      BY <2>1, <1>a, JobGoesOn DEF WatcherInv
  <1>4. SettledInv'
    <2> SUFFICES ASSUME NEW p \in Paths PROVE Settled(p)'
      BY DEF SettledInv
    <2>1. CASE p \in ps
      <3>1. OpenNext(p)
        BY <2>1 DEF Touches
      <3>2. QED
        BY <3>1, OpenPrime DEF Settled
    <2>2. CASE p \notin ps
      BY <2>2, <1>a, <1>b, FolderStaysSettled DEF WatcherInv, LiveRows
    <2>3. QED
      BY <2>1, <2>2
  <1>5. QED
    BY <1>1, <1>2, <1>3, <1>4 DEF Inner

-----------------------------------------------------------------------------
(* Events are delivered, or lost on the way.                                 *)

LEMMA TailNotices ==
  ASSUME WatcherTypeOK, notices # <<>>, notices' = Tail(notices)
  PROVE  /\ DOMAIN notices = 1..Len(notices) /\ Len(notices) \in Nat /\ 1 \in DOMAIN notices
         /\ Head(notices) = notices[1]
         /\ \A i \in DOMAIN notices' : i \in Nat \ {0} /\ i + 1 \in DOMAIN notices
                                       /\ notices'[i] = notices[i + 1]
         /\ \A i \in DOMAIN notices : i > 1 => i - 1 \in DOMAIN notices'
                                               /\ notices'[i - 1] = notices[i]
  <1>1. notices \in Seq(Paths \X Events)
    BY WatcherTypes
  <1>2. /\ DOMAIN notices = 1..Len(notices) /\ Len(notices) \in Nat /\ Len(notices) # 0
        /\ Head(notices) = notices[1]
    BY <1>1
  <1>3. /\ DOMAIN Tail(notices) = 1..(Len(notices) - 1)
        /\ \A i \in 1..(Len(notices) - 1) : Tail(notices)[i] = notices[i + 1]
    BY <1>1, <1>2
  <1>4. QED
    BY <1>2, <1>3

LEMMA TailKeeps ==
  ASSUME WatcherTypeOK, NoticeInv, notices # <<>>, notices' = Tail(notices),
         UNCHANGED <<disk, pc>>
  PROVE  NoticeInv' /\ \A p \in Paths : p # Head(notices)[1] =>
                           (p \in Undelivered => p \in Undelivered')
  <1>1. ObserverUp /\ ObserverUp'
    BY DEF NoticeInv, ObserverUp
  <1>2. ASSUME NEW i \in DOMAIN notices', disk[notices'[i][1]] = 0,
               \A j \in DOMAIN notices' : j > i => notices'[j][1] # notices'[i][1]
        PROVE  notices'[i][2] = "delete"
    <2>1. PICK k \in DOMAIN notices : k = i + 1 /\ notices'[i] = notices[k]
      BY TailNotices
    <2>2. LastOf(k)
      <3> SUFFICES ASSUME NEW j \in DOMAIN notices, j > k PROVE notices[j][1] # notices[k][1]
        BY DEF LastOf
      <3>1. j - 1 \in DOMAIN notices' /\ notices'[j - 1] = notices[j] /\ j - 1 > i
        BY <2>1, TailNotices
      <3>2. QED
        BY <1>2, <2>1, <3>1
    <2>3. QED
      BY <1>2, <2>1, <2>2 DEF NoticeInv
  <1>3. NoticeInv'
    BY <1>1, <1>2 DEF NoticeInv, LastOf
  <1>4. ASSUME NEW p \in Paths, p # Head(notices)[1], p \in Undelivered
        PROVE  p \in Undelivered'
    <2>1. PICK i \in DOMAIN notices : p = notices[i][1]
      BY <1>4 DEF Undelivered
    <2>2. i > 1
      BY <1>4, <2>1, TailNotices
    <2>3. i - 1 \in DOMAIN notices' /\ notices'[i - 1] = notices[i]
      BY <2>2, TailNotices
    <2>4. QED
      BY <2>1, <2>3 DEF Undelivered
  <1>5. QED
    BY <1>3, <1>4

LEMMA DeliverFailsKeeps == ASSUME WatcherInv, DeliverFails PROVE Inner'
  <1>a. /\ UNCHANGED <<rows, pc, job, task, disk, indexed, active, gaveUp>>
        /\ notices # <<>> /\ notices' = Tail(notices)
    BY DEF DeliverFails, vars
  <1>1. PICK p \in Paths : Head(notices)[1] = p
    BY <1>a, HeadNotice, TypedAddressed DEF WatcherInv
  <1>2. NoticeInv'
    BY <1>a, TailKeeps DEF WatcherInv
  <1>3. missed' = [missed EXCEPT ![p] = TRUE]
    BY <1>1 DEF DeliverFails
  <1>4. \A q \in Paths : Open(q) => OpenNext(q)
    BY <1>a, <1>1, <1>3, TailKeeps, WatcherTypes DEF WatcherInv, Open, OpenNext
  <1>5. \A q \in Paths : SameFolder(q)
    BY <1>a, <1>4 DEF SameFolder
  <1>6. RowInv'
    BY <1>a, <1>4, RowsGoOn DEF WatcherInv, KeptRow
  <1>7. TaskInv'
    <2> SUFFICES ASSUME NEW w \in Workers PROVE OnTask(w)'
      BY DEF TaskInv
    <2>1. job[w] # NoRow => rows[job[w]].path \in Paths
      BY WatcherTypes, RowFields DEF WatcherInv
    <2>2. QED
      BY <2>1, <1>a, <1>5, JobGoesOn DEF WatcherInv
  <1>8. SettledInv'
    <2> SUFFICES ASSUME NEW q \in Paths PROVE Settled(q)'
      BY DEF SettledInv
    <2>1. QED
      BY <1>a, <1>5, FolderStaysSettled DEF WatcherInv, LiveRows
  <1>9. QED
    BY <1>2, <1>6, <1>7, <1>8 DEF Inner

LEMMA DeliverKeeps ==
  ASSUME Careful, WatcherInv, QueueInv', Deliver PROVE Inner'
  <1>a. /\ UNCHANGED <<pc, job, task, disk, indexed, active>>
        /\ notices # <<>> /\ notices' = Tail(notices)
    BY DEF Deliver, Enqueue
  <1>1. PICK p \in Paths, e \in Events : Head(notices)[1] = p /\ Head(notices)[2] = e
    BY <1>a, HeadNotice, TypedAddressed DEF WatcherInv
  <1>2. /\ Enqueue(p, e) /\ Left(p) /\ missed' = [missed EXCEPT ![p] = FALSE]
        /\ gaveUp' = [gaveUp EXCEPT ![p] = FALSE]
    BY <1>1 DEF Deliver
  <1>3. PICK r \in RowIds :
          /\ \A s \in RowIds \ {r} : rows'[s] = rows[s]
          /\ rows'[r].path = p /\ rows'[r].event = e /\ rows'[r].status \in Live
          /\ rows[r].path = p \/ ~Held(r)
          /\ rows[r].status \in Live => rows[r].path = p
    BY <1>2, EnqueueEffect DEF WatcherInv, QueueInv
  <1>4. NoticeInv'
    BY <1>a, TailKeeps DEF WatcherInv
  <1>5. \A q \in Paths \ {p} : SameFolder(q)
    BY <1>a, <1>1, <1>2, TailKeeps, WatcherTypes DEF WatcherInv, Open, OpenNext, SameFolder
  <1>6. RowInv'
    <2> SUFFICES ASSUME NEW s \in RowIds, NEW q \in Paths, q = rows'[s].path,
                        rows'[s].status \in Live, disk'[q] = 0, ~OpenNext(q)
                 PROVE  rows'[s].event = "delete"
      <3>1. \A s \in RowIds : rows'[s].path \in Paths
        <4>1. rows' \in [RowIds -> Row]
          BY DEF QueueInv, TypeInv, TypeOK
        <4>2. QED
          BY <4>1, RowFields
      <3>2. QED
        BY <3>1 DEF RowInv, Open, OpenNext
    <2>1. CASE q = p
      <3>1. s = r
        BY <1>3, <2>1 DEF QueueInv, UniqueLive
      <3>2. LastOf(1)
        <4> SUFFICES ASSUME NEW j \in DOMAIN notices, j > 1 PROVE notices[j][1] # p
          BY <1>1, <1>a, TailNotices DEF LastOf, WatcherInv
        <4>1. j - 1 \in DOMAIN notices' /\ notices'[j - 1] = notices[j]
          BY <1>a, TailNotices DEF WatcherInv
        <4>2. QED
          BY <2>1, <4>1 DEF OpenNext, Undelivered
      <3>3. 1 \in DOMAIN notices /\ notices[1][1] = p /\ notices[1][2] = e
        BY <1>a, <1>1, TailNotices DEF WatcherInv
      <3>4. e = "delete"
        BY <1>a, <2>1, <3>2, <3>3 DEF WatcherInv, NoticeInv
      <3>5. QED
        BY <1>3, <3>1, <3>4
    <2>2. CASE q # p
      <3>1. rows'[s] = rows[s]
        BY <1>3, <2>2
      <3>2. SameFolder(q)
        BY <1>5, <2>2
      <3>3. QED
        BY <3>1, <3>2 DEF SameFolder, WatcherInv, RowInv
    <2>3. QED
      BY <2>1, <2>2
  <1>7. TaskInv'
    <2> SUFFICES ASSUME NEW w \in Workers PROVE OnTask(w)'
      BY DEF TaskInv
    <2>1. ASSUME job[w] # NoRow
          PROVE  rows'[job[w]] = rows[job[w]] /\ SameFolder(rows[job[w]].path)
      <3>1. job[w] \in RowIds /\ rows[job[w]].path \in Paths
        BY <2>1, WatcherTypes, RowFields DEF WatcherInv
      <3>2. rows[job[w]].path # p
        BY <1>2, <2>1 DEF Careful, Left, JobOn, Holders
      <3>3. job[w] # r
        BY <1>3, <3>2 DEF Held
      <3>4. QED
        BY <1>3, <1>5, <3>1, <3>2, <3>3
    <2>2. QED
      BY <2>1, <1>a, JobGoesOn DEF WatcherInv
  <1>8. SettledInv'
    <2> SUFFICES ASSUME NEW q \in Paths PROVE Settled(q)'
      BY DEF SettledInv
    <2>1. CASE q = p
      <3>1. LiveRows(q)' # {}
        BY <1>3, <2>1 DEF LiveRows
      <3>2. QED
        BY <3>1 DEF Settled
    <2>2. CASE q # p
      <3>1. LiveRows(q)' = {} => LiveRows(q) = {}
        BY <1>3, <2>2 DEF LiveRows
      <3>2. gaveUp'[q] = gaveUp[q]
        BY <1>2, <2>2, WatcherTypes DEF WatcherInv
      <3>3. QED
        BY <1>5, <2>2, <3>1, <3>2, FolderStaysSettled DEF WatcherInv
    <2>3. QED
      BY <2>1, <2>2
  <1>9. QED
    BY <1>4, <1>6, <1>7, <1>8 DEF Inner

-----------------------------------------------------------------------------
(* A stage of a job: it changes what is known of its own folder only, and    *)
(* nobody else works on that folder.                                         *)
LEMMA StageKeeps ==
  ASSUME Careful, WatcherInv, NEW w \in Workers, NEW p \in Paths, p = Folder(w),
         task[w].stage # "none",
         UNCHANGED <<vars, disk, notices, missed, gaveUp>>,
         \A q \in Paths \ {p} : active'[q] = active[q] /\ indexed'[q] = indexed[q],
         \A v \in Workers \ {w} : task'[v] = task[v],
         task'[w].event = task[w].event,
         OnCourse(w, p)'
  PROVE  Inner'
  <1>a. UNCHANGED <<rows, pc, job>>
    BY DEF vars
  <1>1. job[w] # NoRow
    BY AtWork DEF WatcherInv
  <1>2. Holders(p) = {w} /\ LiveRows(p) = {job[w]}
    BY <1>1, HolderOwnsLiveRow DEF WatcherInv, Careful, Folder
  <1>3. \A q \in Paths \ {p} : SameFolder(q)
    BY DEF SameFolder, Open, OpenNext, Undelivered
  <1>4. NoticeInv'
    BY <1>a, NoticesStay DEF WatcherInv, ObserverUp
  <1>5. RowInv'
    BY <1>a DEF WatcherInv, RowInv, Open, Undelivered
  <1>6. TaskInv'
    <2> SUFFICES ASSUME NEW v \in Workers PROVE OnTask(v)'
      BY DEF TaskInv
    <2>1. CASE v = w
      <3>1. task[w].event = rows[job[w]].event
        BY <1>1 DEF WatcherInv, TaskInv, OnTask
      <3>2. p = rows'[job'[w]].path
        BY <1>a DEF Folder
      <3>3. QED
        BY <1>1, <1>a, <2>1, <3>1, <3>2 DEF OnTask, OnCourse, InSync, Open
    <2>2. CASE v # w
      <3>1. ASSUME job[v] # NoRow PROVE SameFolder(rows[job[v]].path)
        <4>1. job[v] \in RowIds /\ rows[job[v]].path \in Paths
          BY <3>1, WatcherTypes, RowFields DEF WatcherInv
        <4>2. rows[job[v]].path # p
          BY <1>2, <2>2, <3>1 DEF Holders
        <4>3. QED
          BY <1>3, <4>1, <4>2
      <3>2. QED
        BY <1>a, <2>2, <3>1, JobGoesOn DEF WatcherInv
    <2>3. QED
      BY <2>1, <2>2
  <1>7. SettledInv'
    <2> SUFFICES ASSUME NEW q \in Paths PROVE Settled(q)'
      BY DEF SettledInv
    <2>1. CASE q = p
      <3>1. LiveRows(q)' # {}
        BY <1>2, <1>a, <2>1 DEF LiveRows
      <3>2. QED
        BY <3>1 DEF Settled
    <2>2. CASE q # p
      BY <1>3, <1>a, <2>2, FolderStaysSettled DEF WatcherInv, LiveRows
    <2>3. QED
      BY <2>1, <2>2
  <1>8. QED
    BY <1>4, <1>5, <1>6, <1>7 DEF Inner

(* Where a job stands on its folder.                                         *)
LEMMA JobOnCourse ==
  ASSUME WatcherInv, NEW w \in Workers, task[w].stage # "none"
  PROVE  /\ job[w] \in RowIds /\ job[w] # NoRow /\ Folder(w) \in Paths
         /\ task[w].event = rows[job[w]].event /\ OnCourse(w, Folder(w))
  BY AtWork DEF WatcherInv, TaskInv, OnTask, Folder

LEMMA DecideKeeps ==
  ASSUME Careful, WatcherInv, NEW w \in Workers, Decide(w) PROVE Inner'
  <1>1. task[w].stage # "none"
    BY DEF Decide
  <1>2. PICK p \in Paths : p = Folder(w)
    BY <1>1, JobOnCourse
  <1> DEFINE next == IF disk[p] # 0 THEN "crawling"
                     ELSE IF task[w].event = "delete" THEN "deleting" ELSE "finished"
  <1>3. task' = [task EXCEPT ![w].stage = next]
    BY <1>2 DEF Decide
  <1>4. UNCHANGED <<vars, disk, indexed, active, notices, missed, gaveUp>>
    BY DEF Decide
  <1>5. next = "finished" => Open(p)
    <2> SUFFICES ASSUME disk[p] = 0, task[w].event # "delete", ~Open(p) PROVE FALSE
      OBVIOUS
    <2>1. job[w] \in RowIds /\ job[w] # NoRow /\ rows[job[w]].event # "delete"
      BY <1>1, JobOnCourse
    <2>2. rows[job[w]].status \in Live /\ rows[job[w]].path = p
      BY <1>2, <2>1, HolderOwnsLiveRow DEF WatcherInv, Careful, Live, Folder
    <2>3. QED
      BY <2>1, <2>2 DEF WatcherInv, RowInv
  <1>6. /\ next = "deleting" => disk[p] = 0
        /\ next = "crawling" => disk[p] # 0
        /\ next # "storing"
    OBVIOUS
  <1> HIDE DEF next
  <1>7. /\ task'[w].stage = next /\ task'[w].event = task[w].event
        /\ \A v \in Workers \ {w} : task'[v] = task[v]
    BY <1>3, WatcherTypes DEF WatcherInv
  <1>8. OnCourse(w, p)'
    BY <1>4, <1>5, <1>6, <1>7 DEF OnCourse, Open, Undelivered
  <1>9. QED
    BY <1>1, <1>2, <1>4, <1>7, <1>8, StageKeeps

LEMMA SoftDeleteKeeps ==
  ASSUME Careful, WatcherInv, NEW w \in Workers, SoftDelete(w) PROVE Inner'
  <1>1. task[w].stage = "deleting"
    BY DEF SoftDelete
  <1>2. PICK p \in Paths : p = Folder(w)
    BY <1>1, JobOnCourse
  <1>3. disk[p] = 0
    BY <1>1, <1>2, JobOnCourse DEF OnCourse
  <1>4. active' = [active EXCEPT ![p] = FALSE]
    BY <1>2 DEF SoftDelete
  <1>5. UNCHANGED <<vars, disk, indexed, notices, missed, gaveUp>>
    BY DEF SoftDelete
  <1>6. /\ task'[w].stage = "finished" /\ task'[w].event = task[w].event
        /\ \A v \in Workers \ {w} : task'[v] = task[v]
    BY WatcherTypes DEF WatcherInv, SoftDelete
  <1>7. OnCourse(w, p)'
    BY <1>3, <1>4, <1>5, <1>6, WatcherTypes DEF WatcherInv, OnCourse, InSync
  <1>8. \A q \in Paths \ {p} : active'[q] = active[q] /\ indexed'[q] = indexed[q]
    BY <1>4, <1>5, WatcherTypes DEF WatcherInv
  <1>9. QED
    BY <1>1, <1>2, <1>5, <1>6, <1>7, <1>8, StageKeeps

LEMMA CrawlKeeps ==
  ASSUME Careful, WatcherInv, NEW w \in Workers, Crawl(w) PROVE Inner'
  <1>1. task[w].stage = "crawling"
    BY DEF Crawl
  <1>2. PICK p \in Paths : p = Folder(w)
    BY <1>1, JobOnCourse
  <1>3. disk[p] # 0
    BY <1>1, <1>2, JobOnCourse DEF OnCourse
  <1>4. task' = [task EXCEPT ![w].stage = "storing", ![w].seen = disk[p]]
    BY <1>2, <1>3 DEF Crawl
  <1>5. UNCHANGED <<vars, disk, indexed, active, notices, missed, gaveUp>>
    BY DEF Crawl
  <1>6. /\ task'[w].stage = "storing" /\ task'[w].seen = disk[p]
        /\ task'[w].event = task[w].event
        /\ \A v \in Workers \ {w} : task'[v] = task[v]
    BY <1>4, WatcherTypes DEF WatcherInv
  <1>7. OnCourse(w, p)'
    BY <1>3, <1>5, <1>6 DEF OnCourse
  <1>8. QED
    BY <1>1, <1>2, <1>5, <1>6, <1>7, StageKeeps

LEMMA StoreKeeps ==
  ASSUME Careful, WatcherInv, NEW w \in Workers, Store(w) PROVE Inner'
  <1>1. task[w].stage = "storing"
    BY DEF Store
  <1>2. PICK p \in Paths : p = Folder(w)
    BY <1>1, JobOnCourse
  <1>3. disk[p] # 0 /\ task[w].seen = disk[p]
    BY <1>1, <1>2, JobOnCourse DEF OnCourse
  <1>4. /\ active' = [active EXCEPT ![p] = TRUE]
        /\ indexed' = [indexed EXCEPT ![p] = task[w].seen]
    BY <1>2 DEF Store
  <1>5. UNCHANGED <<vars, disk, notices, missed, gaveUp>>
    BY DEF Store
  <1>6. /\ task'[w].stage = "finished" /\ task'[w].event = task[w].event
        /\ \A v \in Workers \ {w} : task'[v] = task[v]
    BY WatcherTypes DEF WatcherInv, Store
  <1>7. OnCourse(w, p)'
    BY <1>3, <1>4, <1>5, <1>6, WatcherTypes DEF WatcherInv, OnCourse, InSync
  <1>8. \A q \in Paths \ {p} : active'[q] = active[q] /\ indexed'[q] = indexed[q]
    BY <1>4, WatcherTypes DEF WatcherInv
  <1>9. QED
    BY <1>1, <1>2, <1>5, <1>6, <1>7, <1>8, StageKeeps

-----------------------------------------------------------------------------
(* The queue's own steps.                                                    *)

(* A step of w that leaves the tree and the index alone and forgets nothing  *)
(* keeps the notices' part, the rows and the jobs of the others.             *)
LEMMA OthersKeep ==
  ASSUME WatcherInv, NEW w \in Workers,
         UNCHANGED <<disk, indexed, active>>,
         \A r \in RowIds : KeptRow(r),
         \A p \in Paths : Open(p) => OpenNext(p),
         \A v \in Workers \ {w} : task'[v] = task[v] /\ job'[v] = job[v],
         OnTask(w)'
  PROVE  RowInv' /\ TaskInv' /\ \A p \in Paths : SameFolder(p)
  <1>1. \A p \in Paths : SameFolder(p)
    BY DEF SameFolder
  <1>2. RowInv'
    BY RowsGoOn DEF WatcherInv
  <1>3. ASSUME NEW v \in Workers PROVE OnTask(v)'
    <2>1. CASE v = w
      BY <2>1
    <2>2. CASE v # w
      <3>1. ASSUME job[v] # NoRow
            PROVE  job[v] \in RowIds /\ rows[job[v]].path \in Paths
        BY <3>1, WatcherTypes, RowFields DEF WatcherInv
      <3>2. QED
        BY <1>1, <2>2, <3>1, JobGoesOn DEF WatcherInv, KeptRow
    <2>3. QED
      BY <2>1, <2>2
  <1>4. QED
    BY <1>1, <1>2, <1>3 DEF TaskInv

LEMMA ClaimTaskKeeps ==
  ASSUME Careful, WatcherInv, NEW w \in Workers, ClaimTask(w) PROVE Inner'
  <1>a. /\ UNCHANGED <<disk, notices, indexed, active, missed, gaveUp>> /\ Claim(w)
        /\ task' = [task EXCEPT ![w] = [event |-> rows[job'[w]].event,
                                        stage |-> "claimed", seen |-> 0]]
    BY DEF ClaimTask
  <1>1. PICK r \in RowIds :
          /\ rows[r].status \in Live /\ job' = [job EXCEPT ![w] = r]
          /\ \A s \in RowIds : KeptRow(s) /\ (rows[s].status \in Live => rows'[s].status \in Live)
    BY <1>a, ClaimEffect DEF WatcherInv, QueueInv
  <1>2. job'[w] = r /\ \A v \in Workers \ {w} : task'[v] = task[v] /\ job'[v] = job[v]
    BY <1>a, <1>1, WatcherTypes DEF WatcherInv
  <1>3. task'[w].event = rows[r].event /\ task'[w].stage = "claimed"
    BY <1>a, <1>2, WatcherTypes DEF WatcherInv
  <1>4. OnTask(w)'
    BY <1>1, <1>2, <1>3, QueueAssumption DEF OnTask, OnCourse, KeptRow
  <1>5. \A p \in Paths : Open(p) => OpenNext(p)
    BY <1>a DEF Open, OpenNext, Undelivered
  <1>6. RowInv' /\ TaskInv' /\ \A p \in Paths : SameFolder(p)
    BY <1>a, <1>1, <1>2, <1>4, <1>5, OthersKeep
  <1>7. NoticeInv'
    <2>1. ObserverUp => ObserverUp'
      BY <1>a, WatcherTypes DEF WatcherInv, WatcherTypeOK, TypeOK, ObserverUp, Claim, Workers
    <2>2. QED
      BY <1>a, <2>1, NoticesStay DEF WatcherInv
  <1>8. SettledInv'
    <2> SUFFICES ASSUME NEW p \in Paths PROVE Settled(p)'
      BY DEF SettledInv
    <2>1. LiveRows(p)' = {} => LiveRows(p) = {}
      BY <1>1, LiveRowsStay DEF KeptRow
    <2>2. QED
      BY <1>a, <1>6, <2>1, FolderStaysSettled DEF WatcherInv
  <1>9. QED
    BY <1>6, <1>7, <1>8 DEF Inner

(* A job ends: its folder is settled, or its row still waits, or the folder  *)
(* is given up.                                                              *)
LEMMA EndKeeps ==
  ASSUME Careful, WatcherInv, NEW w \in Workers, Succeed(w) \/ FailJob(w),
         task' = [task EXCEPT ![w] = NoTask],
         UNCHANGED <<disk, notices, indexed, active, missed>>,
         NEW p \in Paths, p = Folder(w), Settled(p)',
         \A q \in Paths \ {p} : gaveUp'[q] = gaveUp[q]
  PROVE  Inner'
  <1>1. /\ job[w] \in RowIds /\ job[w] # NoRow /\ job' = [job EXCEPT ![w] = NoRow]
        /\ \A r \in RowIds : KeptRow(r)
        /\ \A r \in RowIds \ {job[w]} : rows'[r] = rows[r]
    BY EndEffect DEF Careful, WatcherInv
  <1>2. job'[w] = NoRow /\ task'[w] = NoTask
    BY <1>1, WatcherTypes DEF WatcherInv
  <1>3. \A v \in Workers \ {w} : task'[v] = task[v] /\ job'[v] = job[v]
    BY <1>1, WatcherTypes DEF WatcherInv
  <1>4. OnTask(w)'
    BY <1>2 DEF OnTask, NoTask
  <1>5. \A q \in Paths : Open(q) => OpenNext(q)
    BY DEF Open, OpenNext, Undelivered
  <1>6. RowInv' /\ TaskInv' /\ \A q \in Paths : SameFolder(q)
    BY <1>1, <1>3, <1>4, <1>5, OthersKeep
  <1>7. NoticeInv'
    <2>1. pc' = [pc EXCEPT ![w] = "draining"]
      BY DEF Succeed, FailJob, Release
    <2>2. ObserverUp => ObserverUp'
      BY <2>1 DEF WatcherInv, WatcherTypeOK, TypeOK, ObserverUp, Workers
    <2>3. QED
      BY <2>2, NoticesStay DEF WatcherInv
  <1>8. SettledInv'
    <2> SUFFICES ASSUME NEW q \in Paths, q # p PROVE Settled(q)'
      BY DEF SettledInv
    <2>1. LiveRows(q)' = {} => LiveRows(q) = {}
      BY <1>1 DEF LiveRows, Folder
    <2>2. QED
      BY <1>6, <2>1, FolderStaysSettled DEF WatcherInv
  <1>9. QED
    BY <1>6, <1>7, <1>8 DEF Inner

LEMMA CompleteKeeps ==
  ASSUME Careful, WatcherInv, NEW w \in Workers, Complete(w) PROVE Inner'
  <1>1. /\ task[w].stage = "finished" /\ Succeed(w) /\ task' = [task EXCEPT ![w] = NoTask]
        /\ UNCHANGED <<disk, notices, indexed, active, missed, gaveUp>>
    BY DEF Complete
  <1>2. PICK p \in Paths : p = Folder(w)
    BY <1>1, JobOnCourse
  <1>3. InSync(p) \/ Open(p)
    BY <1>1, <1>2, JobOnCourse DEF OnCourse
  <1>4. Settled(p)'
    BY <1>1, <1>3 DEF Settled, InSync, Open, Undelivered
  <1>5. QED
    BY <1>1, <1>2, <1>4, EndKeeps

LEMMA TaskFailsKeeps ==
  ASSUME Careful, WatcherInv, NEW w \in Workers, TaskFails(w) PROVE Inner'
  <1>1. /\ FailJob(w) /\ task' = [task EXCEPT ![w] = NoTask]
        /\ UNCHANGED <<disk, notices, indexed, active, missed>>
    BY NeverRefused DEF TaskFails, WatcherInv, Careful
  <1>2. /\ job[w] \in RowIds /\ job[w] # NoRow /\ KeptRow(job[w])
        /\ rows'[job[w]].status \in {"pending", "failed"}
    BY <1>1, EndEffect DEF WatcherInv, Careful
  <1>3. PICK p \in Paths : p = Folder(w)
    BY <1>2, WatcherTypes, RowFields DEF WatcherInv, Folder
  <1>4. gaveUp' = [gaveUp EXCEPT ![p] = gaveUp[p] \/ (rows[job[w]].status # "failed"
                                                   /\ rows'[job[w]].status = "failed")]
    BY <1>3 DEF TaskFails
  <1>5. rows[job[w]].status = "processing"
    BY <1>2, HolderOwnsLiveRow DEF WatcherInv, Careful
  <1>6. Settled(p)'
    <2>1. CASE rows'[job[w]].status = "pending"
      <3>1. PICK r \in RowIds : r = job[w]
        BY <1>2
      <3>2. r \in LiveRows(p)'
        BY <1>2, <1>3, <2>1, <3>1 DEF LiveRows, Live, Folder, KeptRow
      <3>3. QED
        BY <3>2 DEF Settled
    <2>2. CASE rows'[job[w]].status = "failed"
      <3>1. gaveUp'[p]
        BY <1>4, <1>5, <2>2, WatcherTypes DEF WatcherInv
      <3>2. QED
        BY <3>1 DEF Settled
    <2>3. QED
      BY <1>2, <2>1, <2>2
  <1>7. \A q \in Paths \ {p} : gaveUp'[q] = gaveUp[q]
    BY <1>4, WatcherTypes DEF WatcherInv
  <1>8. QED
    BY <1>1, <1>3, <1>6, <1>7, EndKeeps

(* A process starts, polls, stops or dies: with the last service go the      *)
(* undelivered events, which are then missed.                                *)
LEMMA ControlEffect ==
  ASSUME WatcherInv, NEW w \in Workers, Control(w)
  PROVE  /\ job' = [job EXCEPT ![w] = NoRow]
         /\ \A r \in RowIds : KeptRow(r) /\ (rows[r].status \in Live => rows'[r].status \in Live)
  <1>a. /\ job \in [Workers -> RowIds \cup {NoRow}] /\ TypeInv
    BY WatcherTypes DEF WatcherInv, QueueInv
  <1>1. CASE StartService(w) \/ StartDrainer(w) \/ BeginTick(w)
    <2>1. PICK cutoff : RecoverStale(cutoff)
      BY <1>1 DEF StartService, StartDrainer, BeginTick
    <2>2. job' = job /\ pc[w] # "busy"
      BY <1>1 DEF StartService, StartDrainer, BeginTick
    <2>3. job[w] = NoRow
      BY <1>a, <2>2 DEF TypeInv, BusyHasJob
    <2>4. QED
      BY <1>a, <2>1, <2>2, <2>3, RecoveryKeeps
  <1>2. CASE Drained(w) \/ StopService(w)
    <2>1. job' = job /\ rows' = rows /\ pc[w] # "busy"
      BY <1>2 DEF Drained, StopService
    <2>2. job[w] = NoRow
      BY <1>a, <2>1 DEF TypeInv, BusyHasJob
    <2>3. QED
      BY <1>a, <2>1, <2>2 DEF KeptRow
  <1>3. CASE Crash(w)
    BY <1>3 DEF Crash, Release, KeptRow
  <1>4. QED
    BY <1>1, <1>2, <1>3 DEF Control

LEMMA ControlKeeps ==
  ASSUME Careful, WatcherInv, NEW w \in Workers, Control(w) PROVE Inner'
  <1> DEFINE lost == ObserverUp /\ ~ObserverUp'
  <1>a. /\ UNCHANGED <<disk, indexed, active, gaveUp>> /\ task' = [task EXCEPT ![w] = NoTask]
        /\ notices' = IF lost THEN <<>> ELSE notices
        /\ missed' = [p \in Paths |-> missed[p] \/ (lost /\ p \in Undelivered)]
    BY DEF Control
  <1>1. /\ job' = [job EXCEPT ![w] = NoRow]
        /\ \A r \in RowIds : KeptRow(r) /\ (rows[r].status \in Live => rows'[r].status \in Live)
    BY ControlEffect
  <1>2. job'[w] = NoRow /\ task'[w] = NoTask
    BY <1>a, <1>1, WatcherTypes DEF WatcherInv
  <1>3. \A v \in Workers \ {w} : task'[v] = task[v] /\ job'[v] = job[v]
    BY <1>a, <1>1, WatcherTypes DEF WatcherInv
  <1>4. OnTask(w)'
    BY <1>2 DEF OnTask, NoTask
  <1>5. \A p \in Paths : Open(p) => OpenNext(p)
    <2> SUFFICES ASSUME NEW p \in Paths, Open(p) PROVE OpenNext(p)
      OBVIOUS
    <2>1. CASE lost
      BY <1>a, <2>1 DEF Open, OpenNext
    <2>2. CASE ~lost
      <3>1. notices' = notices /\ missed'[p] = (missed[p] \/ (lost /\ p \in Undelivered))
        BY <1>a, <2>2
      <3>2. QED
        BY <3>1 DEF Open, OpenNext, Undelivered
    <2>3. QED
      BY <2>1, <2>2
  <1>6. RowInv' /\ TaskInv' /\ \A p \in Paths : SameFolder(p)
    BY <1>a, <1>1, <1>3, <1>4, <1>5, OthersKeep
  <1>7. NoticeInv'
    <2>1. CASE lost
      <3>1. notices' = <<>>
        BY <1>a, <2>1
      <3>2. QED
        BY <3>1 DEF NoticeInv
    <2>2. CASE ~lost
      <3>1. notices' = notices
        BY <1>a, <2>2
      <3>2. CASE ObserverUp'
        BY <1>a, <3>1, <3>2 DEF WatcherInv, NoticeInv, LastOf
      <3>3. CASE ~ObserverUp'
        <4>1. ~ObserverUp
          BY <2>2, <3>3
        <4>2. QED
          BY <1>a, <3>1, <4>1, NoticesStay DEF WatcherInv
      <3>4. QED
        BY <3>2, <3>3
    <2>3. QED
      BY <2>1, <2>2
  <1>8. SettledInv'
    <2> SUFFICES ASSUME NEW p \in Paths PROVE Settled(p)'
      BY DEF SettledInv
    <2>1. LiveRows(p)' = {} => LiveRows(p) = {}
      BY <1>1, LiveRowsStay DEF KeptRow
    <2>2. QED
      BY <1>a, <1>6, <2>1, FolderStaysSettled DEF WatcherInv
  <1>9. QED
    BY <1>6, <1>7, <1>8 DEF Inner

LEMMA TimePassesKeeps ==
  ASSUME Careful, WatcherInv, TimePasses PROVE Inner'
  <1>a. /\ Tick /\ UNCHANGED <<disk, notices, indexed, active, missed, gaveUp, task>>
        /\ UNCHANGED <<job, pc>>
    BY DEF TimePasses, wvars, Tick
  <1>1. \A r \in RowIds : KeptRow(r) /\ (rows[r].status \in Live => rows'[r].status \in Live)
    BY <1>a, TickKeeps
  <1>2. \A p \in Paths : Open(p) => OpenNext(p)
    BY <1>a DEF Open, OpenNext, Undelivered
  <1>3. \A p \in Paths : SameFolder(p)
    BY <1>a, <1>2 DEF SameFolder
  <1>4. RowInv'
    BY <1>a, <1>1, <1>2, RowsGoOn DEF WatcherInv
  <1>5. TaskInv'
    <2> SUFFICES ASSUME NEW w \in Workers PROVE OnTask(w)'
      BY DEF TaskInv
    <2>1. job[w] # NoRow => job[w] \in RowIds /\ rows[job[w]].path \in Paths
      BY WatcherTypes, RowFields DEF WatcherInv
    <2>2. QED
      BY <1>a, <1>1, <1>3, <2>1, JobGoesOn DEF WatcherInv, KeptRow
  <1>6. NoticeInv'
    BY <1>a, NoticesStay DEF WatcherInv, ObserverUp
  <1>7. SettledInv'
    <2> SUFFICES ASSUME NEW p \in Paths PROVE Settled(p)'
      BY DEF SettledInv
    <2>1. LiveRows(p)' = {} => LiveRows(p) = {}
      BY <1>1, LiveRowsStay DEF KeptRow
    <2>2. QED
      BY <1>a, <1>3, <2>1, FolderStaysSettled DEF WatcherInv
  <1>8. QED
    BY <1>4, <1>5, <1>6, <1>7 DEF Inner

-----------------------------------------------------------------------------
LEMMA InitWatcherInv == WatcherInit => WatcherInv
  <1> SUFFICES ASSUME WatcherInit PROVE WatcherInv
    OBVIOUS
  <1>a. Init
    BY DEF WatcherInit
  <1>1. WatcherTypeOK
    BY InitWatcherTypes
  <1>2. QueueInv
    BY <1>a, InitTypes, InitUnique, InitLease DEF QueueInv
  <1>3. NoticeInv
    BY DEF WatcherInit, NoticeInv
  <1>4. RowInv
    <2>1. PICK p \in Paths, e \in Events :
            rows = [r \in RowIds |-> Finished(FreshRow(p, e), "absent")]
      BY <1>a DEF Init
    <2>2. \A r \in RowIds : rows[r].status \notin Live
      BY <2>1, FinishedFields DEF Live
    <2>3. QED
      BY <2>2 DEF RowInv
  <1>5. TaskInv
    BY <1>a DEF WatcherInit, Init, TaskInv, OnTask, NoTask
  <1>6. SettledInv
    BY DEF WatcherInit, SettledInv, Settled, InSync
  <1>7. QED
    BY <1>1, <1>2, <1>3, <1>4, <1>5, <1>6 DEF WatcherInv

LEMMA StepWatcherInv ==
  ASSUME Careful PROVE WatcherInv /\ [WatcherNext]_allVars => WatcherInv'
  <1> SUFFICES ASSUME WatcherInv, [WatcherNext]_allVars PROVE WatcherInv'
    OBVIOUS
  <1>a. WatcherTypeOK' /\ QueueInv'
    BY StepWatcherTypes, QueueKept DEF WatcherInv, QueueInv
  <1>b. WatcherTypeOK /\ NoticeInv /\ CalmWhileBusy
    BY DEF WatcherInv, Careful
  <1> SUFFICES Inner'
    BY <1>a DEF Inner, WatcherInv
  <1>1. ASSUME NEW p \in Paths, WriteFolder(p) \/ RemoveFolder(p) PROVE Inner'
    <2>1. PICK ps \in SUBSET Paths : ps = {p}
      OBVIOUS
    <2>2. Touches(ps)
      BY <1>1, <1>b, <2>1, WriteTouches, RemoveTouches
    <2>3. QED
      BY <2>2, TreeKeeps
  <1>2. ASSUME NEW p \in Paths, NEW q \in Paths, MoveFolder(p, q) PROVE Inner'
    <2>1. PICK ps \in SUBSET Paths : ps = {p, q}
      OBVIOUS
    <2>2. Touches(ps)
      BY <1>2, <1>b, <2>1, MoveTouches
    <2>3. QED
      BY <2>2, TreeKeeps
  <1>3. CASE Deliver \/ DeliverFails
    BY <1>3, <1>a, DeliverKeeps, DeliverFailsKeeps
  <1>4. ASSUME NEW w \in Workers, Decide(w) \/ SoftDelete(w) \/ Crawl(w) \/ Store(w)
        PROVE  Inner'
    BY <1>4, DecideKeeps, SoftDeleteKeeps, CrawlKeeps, StoreKeeps
  <1>5. ASSUME NEW w \in Workers, ClaimTask(w) \/ Complete(w) \/ TaskFails(w) \/ Control(w)
        PROVE  Inner'
    BY <1>5, ClaimTaskKeeps, CompleteKeeps, TaskFailsKeeps, ControlKeeps
  <1>6. CASE TimePasses
    BY <1>6, TimePassesKeeps
  <1>7. CASE UNCHANGED allVars
    BY <1>7 DEF allVars, wvars, vars, WatcherInv, Inner, NoticeInv, LastOf, ObserverUp, RowInv,
                Open, Undelivered, TaskInv, OnTask, OnCourse, InSync, SettledInv, Settled, LiveRows
  <1>8. QED
    BY <1>1, <1>2, <1>3, <1>4, <1>5, <1>6, <1>7 DEF WatcherNext

(* Every reachable tree, list of undelivered events, task and index has the  *)
(* type stated.                                                              *)
THEOREM WatcherTyped ==
  ASSUME Careful
  PROVE  WatcherSpec => []WatcherTypeOK
  <1>1. WatcherInv => WatcherTypeOK
    BY DEF WatcherInv
  <1>2. QED
    BY <1>1, InitWatcherInv, StepWatcherInv, PTL DEF WatcherSpec

(* Once a folder's events are all delivered and its job is done, the index   *)
(* holds what the folder holds, or has it inactive when it is gone: across   *)
(* crashes and restarts, refused and lost deliveries, renames and retries,   *)
(* for any number of folders and workers.                                    *)
THEOREM WatchedFoldersInSync ==
  ASSUME Careful
  PROVE  WatcherSpec => []DoneMeansInSync
  <1>1. WatcherInv => DoneMeansInSync
    BY DEF WatcherInv, SettledInv, Settled, Open, DoneMeansInSync, Quiet
  <1>2. QED
    BY <1>1, InitWatcherInv, StepWatcherInv, PTL DEF WatcherSpec

(* A document is taken out of the index only while its folder is absent: a   *)
(* delete event alone never does it.                                         *)
THEOREM DeletedOnlyWhenAbsent ==
  ASSUME Careful
  PROVE  WatcherSpec => SoftDeleteOnlyAbsent
  <1> DEFINE OnlyAbsent == \A p \in Paths : active[p] /\ ~active'[p] => disk[p] = 0
  <1>1. WatcherInv /\ [WatcherNext]_allVars => [OnlyAbsent]_allVars
    <2> SUFFICES ASSUME WatcherInv, WatcherNext, NEW p \in Paths, active[p], ~active'[p]
                 PROVE  disk[p] = 0
      OBVIOUS
    <2>1. ASSUME NEW w \in Workers, SoftDelete(w) PROVE disk[p] = 0
      <3>1. task[w].stage = "deleting" /\ active' = [active EXCEPT ![Folder(w)] = FALSE]
        BY <2>1 DEF SoftDelete
      <3>2. p = Folder(w)
        BY <3>1, WatcherTypes DEF WatcherInv
      <3>3. QED
        BY <3>1, <3>2, JobOnCourse DEF OnCourse
    <2>2. ASSUME NEW w \in Workers, Store(w) PROVE FALSE
      BY <2>2, WatcherTypes DEF WatcherInv, Store
    <2>3. ASSUME NEW w \in Workers,
                 ClaimTask(w) \/ Decide(w) \/ Crawl(w) \/ Complete(w) \/ TaskFails(w) \/ Control(w)
          PROVE  FALSE
      BY <2>3 DEF ClaimTask, Decide, Crawl, Complete, TaskFails, Control
    <2>4. ASSUME NEW q \in Paths, WriteFolder(q) \/ RemoveFolder(q) PROVE FALSE
      BY <2>4 DEF WriteFolder, RemoveFolder
    <2>5. ASSUME NEW q \in Paths, NEW o \in Paths, MoveFolder(q, o) PROVE FALSE
      BY <2>5 DEF MoveFolder
    <2>6. CASE Deliver \/ DeliverFails
      BY <2>6 DEF Deliver, DeliverFails
    <2>7. CASE TimePasses
      BY <2>7 DEF TimePasses, wvars
    <2>8. QED
      BY <2>1, <2>2, <2>3, <2>4, <2>5, <2>6, <2>7 DEF WatcherNext
  <1>2. QED
    BY <1>1, InitWatcherInv, StepWatcherInv, PTL DEF WatcherSpec, SoftDeleteOnlyAbsent

-----------------------------------------------------------------------------
(* The watcher drives a queue: what is proved about the queue holds of the  *)
(* whole.                                                                   *)
LEMMA ReportAddressed ==
  ASSUME Addressed, NEW ps, NEW batch \in Seq(Paths \X Events), Report(ps, batch)
  PROVE  Addressed'
  <1>1. notices \o batch \in Seq(Paths \X Events)
    BY DEF Addressed
  <1>2. notices' = notices \o batch \/ notices' = notices
    BY DEF Report
  <1>3. QED
    BY <1>1, <1>2 DEF Addressed

LEMMA StepAddressed == Addressed /\ [WatcherNext]_allVars => Addressed'
  <1> SUFFICES ASSUME Addressed, [WatcherNext]_allVars PROVE Addressed'
    OBVIOUS
  <1>1. {"upsert", "delete"} \subseteq Events
    BY WatcherAssumption
  <1>2. ASSUME NEW p \in Paths, WriteFolder(p) PROVE Addressed'
    <2>1. << <<p, "upsert">> >> \in Seq(Paths \X Events)
      BY <1>1
    <2>2. QED
      BY <1>2, <2>1, ReportAddressed DEF WriteFolder
  <1>3. ASSUME NEW p \in Paths, RemoveFolder(p) PROVE Addressed'
    <2>1. << <<p, "delete">> >> \in Seq(Paths \X Events)
      BY <1>1
    <2>2. QED
      BY <1>3, <2>1, ReportAddressed DEF RemoveFolder
  <1>4. ASSUME NEW p \in Paths, NEW q \in Paths, MoveFolder(p, q) PROVE Addressed'
    <2>1. << <<q, "upsert">>, <<p, "delete">> >> \in Seq(Paths \X Events)
      BY <1>1
    <2>2. QED
      BY <1>4, <2>1, ReportAddressed DEF MoveFolder
  <1>5. CASE Deliver \/ DeliverFails
    <2>1. notices # <<>> /\ notices' = Tail(notices)
      BY <1>5 DEF Deliver, DeliverFails
    <2>2. \A s \in Seq(Paths \X Events) : s # <<>> => Tail(s) \in Seq(Paths \X Events)
      OBVIOUS
    <2>3. QED
      BY <2>1, <2>2 DEF Addressed
  <1>6. ASSUME NEW w \in Workers, Control(w) PROVE Addressed'
    BY <1>6 DEF Addressed, Control
  <1>7. ASSUME NEW w \in Workers,
               ClaimTask(w) \/ Decide(w) \/ SoftDelete(w) \/ Crawl(w) \/ Store(w) \/ Complete(w) \/ TaskFails(w)
        PROVE  Addressed'
    BY <1>7 DEF Addressed, ClaimTask, Decide, SoftDelete, Crawl, Store, Complete, TaskFails
  <1>8. CASE TimePasses \/ UNCHANGED allVars
    BY <1>8 DEF Addressed, TimePasses, wvars, allVars
  <1>9. QED
    BY <1>2, <1>3, <1>4, <1>5, <1>6, <1>7, <1>8 DEF WatcherNext

(* Whatever the environment does, the watcher's steps are steps of the      *)
(* queue, so its theorems hold of the whole (runner, queue).                *)
THEOREM WatcherDrivesQueue == WatcherSpec => Spec
  <1>1. WatcherInit => Init /\ Addressed
    BY DEF WatcherInit, Addressed
  <1>2. Addressed /\ [WatcherNext]_allVars => [Next]_vars
    BY QueueStep
  <1>3. QED
    BY <1>1, <1>2, StepAddressed, PTL DEF WatcherSpec, Spec

-----------------------------------------------------------------------------
(* What a search shows.                                                     *)
MirrorStep == MT!Next \/ UNCHANGED <<disk, Shown>>

LEMMA ShowsSame ==
  ASSUME UNCHANGED <<disk, indexed, active>>
  PROVE  MirrorStep
  BY DEF MirrorStep, Shown

LEMMA RefreshesOne ==
  ASSUME NEW p \in Paths, UNCHANGED disk,
         \A q \in Paths \ {p} : active'[q] = active[q] /\ indexed'[q] = indexed[q],
         (IF active'[p] THEN indexed'[p] ELSE 0) = disk[p]
  PROVE  MirrorStep
  <1>1. Shown' = [q \in Paths |-> IF active'[q] THEN indexed'[q] ELSE 0]
    BY DEF Shown
  <1>2. Shown' = [Shown EXCEPT ![p] = disk[p]]
    BY <1>1 DEF Shown
  <1>3. QED
    BY <1>2 DEF MirrorStep, MT!Next, MT!Refresh

LEMMA EditMirrors ==
  ASSUME WatcherTypeOK', UNCHANGED <<indexed, active>>
  PROVE  MirrorStep
  <1>1. disk' \in [Paths -> Nat]
    BY WatcherAssumption DEF WatcherTypeOK
  <1>2. QED
    BY <1>1 DEF MirrorStep, MT!Next, MT!Edit, Shown

LEMMA NextMirrors ==
  ASSUME WatcherInv, WatcherTypeOK', [WatcherNext]_allVars
  PROVE  MirrorStep
  <1>1. ASSUME NEW p \in Paths, WriteFolder(p) \/ RemoveFolder(p) PROVE MirrorStep
    BY <1>1, EditMirrors DEF WriteFolder, RemoveFolder
  <1>2. ASSUME NEW p \in Paths, NEW q \in Paths, MoveFolder(p, q) PROVE MirrorStep
    BY <1>2, EditMirrors DEF MoveFolder
  <1>3. CASE Deliver \/ DeliverFails
    BY <1>3, ShowsSame DEF Deliver, DeliverFails
  <1>4. ASSUME NEW w \in Workers,
               ClaimTask(w) \/ Decide(w) \/ Crawl(w) \/ Complete(w) \/ TaskFails(w) \/ Control(w)
        PROVE  MirrorStep
    BY <1>4, ShowsSame DEF ClaimTask, Decide, Crawl, Complete, TaskFails, Control
  <1>5. ASSUME NEW w \in Workers, SoftDelete(w) PROVE MirrorStep
    <2>1. task[w].stage = "deleting"
      BY <1>5 DEF SoftDelete
    <2>2. PICK p \in Paths : p = Folder(w)
      BY <2>1, JobOnCourse
    <2>3. disk[p] = 0
      BY <2>1, <2>2, JobOnCourse DEF OnCourse
    <2>4. active' = [active EXCEPT ![p] = FALSE] /\ UNCHANGED <<disk, indexed>>
      BY <1>5, <2>2 DEF SoftDelete
    <2>5. QED
      BY <2>3, <2>4, RefreshesOne, WatcherTypes DEF WatcherInv
  <1>6. ASSUME NEW w \in Workers, Store(w) PROVE MirrorStep
    <2>1. task[w].stage = "storing"
      BY <1>6 DEF Store
    <2>2. PICK p \in Paths : p = Folder(w)
      BY <2>1, JobOnCourse
    <2>3. task[w].seen = disk[p]
      BY <2>1, <2>2, JobOnCourse DEF OnCourse
    <2>4. /\ active' = [active EXCEPT ![p] = TRUE] /\ UNCHANGED disk
          /\ indexed' = [indexed EXCEPT ![p] = task[w].seen]
      BY <1>6, <2>2 DEF Store
    <2>5. QED
      BY <2>3, <2>4, RefreshesOne, WatcherTypes DEF WatcherInv
  <1>7. CASE TimePasses \/ UNCHANGED allVars
    BY <1>7, ShowsSame DEF TimePasses, wvars, allVars
  <1>8. QED
    BY <1>1, <1>2, <1>3, <1>4, <1>5, <1>6, <1>7 DEF WatcherNext

(* The queue, the observer and the workers together show of a folder only   *)
(* what it holds, across lost events, crashes and retries (_work_once,      *)
(* process_upsert, process_delete).                                         *)
THEOREM WatcherMirrors ==
  ASSUME Careful
  PROVE  WatcherSpec => ImplementsMirror
  <1>1. WatcherInit => MT!Init
    BY DEF WatcherInit, MT!Init, Shown
  <1>2. WatcherInv /\ WatcherInv' /\ [WatcherNext]_allVars => MT!Next \/ UNCHANGED <<disk, Shown>>
    BY NextMirrors DEF MirrorStep, WatcherInv
  <1>3. QED
    BY <1>1, <1>2, InitWatcherInv, StepWatcherInv, PTL DEF WatcherSpec, ImplementsMirror, MT!Spec
===============================================================================
