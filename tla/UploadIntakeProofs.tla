-------------------------- MODULE UploadIntakeProofs --------------------------
(***************************************************************************)
(* What uploads promise, for any number of requests, files and folders.    *)
(* The argument: from its commit to its answer a request has the loop for  *)
(* itself (OneWrites), so what the collision check found still holds when  *)
(* a file is moved (MovesAreClear), and only a request that passed every   *)
(* check owns a file (OwnersCommitted).                                    *)
(***************************************************************************)
EXTENDS UploadIntake, TLAPS

Writing(r) == request[r].at \in {"moving", "queueing"}

OneWrites == \A r, q \in Requests : Writing(r) /\ Writing(q) => r = q

(* Nothing is recorded of a request before it is answered.                  *)
NotYetRecorded ==
  \A r \in Requests :
    request[r].at \in {"new", "staging", "moving", "queueing"} => recorded[r].outcome = "none"

CommittedWhole == \A r \in Requests : Writing(r) => request[r].rejected = {}

OwnersCommitted ==
  \A r \in Requests, f \in Files :
    tree[f] = r => /\ request[r].at \in {"moving", "queueing", "answered", "dead"}
                   /\ f \in request[r].written
                   /\ request[r].rejected = {}
                   /\ recorded[r].outcome \in {"none", "accepted"}

(* What a request is about to move lands on nothing, unless it replaces.    *)
MovesAreClear ==
  \A r \in Requests, f \in Files :
    request[r].at = "moving" /\ request[r].mode # "replace" /\ f \in request[r].todo
      => tree[f] = Nobody

(* Between handing a folder over and the end of its job.                    *)
HandedOver(r, f) ==
  \/ request[r].at = "queueing" /\ FolderOf[f] \notin request[r].todo
  \/ recorded[r].outcome = "accepted"

HandedOverIsIndexed ==
  \A r \in Requests, f \in Files :
    f \in request[r].written /\ HandedOver(r, f) /\ tree[f] = r
      => \/ live[FolderOf[f]] # "none"
         \/ tried[f] = r /\ (index[f] = r \/ "failed" \in finished[FolderOf[f]])

AcceptedFolders ==
  \A r \in Requests : recorded[r].outcome = "accepted" => recorded[r].folders = WrittenFolders(r)

IntakeInv ==
  /\ OneWrites /\ NotYetRecorded /\ CommittedWhole /\ OwnersCommitted
  /\ MovesAreClear /\ HandedOverIsIndexed /\ AcceptedFolders

-----------------------------------------------------------------------------
(* What a step makes of a request.                                          *)

RequestState ==
  [at: {"new", "staging", "moving", "queueing", "answered", "dead"},
   mode: {"fail", "skip", "replace"}, todo: SUBSET (Files \cup Folders),
   accepted: SUBSET Files, rejected: SUBSET Files, written: SUBSET Files]

(* Only request r changes, and it becomes this.                             *)
Becomes(r, next) ==
  /\ request' \in [Requests -> RequestState]
  /\ \A q \in Requests : q # r => request'[q] = request[q]
  /\ request'[r] = next

(* The fields of next are those of row, but for the ones named.             *)
SameBut(row, next, but) ==
  /\ "at" \in but \/ next.at = row.at
  /\ "mode" \in but \/ next.mode = row.mode
  /\ "todo" \in but \/ next.todo = row.todo
  /\ "accepted" \in but \/ next.accepted = row.accepted
  /\ "rejected" \in but \/ next.rejected = row.rejected
  /\ "written" \in but \/ next.written = row.written

LEMMA RowTyped == ASSUME TypeOK, NEW r \in Requests PROVE request[r] \in RequestState
BY DEF TypeOK, RequestState

LEMMA Becoming ==
  ASSUME TypeOK, NEW r \in Requests, NEW next \in RequestState,
         request' = [request EXCEPT ![r] = next]
  PROVE  Becomes(r, next)
BY DEF TypeOK, RequestState, Becomes

LEMMA BeginEffect ==
  ASSUME TypeOK, NEW r \in Requests, NEW files \in SUBSET Files,
         NEW mode \in {"fail", "skip", "replace"}, Begin(r, files, mode)
  PROVE  \E next \in RequestState :
           /\ Becomes(r, next) /\ next.at = "staging" /\ next.mode = mode /\ next.todo = files
           /\ next.accepted = {} /\ next.rejected = {} /\ next.written = {}
<1> DEFINE next == [Fresh EXCEPT !.at = "staging", !.mode = mode, !.todo = files]
<1>1. Fresh \in RequestState /\ Fresh.accepted = {} /\ Fresh.rejected = {} /\ Fresh.written = {}
  BY DEF Fresh, RequestState
<1>2. /\ next \in RequestState /\ next.at = "staging" /\ next.mode = mode /\ next.todo = files
      /\ next.accepted = {} /\ next.rejected = {} /\ next.written = {}
  BY <1>1 DEF RequestState
<1>3. request' = [request EXCEPT ![r] = next]
  BY Zenon DEF Begin
<1> HIDE DEF next
<1> QED
  BY <1>2, <1>3, Becoming

LEMMA AtEffect ==
  ASSUME TypeOK, NEW r \in Requests, NEW at \in {"answered", "dead"},
         request' = [request EXCEPT ![r].at = at]
  PROVE  \E next \in RequestState :
           Becomes(r, next) /\ next.at = at /\ SameBut(request[r], next, {"at"})
<1> DEFINE next == [request[r] EXCEPT !.at = at]
<1>1. next \in RequestState /\ next.at = at /\ SameBut(request[r], next, {"at"})
  BY RowTyped DEF RequestState, SameBut
<1>2. request' = [request EXCEPT ![r] = next]
  BY Zenon
<1> HIDE DEF next
<1> QED
  BY <1>1, <1>2, Becoming

LEMMA StageEffect ==
  ASSUME TypeOK, NEW r \in Requests, NEW f \in Files, Stage(r, f)
  PROVE  \E next \in RequestState :
           Becomes(r, next) /\ SameBut(request[r], next, {"todo", "accepted"})
<1> DEFINE next == [request[r] EXCEPT !.todo = @ \ {f}, !.accepted = @ \cup {f}]
<1>1. next \in RequestState /\ SameBut(request[r], next, {"todo", "accepted"})
  BY RowTyped DEF RequestState, SameBut
<1>2. request' = [request EXCEPT ![r] = next]
  BY Zenon DEF Stage
<1> HIDE DEF next
<1> QED
  BY <1>1, <1>2, Becoming

LEMMA RejectEffect ==
  ASSUME TypeOK, NEW r \in Requests, NEW f \in Files, Reject(r, f)
  PROVE  \E next \in RequestState :
           Becomes(r, next) /\ SameBut(request[r], next, {"todo", "rejected"})
<1> DEFINE next == [request[r] EXCEPT !.todo = @ \ {f}, !.rejected = @ \cup {f}]
<1>1. next \in RequestState /\ SameBut(request[r], next, {"todo", "rejected"})
  BY RowTyped DEF RequestState, SameBut
<1>2. request' = [request EXCEPT ![r] = next]
  BY Zenon DEF Reject
<1> HIDE DEF next
<1> QED
  BY <1>1, <1>2, Becoming

LEMMA CommitEffect ==
  ASSUME TypeOK, NEW r \in Requests, Commit(r)
  PROVE  \E next \in RequestState :
           /\ Becomes(r, next) /\ next.at = "moving" /\ next.todo = ToWrite(r)
           /\ SameBut(request[r], next, {"at", "todo"})
<1> DEFINE next == [request[r] EXCEPT !.at = "moving", !.todo = ToWrite(r)]
<1>1. ToWrite(r) \in SUBSET Files
  BY RowTyped DEF ToWrite, RequestState
<1>2. /\ next \in RequestState /\ next.at = "moving" /\ next.todo = ToWrite(r)
      /\ SameBut(request[r], next, {"at", "todo"})
  BY <1>1, RowTyped DEF RequestState, SameBut
<1>3. request' = [request EXCEPT ![r] = next]
  BY Zenon DEF Commit
<1> HIDE DEF next
<1> QED
  BY <1>2, <1>3, Becoming

LEMMA MoveEffect ==
  ASSUME TypeOK, NEW r \in Requests, NEW f \in Files, Move(r, f)
  PROVE  \E next \in RequestState :
           /\ Becomes(r, next) /\ next.todo = request[r].todo \ {f}
           /\ next.written = request[r].written \cup {f}
           /\ SameBut(request[r], next, {"todo", "written"})
<1> DEFINE next == [request[r] EXCEPT !.todo = @ \ {f}, !.written = @ \cup {f}]
<1>1. /\ next \in RequestState /\ next.todo = request[r].todo \ {f}
      /\ next.written = request[r].written \cup {f}
      /\ SameBut(request[r], next, {"todo", "written"})
  BY RowTyped DEF RequestState, SameBut
<1>2. request' = [request EXCEPT ![r] = next]
  BY Zenon DEF Move
<1> HIDE DEF next
<1> QED
  BY <1>1, <1>2, Becoming

LEMMA FoldersTyped == ASSUME TypeOK, NEW r \in Requests PROVE WrittenFolders(r) \in SUBSET Folders
BY RowTyped, UploadAssumption DEF WrittenFolders, RequestState

LEMMA StartEffect ==
  ASSUME TypeOK, NEW r \in Requests, StartQueueing(r)
  PROVE  \E next \in RequestState :
           /\ Becomes(r, next) /\ next.at = "queueing" /\ next.todo = WrittenFolders(r)
           /\ SameBut(request[r], next, {"at", "todo"})
<1> DEFINE next == [request[r] EXCEPT !.at = "queueing", !.todo = WrittenFolders(r)]
<1>1. /\ next \in RequestState /\ next.at = "queueing" /\ next.todo = WrittenFolders(r)
      /\ SameBut(request[r], next, {"at", "todo"})
  BY FoldersTyped, RowTyped DEF RequestState, SameBut
<1>2. request' = [request EXCEPT ![r] = next]
  BY Zenon DEF StartQueueing
<1> HIDE DEF next
<1> QED
  BY <1>1, <1>2, Becoming

LEMMA EnqueueEffect ==
  ASSUME TypeOK, NEW r \in Requests, NEW f \in Folders, Enqueue(r, f)
  PROVE  \E next \in RequestState :
           /\ Becomes(r, next) /\ next.todo = request[r].todo \ {f}
           /\ SameBut(request[r], next, {"todo"})
<1> DEFINE next == [request[r] EXCEPT !.todo = @ \ {f}]
<1>1. /\ next \in RequestState /\ next.todo = request[r].todo \ {f}
      /\ SameBut(request[r], next, {"todo"})
  BY RowTyped DEF RequestState, SameBut
<1>2. request' = [request EXCEPT ![r] = next]
  BY Zenon DEF Enqueue
<1> HIDE DEF next
<1> QED
  BY <1>1, <1>2, Becoming

LEMMA CrashEffect ==
  ASSUME TypeOK, NEW died, Crash(died)
  PROVE  /\ request' \in [Requests -> RequestState]
         /\ \A r \in Requests :
              \/ request'[r] = request[r]
              \/ request'[r].at = "dead" /\ SameBut(request[r], request'[r], {"at"})
<1> DEFINE Stops(r) == "api" \in died /\ request[r].at \in {"staging", "moving", "queueing"}
<1>1. ASSUME NEW r \in Requests
      PROVE  /\ [request[r] EXCEPT !.at = "dead"] \in RequestState
             /\ [request[r] EXCEPT !.at = "dead"].at = "dead"
             /\ SameBut(request[r], [request[r] EXCEPT !.at = "dead"], {"at"})
  BY RowTyped DEF RequestState, SameBut
<1>2. ASSUME NEW r \in Requests
      PROVE  request'[r] = IF Stops(r) THEN [request[r] EXCEPT !.at = "dead"] ELSE request[r]
  BY Zenon DEF Crash
<1>3. ASSUME NEW r \in Requests
      PROVE  /\ request'[r] \in RequestState
             /\ \/ request'[r] = request[r]
                \/ request'[r].at = "dead" /\ SameBut(request[r], request'[r], {"at"})
  <2> HIDE DEF Stops
  <2>1. CASE Stops(r)
    <3>1. request'[r] = [request[r] EXCEPT !.at = "dead"]
      BY Zenon, <1>2, <2>1
    <3> QED
      BY Zenon, <3>1, <1>1
  <2>2. CASE ~Stops(r)
    <3>1. request'[r] = request[r]
      BY Zenon, <1>2, <2>2
    <3> QED
      BY Zenon, <3>1, <2>2, RowTyped
  <2> QED
    BY Zenon, <2>1, <2>2
<1>4. request' = [r \in Requests |-> request'[r]]
  BY Zenon DEF Crash
<1> HIDE DEF Stops
<1> QED
  BY Zenon, <1>3, <1>4

-----------------------------------------------------------------------------
(* Types.                                                                   *)

LEMMA InitTyped == Init => TypeOK
BY UploadAssumption DEF Init, TypeOK, Owners, Fresh, NoRecord

(* The other tables keep their types whatever becomes of a request.         *)
LEMMA TypedIf ==
  ASSUME TypeOK, request' \in [Requests -> RequestState],
         tree' \in [Files -> Owners], live' \in [Folders -> {"none", "pending", "processing"}],
         recorded' \in [Requests -> [outcome: {"none", "accepted", "rejected", "conflict"},
                                     folders: SUBSET Folders]],
         events' \subseteq Folders, UNCHANGED <<finished, lost, index, tried, crashes>>
  PROVE  TypeOK'
BY DEF TypeOK, RequestState

LEMMA RecordTyped ==
  ASSUME TypeOK, NEW r \in Requests, NEW outcome \in {"accepted", "rejected", "conflict"},
         NEW folders \in SUBSET Folders, Record(r, outcome, folders)
  PROVE  recorded' \in [Requests -> [outcome: {"none", "accepted", "rejected", "conflict"},
                                     folders: SUBSET Folders]]
BY DEF TypeOK, Record

LEMMA AnswerTyped ==
  ASSUME TypeOK, NEW r \in Requests,
         RefuseAtDoor(r) \/ Refuse(r) \/ Conflict(r) \/ Accept(r) \/ MoveFails(r)
  PROVE  TypeOK'
<1>1. request' = [request EXCEPT ![r].at = "answered"]
  BY Zenon DEF RefuseAtDoor, Refuse, Conflict, Accept, MoveFails
<1>2. request' \in [Requests -> RequestState]
  BY Zenon, <1>1, AtEffect DEF Becomes
<1>3. recorded' \in [Requests -> [outcome: {"none", "accepted", "rejected", "conflict"},
                                  folders: SUBSET Folders]]
  <2>1. {} \in SUBSET Folders /\ WrittenFolders(r) \in SUBSET Folders
    BY FoldersTyped
  <2>2. CASE MoveFails(r)
    BY <2>2 DEF MoveFails, TypeOK
  <2> QED
    BY <2>1, <2>2, RecordTyped DEF RefuseAtDoor, Refuse, Conflict, Accept
<1>4. UNCHANGED <<tree, live, finished, events, lost, index, tried, crashes>>
  BY DEF RefuseAtDoor, Refuse, Conflict, Accept, MoveFails, Elsewhere
<1> QED
  BY <1>2, <1>3, <1>4, TypedIf DEF TypeOK

LEMMA StreamTyped ==
  ASSUME TypeOK, NEW r \in Requests,
         \/ \E files \in SUBSET Files, mode \in {"fail", "skip", "replace"} : Begin(r, files, mode)
         \/ Commit(r) \/ StartQueueing(r)
         \/ \E f \in Files : Stage(r, f) \/ Reject(r, f)
  PROVE  TypeOK'
<1>1. request' \in [Requests -> RequestState]
  BY Zenon, BeginEffect, CommitEffect, StartEffect, StageEffect, RejectEffect DEF Becomes
<1>2. UNCHANGED <<tree, live, finished, events, lost, index, tried, recorded, crashes>>
  BY DEF Begin, Commit, StartQueueing, Stage, Reject, Elsewhere
<1> QED
  BY <1>1, <1>2, TypedIf DEF TypeOK

LEMMA WriteTyped ==
  ASSUME TypeOK, NEW r \in Requests,
         \/ \E f \in Files : Move(r, f)
         \/ \E f \in Folders : Enqueue(r, f)
  PROVE  TypeOK'
<1>1. request' \in [Requests -> RequestState]
  BY Zenon, MoveEffect, EnqueueEffect DEF Becomes
<1>2. ASSUME NEW f \in Files, Move(r, f)
      PROVE  TypeOK'
  <2>1. tree' \in [Files -> Owners] /\ events' \subseteq Folders
    BY <1>2, UploadAssumption DEF Move, Owners, TypeOK
  <2> QED
    BY <1>1, <1>2, <2>1, TypedIf DEF Move, TypeOK
<1>3. ASSUME NEW f \in Folders, Enqueue(r, f)
      PROVE  TypeOK'
  <2>1. live' \in [Folders -> {"none", "pending", "processing"}]
    BY <1>3 DEF Enqueue, WithRow, TypeOK
  <2> QED
    BY <1>1, <1>3, <2>1, TypedIf DEF Enqueue, TypeOK
<1> QED
  BY <1>2, <1>3

LEMMA WorkTyped ==
  ASSUME TypeOK, NEW f \in Folders, Deliver(f) \/ Claim(f) \/ Complete(f) \/ GiveUp(f)
  PROVE  TypeOK'
<1> USE DEF TypeOK
<1>1. CASE Deliver(f)
  BY <1>1 DEF Deliver, WithRow
<1>2. CASE Claim(f)
  BY <1>2 DEF Claim
<1>3. CASE Complete(f)
  BY <1>3 DEF Complete, JobEnds
<1>4. CASE GiveUp(f)
  BY <1>4 DEF GiveUp, JobEnds
<1> QED
  BY <1>1, <1>2, <1>3, <1>4

LEMMA CrashTyped ==
  ASSUME TypeOK, NEW died, Crash(died)
  PROVE  TypeOK'
<1>1. request' \in [Requests -> RequestState]
  BY CrashEffect
<1>2. crashes' \in 0..MaxCrashes /\ events' \subseteq Folders /\ lost' \subseteq Folders
  BY UploadAssumption DEF Crash, TypeOK
<1> QED
  BY <1>1, <1>2 DEF Crash, TypeOK, RequestState

(* Every step keeps the types.                                              *)
LEMMA NextTyped == TypeOK /\ [Next]_vars => TypeOK'
<1> SUFFICES ASSUME TypeOK, [Next]_vars
             PROVE  TypeOK'
  OBVIOUS
<1>1. CASE UNCHANGED vars
  BY <1>1 DEF vars, TypeOK
<1>2. CASE Next
  BY Zenon, <1>2, AnswerTyped, StreamTyped, WriteTyped, WorkTyped, CrashTyped DEF Next
<1> QED
  BY <1>1, <1>2

-----------------------------------------------------------------------------
(* The invariant.                                                           *)

LEMMA InitIntake == Init => IntakeInv
BY UploadAssumption DEF Init, IntakeInv, OneWrites, NotYetRecorded, CommittedWhole, OwnersCommitted,
  MovesAreClear, HandedOverIsIndexed, AcceptedFolders, Writing, HandedOver, Fresh, NoRecord

(* A step of a request that has not been committed.                         *)
LEMMA BeforeKeeps ==
  ASSUME TypeOK, IntakeInv, NEW r \in Requests, NEW next \in RequestState, Becomes(r, next),
         request[r].at \in {"new", "staging"}, next.at \in {"staging", "answered"},
         \A q \in Requests : q # r => recorded'[q] = recorded[q],
         recorded'[r].outcome \in {"none", "rejected", "conflict"},
         next.at = "staging" => recorded'[r].outcome = "none",
         UNCHANGED <<tree, live, finished, index, tried>>
  PROVE  IntakeInv'
<1> USE DEF IntakeInv, Becomes
<1>1. \A f \in Files : tree[f] # r
  BY DEF OwnersCommitted
<1>2. OneWrites' /\ CommittedWhole'
  BY DEF OneWrites, CommittedWhole, Writing
<1>3. NotYetRecorded' /\ AcceptedFolders'
  BY DEF NotYetRecorded, AcceptedFolders, WrittenFolders
<1>4. OwnersCommitted' /\ MovesAreClear'
  BY <1>1 DEF OwnersCommitted, MovesAreClear
<1>5. HandedOverIsIndexed'
  BY <1>1 DEF HandedOverIsIndexed, HandedOver
<1> QED
  BY <1>2, <1>3, <1>4, <1>5

LEMMA StreamKeeps ==
  ASSUME TypeOK, IntakeInv, NEW r \in Requests,
         \/ \E files \in SUBSET Files, mode \in {"fail", "skip", "replace"} : Begin(r, files, mode)
         \/ \E f \in Files : Stage(r, f) \/ Reject(r, f)
  PROVE  IntakeInv'
<1>1. recorded[r].outcome = "none"
  BY DEF IntakeInv, NotYetRecorded, Begin, Stage, Reject
<1>2. UNCHANGED <<recorded, tree, live, finished, index, tried>> /\ request[r].at \in {"new", "staging"}
  BY DEF Begin, Stage, Reject, Elsewhere
<1>3. \E next \in RequestState : Becomes(r, next) /\ next.at = "staging"
  <2>1. ASSUME NEW f \in Files, Stage(r, f) \/ Reject(r, f)
        PROVE  \E next \in RequestState : Becomes(r, next) /\ next.at = "staging"
    BY <2>1, StageEffect, RejectEffect DEF SameBut, Stage, Reject
  <2>2. ASSUME NEW files \in SUBSET Files, NEW mode \in {"fail", "skip", "replace"}, Begin(r, files, mode)
        PROVE  \E next \in RequestState : Becomes(r, next) /\ next.at = "staging"
    BY <2>2, BeginEffect
  <2> QED
    BY Zenon, <2>1, <2>2
<1> QED
  BY <1>1, <1>2, <1>3, BeforeKeeps

LEMMA RefuseKeeps ==
  ASSUME TypeOK, IntakeInv, NEW r \in Requests, RefuseAtDoor(r) \/ Refuse(r) \/ Conflict(r)
  PROVE  IntakeInv'
<1>1. \E next \in RequestState : Becomes(r, next) /\ next.at = "answered"
  BY Zenon, AtEffect DEF RefuseAtDoor, Refuse, Conflict
<1>2. /\ \A q \in Requests : q # r => recorded'[q] = recorded[q]
      /\ recorded'[r].outcome \in {"none", "rejected", "conflict"}
  BY DEF RefuseAtDoor, Refuse, Conflict, Record, TypeOK
<1>3. UNCHANGED <<tree, live, finished, index, tried>> /\ request[r].at \in {"new", "staging"}
  BY DEF RefuseAtDoor, Refuse, Conflict, Elsewhere, Staged
<1> QED
  BY <1>1, <1>2, <1>3, BeforeKeeps

LEMMA CommitKeeps ==
  ASSUME TypeOK, IntakeInv, NEW r \in Requests, Commit(r)
  PROVE  IntakeInv'
<1> USE DEF IntakeInv, Becomes
<1>1. PICK next \in RequestState :
        /\ Becomes(r, next) /\ next.at = "moving" /\ next.todo = ToWrite(r)
        /\ SameBut(request[r], next, {"at", "todo"})
  BY CommitEffect
<1>2. next.mode = request[r].mode /\ next.rejected = {} /\ next.written = request[r].written
  BY <1>1 DEF SameBut, Commit
<1>3. request[r].at = "staging" /\ LoopFree(r) /\ UNCHANGED <<tree, recorded, live, finished, index, tried>>
  BY DEF Commit, Staged, Elsewhere
<1>4. \A f \in Files : tree[f] # r
  BY <1>3 DEF OwnersCommitted
<1>5. next.mode # "replace" => \A f \in Files : f \in ToWrite(r) => tree[f] = Nobody
  BY <1>2, RowTyped DEF Commit, ToWrite, Collisions, RequestState
<1>6. OneWrites' /\ CommittedWhole' /\ NotYetRecorded'
  BY <1>1, <1>2, <1>3 DEF OneWrites, CommittedWhole, NotYetRecorded, Writing, LoopFree
<1>7. OwnersCommitted' /\ MovesAreClear'
  BY <1>1, <1>3, <1>4, <1>5 DEF OwnersCommitted, MovesAreClear
<1>8. HandedOverIsIndexed' /\ AcceptedFolders'
  BY <1>1, <1>2, <1>3, <1>4 DEF HandedOverIsIndexed, HandedOver, AcceptedFolders, WrittenFolders, NotYetRecorded
<1> QED
  BY <1>6, <1>7, <1>8

LEMMA MoveKeeps ==
  ASSUME TypeOK, IntakeInv, NEW r \in Requests, NEW f \in Files, Move(r, f)
  PROVE  IntakeInv'
<1> USE DEF IntakeInv, Becomes
<1>1. PICK next \in RequestState :
        /\ Becomes(r, next) /\ next.todo = request[r].todo \ {f}
        /\ next.written = request[r].written \cup {f}
        /\ SameBut(request[r], next, {"todo", "written"})
  BY MoveEffect
<1>2. next.at = "moving" /\ next.mode = request[r].mode /\ next.rejected = request[r].rejected
  BY <1>1 DEF SameBut, Move
<1>3. request[r].at = "moving" /\ UNCHANGED <<recorded, live, finished, index, tried>>
  BY DEF Move
<1>4. /\ tree'[f] = r
      /\ \A g \in Files : g # f => tree'[g] = tree[g]
  BY DEF Move, TypeOK
<1>5. OneWrites' /\ CommittedWhole' /\ NotYetRecorded'
  BY <1>1, <1>2, <1>3 DEF OneWrites, CommittedWhole, NotYetRecorded, Writing
<1>6. OwnersCommitted'
  BY <1>1, <1>2, <1>3, <1>4 DEF OwnersCommitted, CommittedWhole, NotYetRecorded, Writing
<1>7. MovesAreClear'
  BY <1>1, <1>2, <1>3, <1>4 DEF MovesAreClear, OneWrites, Writing
<1>8. HandedOverIsIndexed' /\ AcceptedFolders'
  BY <1>1, <1>2, <1>3, <1>4 DEF HandedOverIsIndexed, HandedOver, AcceptedFolders, WrittenFolders, NotYetRecorded
<1> QED
  BY <1>5, <1>6, <1>7, <1>8

LEMMA MoveFailsKeeps ==
  ASSUME TypeOK, IntakeInv, NEW r \in Requests, MoveFails(r)
  PROVE  IntakeInv'
<1> USE DEF IntakeInv, Becomes
<1>1. PICK next \in RequestState :
        Becomes(r, next) /\ next.at = "answered" /\ SameBut(request[r], next, {"at"})
  BY Zenon, AtEffect DEF MoveFails
<1>2. /\ request[r].at = "moving" /\ next.rejected = request[r].rejected
      /\ next.written = request[r].written
      /\ UNCHANGED <<tree, recorded, live, finished, index, tried>>
  BY <1>1 DEF MoveFails, Elsewhere, SameBut
<1>3. OneWrites' /\ CommittedWhole' /\ NotYetRecorded'
  BY <1>1, <1>2 DEF OneWrites, CommittedWhole, NotYetRecorded, Writing
<1>4. OwnersCommitted' /\ MovesAreClear'
  BY <1>1, <1>2 DEF OwnersCommitted, MovesAreClear
<1>5. HandedOverIsIndexed' /\ AcceptedFolders'
  BY <1>1, <1>2 DEF HandedOverIsIndexed, HandedOver, AcceptedFolders, WrittenFolders, NotYetRecorded
<1> QED
  BY <1>3, <1>4, <1>5

LEMMA StartKeeps ==
  ASSUME TypeOK, IntakeInv, NEW r \in Requests, StartQueueing(r)
  PROVE  IntakeInv'
<1> USE DEF IntakeInv, Becomes
<1>1. PICK next \in RequestState :
        /\ Becomes(r, next) /\ next.at = "queueing" /\ next.todo = WrittenFolders(r)
        /\ SameBut(request[r], next, {"at", "todo"})
  BY StartEffect
<1>2. /\ request[r].at = "moving" /\ next.rejected = request[r].rejected
      /\ next.written = request[r].written
      /\ UNCHANGED <<tree, recorded, live, finished, index, tried>>
  BY <1>1 DEF StartQueueing, Elsewhere, SameBut
<1>3. OneWrites' /\ CommittedWhole' /\ NotYetRecorded'
  BY <1>1, <1>2 DEF OneWrites, CommittedWhole, NotYetRecorded, Writing
<1>4. OwnersCommitted' /\ MovesAreClear'
  BY <1>1, <1>2 DEF OwnersCommitted, MovesAreClear
<1>5. \A f \in Files : f \in next.written => FolderOf[f] \in next.todo
  BY <1>1, <1>2 DEF WrittenFolders
<1>6. HandedOverIsIndexed' /\ AcceptedFolders'
  BY <1>1, <1>2, <1>5 DEF HandedOverIsIndexed, HandedOver, AcceptedFolders, WrittenFolders, NotYetRecorded
<1> QED
  BY <1>3, <1>4, <1>6

LEMMA EnqueueKeeps ==
  ASSUME TypeOK, IntakeInv, NEW r \in Requests, NEW f \in Folders, Enqueue(r, f)
  PROVE  IntakeInv'
<1> USE DEF IntakeInv, Becomes
<1>1. PICK next \in RequestState :
        /\ Becomes(r, next) /\ next.todo = request[r].todo \ {f}
        /\ SameBut(request[r], next, {"todo"})
  BY EnqueueEffect
<1>2. /\ request[r].at = "queueing" /\ next.at = "queueing" /\ next.rejected = request[r].rejected
      /\ next.written = request[r].written
      /\ UNCHANGED <<tree, recorded, finished, index, tried>>
  BY <1>1 DEF Enqueue, SameBut
<1>3. live'[f] # "none" /\ \A g \in Folders : g # f => live'[g] = live[g]
  BY DEF Enqueue, WithRow, TypeOK
<1>4. OneWrites' /\ CommittedWhole' /\ NotYetRecorded'
  BY <1>1, <1>2 DEF OneWrites, CommittedWhole, NotYetRecorded, Writing
<1>5. OwnersCommitted' /\ MovesAreClear'
  BY <1>1, <1>2 DEF OwnersCommitted, MovesAreClear
<1>6. HandedOverIsIndexed' /\ AcceptedFolders'
  BY <1>1, <1>2, <1>3, UploadAssumption
     DEF HandedOverIsIndexed, HandedOver, AcceptedFolders, WrittenFolders, NotYetRecorded
<1> QED
  BY <1>4, <1>5, <1>6

LEMMA AcceptKeeps ==
  ASSUME TypeOK, IntakeInv, NEW r \in Requests, Accept(r)
  PROVE  IntakeInv'
<1> USE DEF IntakeInv, Becomes
<1>1. PICK next \in RequestState :
        Becomes(r, next) /\ next.at = "answered" /\ SameBut(request[r], next, {"at"})
  BY Zenon, AtEffect DEF Accept
<1>2. /\ request[r].at = "queueing" /\ request[r].todo = {} /\ next.rejected = request[r].rejected
      /\ next.written = request[r].written
      /\ UNCHANGED <<tree, live, finished, index, tried>>
  BY <1>1 DEF Accept, Elsewhere, SameBut
<1>3. /\ recorded'[r].outcome = "accepted" /\ recorded'[r].folders = WrittenFolders(r)
      /\ \A q \in Requests : q # r => recorded'[q] = recorded[q]
  BY DEF Accept, Record, TypeOK
<1>4. OneWrites' /\ CommittedWhole' /\ NotYetRecorded'
  BY <1>1, <1>2, <1>3 DEF OneWrites, CommittedWhole, NotYetRecorded, Writing
<1>5. OwnersCommitted' /\ MovesAreClear'
  BY <1>1, <1>2, <1>3 DEF OwnersCommitted, MovesAreClear
<1>6. HandedOverIsIndexed'
  BY <1>1, <1>2, <1>3 DEF HandedOverIsIndexed, HandedOver
<1>7. AcceptedFolders'
  BY <1>1, <1>2, <1>3 DEF AcceptedFolders, WrittenFolders
<1> QED
  BY <1>4, <1>5, <1>6, <1>7

LEMMA WorkKeeps ==
  ASSUME TypeOK, IntakeInv, NEW f \in Folders, Deliver(f) \/ Claim(f) \/ Complete(f) \/ GiveUp(f)
  PROVE  IntakeInv'
<1>1. UNCHANGED <<tree, request, recorded>>
  BY DEF Deliver, Claim, Complete, GiveUp, JobEnds
<1>2. HandedOverIsIndexed'
  <2>1. CASE Deliver(f) \/ Claim(f)
    <3>1. live'[f] # "none" /\ \A g \in Folders : g # f => live'[g] = live[g]
      BY <2>1 DEF Deliver, Claim, WithRow, TypeOK
    <3>2. UNCHANGED <<index, tried, finished>>
      BY <2>1 DEF Deliver, Claim
    <3> QED
      BY <1>1, <3>1, <3>2, UploadAssumption DEF IntakeInv, HandedOverIsIndexed, HandedOver
  <2>2. CASE Complete(f)
    <3>1. /\ \A g \in Files : /\ index'[g] = IF FolderOf[g] = f THEN tree[g] ELSE index[g]
                             /\ tried'[g] = IF FolderOf[g] = f THEN tree[g] ELSE tried[g]
          /\ \A e \in Folders : e # f => live'[e] = live[e] /\ finished'[e] = finished[e]
      BY <2>2 DEF Complete, JobEnds, TypeOK
    <3> QED
      BY <1>1, <3>1, UploadAssumption DEF IntakeInv, HandedOverIsIndexed, HandedOver
  <2>3. CASE GiveUp(f)
    <3>1. /\ "failed" \in finished'[f] /\ index' = index
          /\ \A g \in Files : tried'[g] = IF FolderOf[g] = f THEN tree[g] ELSE tried[g]
          /\ \A e \in Folders : e # f => live'[e] = live[e] /\ finished'[e] = finished[e]
      BY <2>3 DEF GiveUp, JobEnds, TypeOK
    <3> QED
      BY <1>1, <3>1, UploadAssumption DEF IntakeInv, HandedOverIsIndexed, HandedOver
  <2> QED
    BY <2>1, <2>2, <2>3
<1> QED
  BY <1>1, <1>2 DEF IntakeInv, OneWrites, NotYetRecorded, CommittedWhole, OwnersCommitted, MovesAreClear,
     AcceptedFolders, Writing, WrittenFolders

LEMMA CrashKeeps ==
  ASSUME TypeOK, IntakeInv, NEW died, Crash(died)
  PROVE  IntakeInv'
<1> USE DEF IntakeInv
<1>1. /\ request' \in [Requests -> RequestState]
      /\ \A r \in Requests :
           \/ request'[r] = request[r]
           \/ request'[r].at = "dead" /\ SameBut(request[r], request'[r], {"at"})
  BY CrashEffect
<1>2. UNCHANGED <<tree, live, finished, index, tried, recorded>>
  BY DEF Crash
<1>3. \A r \in Requests :
        /\ request'[r].rejected = request[r].rejected /\ request'[r].written = request[r].written
        /\ request'[r].todo = request[r].todo /\ request'[r].mode = request[r].mode
        /\ request'[r].at = request[r].at \/ request'[r].at = "dead"
  BY <1>1 DEF SameBut
<1>4. OneWrites' /\ CommittedWhole' /\ NotYetRecorded'
  BY <1>2, <1>3 DEF OneWrites, CommittedWhole, NotYetRecorded, Writing
<1>5. OwnersCommitted' /\ MovesAreClear'
  BY <1>2, <1>3 DEF OwnersCommitted, MovesAreClear
<1>6. HandedOverIsIndexed' /\ AcceptedFolders'
  BY <1>2, <1>3 DEF HandedOverIsIndexed, HandedOver, AcceptedFolders, WrittenFolders
<1> QED
  BY <1>4, <1>5, <1>6

(* Every step keeps the invariant.                                          *)
LEMMA NextKeeps == TypeOK /\ IntakeInv /\ [Next]_vars => IntakeInv'
<1> SUFFICES ASSUME TypeOK, IntakeInv, [Next]_vars
             PROVE  IntakeInv'
  OBVIOUS
<1>1. CASE UNCHANGED vars
  BY <1>1 DEF vars, IntakeInv, OneWrites, NotYetRecorded, CommittedWhole, OwnersCommitted, MovesAreClear,
     HandedOverIsIndexed, HandedOver, AcceptedFolders, Writing, WrittenFolders
<1>2. CASE Next
  BY Zenon, <1>2, StreamKeeps, RefuseKeeps, CommitKeeps, MoveKeeps, MoveFailsKeeps, StartKeeps,
     EnqueueKeeps, AcceptKeeps, WorkKeeps, CrashKeeps DEF Next
<1> QED
  BY <1>1, <1>2

(* For any requests, files and folders the uploads keep their types.        *)
THEOREM UploadsTyped == Spec => []TypeOK
<1>1. Init => TypeOK
  BY InitTyped
<1>2. TypeOK /\ [Next]_vars => TypeOK'
  BY NextTyped
<1> QED
  BY <1>1, <1>2, PTL DEF Spec

LEMMA UploadsInv == Spec => [](TypeOK /\ IntakeInv)
<1>1. Init => TypeOK /\ IntakeInv
  BY InitTyped, InitIntake
<1>2. TypeOK /\ IntakeInv /\ [Next]_vars => (TypeOK /\ IntakeInv)'
  BY NextTyped, NextKeeps
<1> QED
  BY <1>1, <1>2, PTL DEF Spec

(* All or nothing: no request that was refused or met a collision owns a    *)
(* file of the source tree, however many run side by side.                  *)
THEOREM RefusedOwnNothing == Spec => []RefusedWritesNothing
<1>1. TypeOK /\ IntakeInv => RefusedWritesNothing
  BY DEF IntakeInv, OwnersCommitted, RefusedWritesNothing
<1> QED
  BY <1>1, UploadsInv, PTL

(* Never a silent overwrite: a step that puts a request's file over another *)
(* one belongs to a request that asked for it.                              *)
THEOREM ReplacesOnlyIfAsked == Spec => OnlyReplaceOverwrites
<1> DEFINE Asked == \A r \in Requests, f \in Files :
      tree[f] # Nobody /\ tree'[f] = r /\ tree[f] # r => request[r].mode = "replace"
<1>1. TypeOK /\ IntakeInv /\ [Next]_vars => [Asked]_vars
  <2> SUFFICES ASSUME TypeOK, IntakeInv, Next,
                      NEW r \in Requests, NEW f \in Files,
                      tree[f] # Nobody, tree'[f] = r, tree[f] # r
               PROVE  request[r].mode = "replace"
    OBVIOUS
  <2>1. PICK q \in Requests, g \in Files : Move(q, g)
    <3>1. tree' # tree
      OBVIOUS
    <3> QED
      BY <3>1 DEF Next, Begin, RefuseAtDoor, Refuse, Conflict, Commit, MoveFails, StartQueueing, Accept,
         Stage, Reject, Enqueue, Deliver, Claim, Complete, GiveUp, JobEnds, Crash
  <2>2. q = r /\ g = f /\ request[r].at = "moving" /\ f \in request[r].todo
    BY <2>1 DEF Move, TypeOK
  <2> QED
    BY <2>2 DEF IntakeInv, MovesAreClear
<1> QED
  BY <1>1, UploadsInv, PTL DEF Spec, OnlyReplaceOverwrites

(* An upload that is shown as done is indexed, file by file, unless a later *)
(* upload replaced the file.                                                *)
THEOREM ShownDoneIsIndexed == Spec => []DoneIsTrue
<1>1. TypeOK /\ IntakeInv => DoneIsTrue
  <2> SUFFICES ASSUME TypeOK, IntakeInv, NEW r \in Requests, Status(r) = "done",
                      NEW f \in request[r].written, tree[f] = r
               PROVE  index[f] = r
    BY DEF DoneIsTrue
  <2>1. recorded[r].outcome = "accepted"
    BY DEF Status, TypeOK
  <2>2. f \in Files /\ FolderOf[f] \in recorded[r].folders /\ FolderOf[f] \in Folders
    BY <2>1, RowTyped, UploadAssumption DEF IntakeInv, AcceptedFolders, WrittenFolders, RequestState
  <2>3. live[FolderOf[f]] \in Statuses(r) /\ finished[FolderOf[f]] \subseteq Statuses(r)
    BY <2>2 DEF Statuses
  <2>4. /\ "failed" \notin Statuses(r) /\ "processing" \notin Statuses(r)
        /\ "pending" \notin Statuses(r)
    BY <2>1 DEF Status
  <2>5. live[FolderOf[f]] = "none" /\ "failed" \notin finished[FolderOf[f]]
    BY <2>2, <2>3, <2>4 DEF TypeOK
  <2> QED
    BY <2>1, <2>2, <2>5 DEF IntakeInv, HandedOverIsIndexed, HandedOver
<1> QED
  BY <1>1, UploadsInv, PTL

(* What has not been read yet was uploaded, and is waiting or was lost.     *)
WaitsOrLost ==
  \A f \in Files :
    tried[f] # tree[f] =>
      /\ tree[f] \in Requests
      /\ live[FolderOf[f]] # "none" \/ FolderOf[f] \in events \/ FolderOf[f] \in lost

LEMMA WaitingStays ==
  ASSUME TypeOK, WaitsOrLost, [Next]_vars
  PROVE  WaitsOrLost'
<1> USE UploadAssumption DEF WaitsOrLost, TypeOK
<1>1. ASSUME UNCHANGED <<tree, tried, live, events, lost>>
      PROVE  WaitsOrLost'
  BY <1>1
<1>2. ASSUME NEW r \in Requests, NEW f \in Files, Move(r, f)
      PROVE  WaitsOrLost'
  BY <1>2 DEF Move
<1>3. ASSUME NEW r \in Requests, NEW f \in Folders, Enqueue(r, f)
      PROVE  WaitsOrLost'
  BY <1>3 DEF Enqueue, WithRow
<1>4. ASSUME NEW f \in Folders, Deliver(f) \/ Claim(f)
      PROVE  WaitsOrLost'
  BY <1>4 DEF Deliver, Claim, WithRow
<1>5. ASSUME NEW f \in Folders, NEW status \in {"done", "failed"}, JobEnds(f, status)
      PROVE  WaitsOrLost'
  BY <1>5 DEF JobEnds
<1>6. ASSUME NEW died, Crash(died)
      PROVE  WaitsOrLost'
  BY <1>6 DEF Crash
<1>7. \/ UNCHANGED <<tree, tried, live, events, lost>>
      \/ \E r \in Requests : \/ \E f \in Files : Move(r, f)
                             \/ \E f \in Folders : Enqueue(r, f)
      \/ \E f \in Folders : \/ Deliver(f) \/ Claim(f)
                            \/ JobEnds(f, "done") \/ JobEnds(f, "failed")
      \/ \E died : Crash(died)
  <2>1. ASSUME NEW r \in Requests, NEW f \in Files, Stage(r, f) \/ Reject(r, f)
        PROVE  UNCHANGED <<tree, tried, live, events, lost>>
    BY <2>1, Zenon DEF Stage, Reject, Elsewhere
  <2>2. ASSUME NEW r \in Requests, NEW files, NEW mode, Begin(r, files, mode)
        PROVE  UNCHANGED <<tree, tried, live, events, lost>>
    BY <2>2, Zenon DEF Begin, Elsewhere
  <2>3. ASSUME NEW r \in Requests,
               \/ RefuseAtDoor(r) \/ Refuse(r) \/ Conflict(r) \/ Commit(r) \/ MoveFails(r)
               \/ StartQueueing(r) \/ Accept(r)
        PROVE  UNCHANGED <<tree, tried, live, events, lost>>
    BY <2>3, Zenon DEF RefuseAtDoor, Refuse, Conflict, Commit, MoveFails, StartQueueing, Accept, Elsewhere
  <2>4. ASSUME NEW f \in Folders, Complete(f) \/ GiveUp(f)
        PROVE  JobEnds(f, "done") \/ JobEnds(f, "failed")
    BY <2>4, Zenon DEF Complete, GiveUp
  <2>5. CASE UNCHANGED vars
    BY <2>5, Zenon DEF vars
  <2> QED
    BY <2>1, <2>2, <2>3, <2>4, <2>5, Zenon DEF Next
<1> QED
  BY <1>1, <1>2, <1>3, <1>4, <1>5, <1>6, <1>7

(* A file that arrived is worked on, queued or about to be queued by the    *)
(* watcher, always when its upload was accepted, else unless the watcher    *)
(* died with the event; whatever becomes of the requests (upload_routes).   *)
THEOREM WrittenStaysHandled == Spec => []WrittenIsHandled
<1>1. Init => WaitsOrLost
  BY DEF Init, WaitsOrLost
<1>2. Spec => []WaitsOrLost
  BY <1>1, WaitingStays, UploadsTyped, PTL DEF Spec
<1>3. TypeOK /\ IntakeInv /\ WaitsOrLost => WrittenIsHandled
  <2> SUFFICES ASSUME TypeOK, IntakeInv, WaitsOrLost, NEW f \in Files, tried[f] # tree[f],
                      live[FolderOf[f]] = "none", FolderOf[f] \notin events
               PROVE  /\ FolderOf[f] \in lost
                      /\ \E r \in Requests : tree[f] = r /\ recorded[r].outcome # "accepted"
    BY DEF WrittenIsHandled
  <2>1. tree[f] \in Requests /\ FolderOf[f] \in lost
    BY DEF WaitsOrLost
  <2>2. f \in request[tree[f]].written
    BY <2>1 DEF IntakeInv, OwnersCommitted
  <2>3. ~HandedOver(tree[f], f)
    BY <2>1, <2>2 DEF IntakeInv, HandedOverIsIndexed
  <2> QED
    BY <2>1, <2>3 DEF HandedOver
<1> QED
  BY <1>2, <1>3, UploadsInv, PTL
=============================================================================
