---------------------------- MODULE FolderLease ----------------------------
(***************************************************************************)
(* What the work queue promises, with no rows, clocks or back-offs: every  *)
(* folder with outstanding work is leased to at most one worker at a time; *)
(* the lease ends only by the holder's own hand, or, after the holder      *)
(* died, by being handed out again.  Work is never dropped while a folder  *)
(* waits or is orphaned: only its holder can clear it.                     *)
(***************************************************************************)
CONSTANTS Paths, Workers   \* no worker is named "clear", "waiting" or "orphaned"

VARIABLE lease   \* per folder: "clear", "waiting", "orphaned", or its holder

LeaseTypeOK == lease \in [Paths -> {"clear", "waiting", "orphaned"} \cup Workers]

Init == lease = [p \in Paths |-> "clear"]

Idle(w) == \A p \in Paths : lease[p] # w

Request(p) ==
  /\ lease[p] = "clear"
  /\ lease' = [lease EXCEPT ![p] = "waiting"]

Take(w, p) ==
  /\ Idle(w) /\ lease[p] = "waiting"
  /\ lease' = [lease EXCEPT ![p] = w]

Finish(w, p) ==
  /\ lease[p] = w
  /\ lease' = [lease EXCEPT ![p] = "clear"]

GiveBack(w, p) ==
  /\ lease[p] = w
  /\ lease' = [lease EXCEPT ![p] = "waiting"]

Die(w, p) ==
  /\ lease[p] = w
  /\ lease' = [lease EXCEPT ![p] = "orphaned"]

(* Any set of orphaned folders is handed out again, in one step.            *)
Reclaim ==
  \E S \in SUBSET {p \in Paths : lease[p] = "orphaned"} :
    lease' = [p \in Paths |-> IF p \in S THEN "waiting" ELSE lease[p]]

Next ==
  \/ \E p \in Paths : Request(p)
  \/ \E w \in Workers, p \in Paths :
       Take(w, p) \/ Finish(w, p) \/ GiveBack(w, p) \/ Die(w, p)
  \/ Reclaim

Spec == Init /\ [][Next]_lease
=============================================================================
