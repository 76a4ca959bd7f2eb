---------------------------- MODULE MirroredTree ----------------------------
(***************************************************************************)
(* What ingestion promises, with no queue, stages or copies: what a search *)
(* shows of a folder changes only to what the folder holds at that moment. *)
(* Nothing is shown that the folder did not hold, a folder is hidden only  *)
(* while it is absent, and nothing older comes back.                       *)
(***************************************************************************)
EXTENDS Naturals

CONSTANT Folders

VARIABLES
  tree,    \* content of each folder in the source tree, 0 when it is absent
  shown    \* content a search shows of the folder, 0 for none

Init == tree = [f \in Folders |-> 0] /\ shown = [f \in Folders |-> 0]

(* Somebody changes the source tree: a move changes two folders at once.    *)
Edit == tree' \in [Folders -> Nat] /\ UNCHANGED shown

Refresh(f) == shown' = [shown EXCEPT ![f] = tree[f]] /\ UNCHANGED tree

Next == Edit \/ \E f \in Folders : Refresh(f)

Spec == Init /\ [][Next]_<<tree, shown>>
=============================================================================
