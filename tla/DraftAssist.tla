------------------------------ MODULE DraftAssist ------------------------------
(***************************************************************************)
(* What build_draft (retrieval/generation/assist.py) does with the output  *)
(* of the drafting model, and what build_docx prints of a draft.  Texts    *)
(* are reduced to what the code tells apart: whether a part says anything, *)
(* which sources are cited, what a gap is about.                           *)
(***************************************************************************)
EXTENDS FiniteSets, Naturals

CONSTANTS
  Docs,        \* past replies
  Attached,    \* supporting documents
  Labels,      \* part labels of the question
  Bodies,      \* what a part may hold: "text", "table", "headless", "blank"
  Invented,    \* a citation of nothing that was given to the model
  NoLabel,     \* "", the label of a part or gap that names no part
  MaxParts,    \* bound: parts in one output
  MaxNotes     \* bound: key points, contradictions and gaps in one output

ASSUME DraftAssumption ==
  /\ Invented \notin Docs \cup Attached /\ NoLabel \notin Labels
  /\ Docs \cap Attached = {} /\ MaxParts \in Nat /\ MaxNotes \in Nat
  /\ Bodies \subseteq {"text", "table", "headless", "blank"}

Cites == Docs \cup Attached \cup {Invented}
AtMost(n, S) == {T \in SUBSET S : Cardinality(T) <= n}

(* A part says something, shows a table, shows rows without columns, or     *)
(* nothing, and cites whatever it likes; a gap speaks of its part's subject, *)
(* of one attached document or of "attached" ones.                          *)
Part == [label: Labels \cup {NoLabel}, body: Bodies, cites: AtMost(1, Cites)]
Gap == [part: Labels \cup {NoLabel}, about: {"the subject", "attached"} \cup Attached]

(* An answer that was cut off is repaired into one with fewer arrays, so it *)
(* is an output like any other; what is no JSON is no output.               *)
Output == {o \in [parts: AtMost(MaxParts, Part), points: AtMost(MaxNotes, Cites),
                  contrary: AtMost(MaxNotes, Cites), gaps: AtMost(MaxNotes, Gap)] :
             Cardinality(o.points) + Cardinality(o.contrary) + Cardinality(o.gaps) <= MaxNotes}
Usable(o) == o.parts # {}

(* Mutant: the key points are taken as they are.                            *)
Verified_PartsOnly(o, allowed) ==
  [o EXCEPT !.parts = {[p EXCEPT !.cites = @ \cap allowed] : p \in o.parts}]

(* The citations of parts and key points are cleaned; those of a            *)
(* contradiction are not.                                                   *)
Verified(o, allowed) ==
  [o EXCEPT !.parts = {[p EXCEPT !.cites = @ \cap allowed] : p \in o.parts},
            !.points = @ \cap allowed]

IsEmpty(p) == p.body = "blank"

EmptyMoved(o) ==
  LET moved == {p.label : p \in {q \in o.parts : IsEmpty(q)}}
      have == {g.part : g \in o.gaps}
  IN [o EXCEPT !.parts = {p \in @ : ~IsEmpty(p)},
               !.gaps = @ \cup {[part |-> x, about |-> "the subject"] : x \in moved \ have}]

Cited(o) == (UNION {p.cites : p \in o.parts}) \cup o.points \cup o.contrary

(* A gap that speaks of "attached" documents excuses every one of them.     *)
Mentioned(o, a) == \E g \in o.gaps : g.about \in {"attached", a}
Unused(o, given) == {a \in given : a \notin Cited(o) /\ ~Mentioned(o, a)}

(* The flag of one document is a gap that says "attached document", so the  *)
(* list is made from the gaps as they were.                                 *)
Flagged(o, given) ==
  [o EXCEPT !.gaps = @ \cup {[part |-> NoLabel, about |-> a] : a \in Unused(o, given)}]

(* Mutant: unused documents are flagged before the empty parts are moved.   *)
Draft_FlagsFirst(o, replies, given) ==
  LET clean == Verified(o, replies \cup given)
      checked == EmptyMoved(Flagged(clean, given)) IN
  [parts |-> checked.parts, points |-> checked.points, contrary |-> checked.contrary,
   gaps |-> checked.gaps, unused |-> Unused(clean, given)]

Draft(o, replies, given) ==
  LET checked == EmptyMoved(Verified(o, replies \cup given)) IN
  [parts |-> checked.parts, points |-> checked.points, contrary |-> checked.contrary,
   gaps |-> Flagged(checked, given).gaps, unused |-> Unused(checked, given)]

(* A table is printed if it has columns and rows.                           *)
Printed(draft) == {p \in draft.parts : p.body \in {"text", "table"}}
=============================================================================
