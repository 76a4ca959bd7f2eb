--------------------------- MODULE OfficerDeskProofs ---------------------------
(***************************************************************************)
(* Theorems about OfficerDesk, for any number of request threads, searches, *)
(* replies and attached documents, and for any output of the model.         *)
(***************************************************************************)
EXTENDS OfficerDesk, TLAPS

(* What becomes of an output.                                               *)
LEMMA DraftOf ==
  ASSUME NEW o \in Output, NEW replies, NEW given
  PROVE  LET draft == Draft(o, replies, given) IN
         /\ \A p \in draft.parts : ~IsEmpty(p) /\ p.cites \subseteq replies \cup given
         /\ draft.points \subseteq replies \cup given
         /\ \A q \in o.parts : (\E p \in draft.parts : p.label = q.label) \/ (\E g \in draft.gaps : g.part = q.label)
         /\ \A a \in given : a \in Cited(draft) \/ Mentioned(draft, a)
<1> DEFINE allowed == replies \cup given
           cleaned == Verified(o, allowed)
           checked == EmptyMoved(cleaned)
           draft == Draft(o, replies, given)
           clean(p) == [p EXCEPT !.cites = @ \cap allowed]
           moved == {p.label : p \in {q \in cleaned.parts : IsEmpty(q)}}
           new == {[part |-> x, about |-> "the subject"] : x \in moved \ {g.part : g \in cleaned.gaps}}
           flags == {[part |-> NoLabel, about |-> a] : a \in Unused(checked, given)}
<1>1. o \in [parts: SUBSET Part, points: SUBSET Cites, contrary: SUBSET Cites, gaps: SUBSET Gap]
  BY DEF Output, AtMost
<1>2. \A p \in o.parts : /\ clean(p).cites \subseteq allowed /\ clean(p).label = p.label
                         /\ IsEmpty(clean(p)) <=> IsEmpty(p)
  <2>1. o.parts \subseteq Part
    BY <1>1
  <2>2. \A p \in o.parts : p \in [label: Labels \cup {NoLabel}, body: Bodies, cites: AtMost(1, Cites)]
    BY <2>1 DEF Part
  <2> QED BY <2>2 DEF IsEmpty
<1>3. cleaned = [o EXCEPT !.parts = {clean(p) : p \in o.parts}, !.points = o.points \cap allowed]
  BY Zenon DEF Verified
<1> HIDE DEF clean
<1>4. /\ cleaned.parts = {clean(p) : p \in o.parts} /\ cleaned.points = o.points \cap allowed
      /\ cleaned \in [parts: SUBSET {clean(p) : p \in o.parts}, points: SUBSET Cites,
                      contrary: SUBSET Cites, gaps: SUBSET Gap]
  BY <1>1, <1>3
<1>5. checked = [cleaned EXCEPT !.parts = {p \in cleaned.parts : ~IsEmpty(p)}, !.gaps = cleaned.gaps \cup new]
  BY Zenon DEF EmptyMoved
<1> HIDE DEF cleaned, new
<1>6. /\ checked.parts = {p \in cleaned.parts : ~IsEmpty(p)} /\ checked.gaps = cleaned.gaps \cup new
      /\ checked.points = cleaned.points /\ checked.contrary = cleaned.contrary
  BY <1>4, <1>5
<1>7. /\ draft.parts = checked.parts /\ draft.points = checked.points /\ draft.contrary = checked.contrary
      /\ draft.gaps = Flagged(checked, given).gaps /\ draft.unused = Unused(checked, given)
  BY DEF Draft, cleaned
<1>8. draft.gaps = checked.gaps \cup flags
  <2>1. Flagged(checked, given) = [checked EXCEPT !.gaps = checked.gaps \cup flags]
    BY Zenon DEF Flagged
  <2>2. checked = [cleaned EXCEPT !.parts = {p \in cleaned.parts : ~IsEmpty(p)}, !.gaps = cleaned.gaps \cup new]
    BY <1>5
  <2>3. Flagged(checked, given).gaps = checked.gaps \cup flags
    BY <1>4, <2>1, <2>2
  <2> QED BY <1>7, <2>3
<1> HIDE DEF checked, draft, allowed
<1>9. \A p \in draft.parts : ~IsEmpty(p) /\ p.cites \subseteq replies \cup given
  BY <1>2, <1>4, <1>6, <1>7 DEF allowed
<1>10. draft.points \subseteq replies \cup given
  BY <1>4, <1>6, <1>7 DEF allowed
<1>11. ASSUME NEW q \in o.parts
       PROVE  (\E p \in draft.parts : p.label = q.label) \/ (\E g \in draft.gaps : g.part = q.label)
  <2>1. clean(q) \in cleaned.parts /\ clean(q).label = q.label
    BY <1>2, <1>4
  <2>2. CASE ~IsEmpty(clean(q))
    BY <1>6, <1>7, <2>1, <2>2
  <2>3. CASE IsEmpty(clean(q))
    <3>1. q.label \in {p.label : p \in {r \in cleaned.parts : IsEmpty(r)}}
      BY <2>1, <2>3
    <3>2. CASE \E g \in cleaned.gaps : g.part = q.label
      BY <1>6, <1>8, <3>2
    <3>3. CASE ~ \E g \in cleaned.gaps : g.part = q.label
      <4> DEFINE gap == [part |-> q.label, about |-> "the subject"]
      <4>1. gap \in new
        BY <3>1, <3>3 DEF new
      <4>2. gap.part = q.label
        OBVIOUS
      <4> HIDE DEF gap
      <4> QED BY <1>6, <1>8, <4>1, <4>2
    <3> QED BY <3>2, <3>3
  <2> QED BY <2>2, <2>3
<1>12. ASSUME NEW a \in given
       PROVE  a \in Cited(draft) \/ Mentioned(draft, a)
  <2>1. Cited(draft) = Cited(checked)
    BY <1>7 DEF Cited
  <2>2. Mentioned(checked, a) => Mentioned(draft, a)
    BY <1>8 DEF Mentioned
  <2>3. CASE a \in Unused(checked, given)
    <3> DEFINE flag == [part |-> NoLabel, about |-> a]
    <3>1. flag \in draft.gaps /\ flag.about = a
      BY <1>8, <2>3
    <3> HIDE DEF flag
    <3> QED BY <3>1 DEF Mentioned
  <2> QED BY <1>7, <2>1, <2>2, <2>3 DEF Unused
<1> QED BY <1>9, <1>10, <1>11, <1>12 DEF draft

-----------------------------------------------------------------------------
(* A step leaves the drafts, drops some, or makes one.                      *)
LEMMA DraftedSteps ==
  ASSUME [Next]_vars
  PROVE  \/ drafted' \subseteq drafted
         \/ \E r \in Requests, o \in Output :
              drafted' = {[by |-> r, run |-> request[r].run, given |-> request[r].given,
                           labels |-> {p.label : p \in o.parts},
                           draft |-> Draft(o, request[r].results, request[r].given)]}
<1>1. ASSUME NEW r \in Requests, Ask(r)
      PROVE  drafted' = drafted
  BY <1>1 DEF Ask, Search, AskVote, AskDraft, Enter
<1>2. ASSUME NEW r \in Requests, Proceed(r)
      PROVE  drafted' \subseteq drafted
  BY <1>2 DEF Proceed, BeginTrace, TraceRow, TraceFails, EndTrace, CheckRun, CheckShown, StoreVote, ReadRun,
     ReadResults, ReadAttached, Pace, Send, AskAgain, NoAnswer, Deliver, Only
<1>3. ASSUME NEW d, Retire(d) \/ Purge(d)
      PROVE  drafted' = drafted
  BY <1>3 DEF Retire, Purge
<1>4. CASE WindowPasses \/ UNCHANGED vars
  BY <1>4 DEF WindowPasses, vars
<1>5. ASSUME NEW r \in Requests, Answer(r)
      PROVE  \/ drafted' \subseteq drafted
             \/ \E o \in Output :
               drafted' = {[by |-> r, run |-> request[r].run, given |-> request[r].given,
                            labels |-> {p.label : p \in o.parts},
                            draft |-> Draft(o, request[r].results, request[r].given)]}
  BY <1>5, Zenon DEF Answer
<1> QED BY <1>1, <1>2, <1>3, <1>4, <1>5 DEF Next

(* What is asked of a draft follows from what build_draft does to an output. *)
LEMMA NextDrafts ==
  ASSUME NothingVanishes, [Next]_vars
  PROVE  NothingVanishes'
<1>1. CASE drafted' \subseteq drafted
  BY <1>1 DEF NothingVanishes
<1>2. ASSUME NEW r \in Requests, NEW o \in Output,
             drafted' = {[by |-> r, run |-> request[r].run, given |-> request[r].given,
                          labels |-> {p.label : p \in o.parts},
                          draft |-> Draft(o, request[r].results, request[r].given)]}
      PROVE  NothingVanishes'
  <2> DEFINE R == request[r].results
             G == request[r].given
             draft == Draft(o, R, G)
             labels == {p.label : p \in o.parts}
  <2>1. /\ \A p \in draft.parts : ~IsEmpty(p)
        /\ \A q \in o.parts : (\E p \in draft.parts : p.label = q.label) \/ (\E g \in draft.gaps : g.part = q.label)
        /\ \A a \in G : a \in Cited(draft) \/ Mentioned(draft, a)
    BY DraftOf
  <2>2. \A x \in labels : (\E p \in draft.parts : p.label = x) \/ (\E g \in draft.gaps : g.part = x)
    BY <2>1
  <2> HIDE DEF draft, G, labels
  <2>3. \A m \in drafted' : m.given = G /\ m.labels = labels /\ m.draft = draft
    BY <1>2 DEF draft, G, labels
  <2> QED BY <2>1, <2>2, <2>3 DEF NothingVanishes
<1> QED BY <1>1, <1>2, DraftedSteps

(* Whatever the model leaves out, the draft has no empty part, every label  *)
(* it emitted is answered or a gap, and every document it was given is      *)
(* cited or spoken of by the finished draft (_empty_parts_become_gaps,      *)
(* _flag_unused_docs).                                                      *)
THEOREM NothingIsLost == Spec => []NothingVanishes
<1>1. Init => NothingVanishes
  BY DEF Init, NothingVanishes
<1>2. NothingVanishes /\ [Next]_vars => NothingVanishes'
  BY NextDrafts
<1> QED BY <1>1, <1>2, PTL DEF Spec

-----------------------------------------------------------------------------
(* What is known of the transaction on the connection: it belongs to the    *)
(* one request that stores its search, and whatever it replaces has the     *)
(* votes and drafts there are now, unless other statements may fall into it. *)
LooseTables == [runs: SUBSET (Runs \cup {NoRun}), shown: [Runs -> SUBSET (Docs \cup Attached)],
                votes: [Runs \X Targets -> Vote], drafts: SUBSET (Runs \cup {NoRun})]
Stages == {"idle", "found", "storing", "voting", "checking", "storing vote", "drafting", "reading",
           "attaching", "asking", "sending", "waiting", "made"}
LooseRequest == [at: Stages, run: Runs \cup {NoRun}, doc: Targets, vote: Vote,
                 results: SUBSET (Docs \cup Attached), given: SUBSET Attached, tries: Nat]

DeskTypes ==
  /\ DOMAIN index = Docs \cup Attached
  /\ tables \in LooseTables /\ tx.before \subseteq LooseTables
  /\ tx \in [by: Requests \cup {Nobody}, before: SUBSET LooseTables]
  /\ request \in [Requests -> LooseRequest]
  /\ acked \in [votes: [Runs \X Targets -> Vote], drafts: SUBSET (Runs \cup {NoRun})]

Shared == "shared transactions" \in Upsets
TransactionInv ==
  /\ tx.by = Nobody => tx.before = {}
  /\ \A r \in Requests : At(r, "storing") => tx.by = r
  /\ Shared \/ \A t \in tx.before : t.votes = tables.votes /\ t.drafts = tables.drafts
Kept == Shared \/ AckedIsKept

DeskInv == DeskTypes /\ TransactionInv /\ Kept

LEMMA IdleIsLoose == Idle \in LooseRequest /\ Idle.at = "idle"
<1>1. "none" \in Vote /\ {} \in Targets /\ "idle" \in Stages /\ NoRun \in Runs \cup {NoRun} /\ 0 \in Nat
  BY DEF Vote, Stages, Targets
<1>2. Idle = [at |-> "idle", run |-> NoRun, doc |-> {}, vote |-> "none", results |-> {}, given |-> {}, tries |-> 0]
  BY Zenon DEF Idle
<1> HIDE DEF Vote
<1> QED BY <1>1, <1>2 DEF LooseRequest

LEMMA InitDesk == Init => DeskInv
<1> SUFFICES ASSUME Init PROVE DeskInv
  OBVIOUS
<1>1. tables \in LooseTables /\ acked \in [votes: [Runs \X Targets -> Vote], drafts: SUBSET (Runs \cup {NoRun})]
  BY DEF Init, LooseTables, Vote
<1>2. tx.by = Nobody /\ tx.before = {} /\ tx \in [by: Requests \cup {Nobody}, before: SUBSET LooseTables]
  BY DEF Init, Closed
<1>3. request \in [Requests -> LooseRequest] /\ \A r \in Requests : request[r].at = "idle"
  BY IdleIsLoose DEF Init
<1>4. DeskTypes
  BY <1>1, <1>2, <1>3 DEF DeskTypes, Init
<1>5. TransactionInv
  BY <1>2, <1>3 DEF TransactionInv, At
<1>6. Kept
  BY DEF Init, AckedIsKept, Kept
<1> QED BY <1>4, <1>5, <1>6 DEF DeskInv

(* Steps that only change what a request is at.                             *)
LEMMA OnlyRequest ==
  ASSUME DeskInv, UNCHANGED <<index, tables, tx, acked>>, request' \in [Requests -> LooseRequest],
         \A r \in Requests : request'[r].at = "storing" => request[r].at = "storing"
  PROVE  DeskInv'
BY DEF DeskInv, DeskTypes, TransactionInv, Kept, AckedIsKept, Lost, At

LEMMA GoesTo ==
  ASSUME DeskInv, NEW r \in Requests, NEW next \in LooseRequest, request' = [request EXCEPT ![r] = next]
  PROVE  /\ request' \in [Requests -> LooseRequest]
         /\ \A q \in Requests : q # r => request'[q] = request[q]
         /\ request'[r] = next
BY DEF DeskInv, DeskTypes

LEMMA Stays ==
  ASSUME DeskInv, NEW r \in Requests, NEW stage \in Stages, Goto(r, stage)
  PROVE  /\ request' \in [Requests -> LooseRequest]
         /\ \A q \in Requests : q # r => request'[q] = request[q]
         /\ request'[r].at = stage
<1> DEFINE next == [request[r] EXCEPT !.at = stage]
<1>1. next \in LooseRequest /\ next.at = stage
  BY DEF DeskInv, DeskTypes, LooseRequest
<1>2. request' = [request EXCEPT ![r] = next]
  BY Zenon DEF Goto
<1> HIDE DEF next
<1> QED BY <1>1, <1>2, GoesTo

LEMMA Leaves ==
  ASSUME DeskInv, NEW r \in Requests, Leave(r)
  PROVE  /\ request' \in [Requests -> LooseRequest]
         /\ \A q \in Requests : q # r => request'[q] = request[q]
         /\ request'[r].at = "idle"
BY IdleIsLoose, GoesTo DEF Leave

(* Nothing of a vote or a draft is in a transaction that begins or ends.    *)
LEMMA TraceKeeps ==
  ASSUME DeskInv, NEW r \in Requests, BeginTrace(r) \/ TraceRow(r) \/ TraceFails(r) \/ EndTrace(r)
  PROVE  DeskInv'
<1>1. CASE BeginTrace(r)
  <2>1. tx.by = Nobody /\ tx' = [by |-> r, before |-> {tables}] /\ UNCHANGED <<index, acked>>
    BY <1>1 DEF BeginTrace
  <2>2. /\ request' \in [Requests -> LooseRequest]
        /\ \A q \in Requests : q # r => request'[q] = request[q]
    <3>1. Goto(r, "storing")
      BY <1>1 DEF BeginTrace
    <3>2. "storing" \in Stages
      BY DEF Stages
    <3> QED BY <3>1, <3>2, Stays
  <2>3. tables' \in LooseTables /\ tables'.votes = tables.votes /\ tables'.drafts = tables.drafts
    <3>1. tables' = [tables EXCEPT !.runs = tables.runs \cup {request[r].run}]
      BY <1>1, Zenon DEF BeginTrace
    <3>2. request[r].run \in Runs \cup {NoRun}
      BY DEF DeskInv, DeskTypes, LooseRequest
    <3> QED BY <3>1, <3>2 DEF DeskInv, DeskTypes, LooseTables
  <2>4. \A q \in Requests : request[q].at # "storing"
    BY <2>1, DeskAssumption DEF DeskInv, TransactionInv, At
  <2>5. DeskTypes'
    BY <2>1, <2>2, <2>3 DEF DeskInv, DeskTypes
  <2>6. TransactionInv'
    BY <2>1, <2>2, <2>3, <2>4, DeskAssumption DEF TransactionInv, At
  <2>7. Kept'
    BY <2>1, <2>3 DEF DeskInv, Kept, AckedIsKept, Lost
  <2> QED BY <2>5, <2>6, <2>7 DEF DeskInv
<1>2. CASE TraceRow(r)
  <2>1. UNCHANGED <<index, tx, request, acked>>
    BY <1>2 DEF TraceRow
  <2>2. PICK d \in Missing(r) : tables' = [tables EXCEPT !.shown[request[r].run] = @ \cup {d}]
    BY <1>2, Zenon DEF TraceRow
  <2>3. d \in Docs \cup Attached
    BY <2>2 DEF Missing, DeskInv, DeskTypes, LooseRequest
  <2>4. tables' \in LooseTables /\ tables'.votes = tables.votes /\ tables'.drafts = tables.drafts
    BY <2>2, <2>3 DEF DeskInv, DeskTypes, LooseTables
  <2> QED BY <2>1, <2>4 DEF DeskInv, DeskTypes, TransactionInv, Kept, AckedIsKept, Lost, At
<1>3. CASE TraceFails(r) \/ EndTrace(r)
  <2>1. request[r].at = "storing" /\ tx' = Closed /\ UNCHANGED <<index, acked>>
    BY <1>3 DEF TraceFails, EndTrace, At
  <2>2. tables' \in tx.before \/ tables' = tables
    BY <1>3 DEF TraceFails, EndTrace
  <2>3. /\ tables' \in LooseTables
        /\ Shared \/ (tables'.votes = tables.votes /\ tables'.drafts = tables.drafts)
    BY <2>2 DEF DeskInv, DeskTypes, TransactionInv
  <2>4. /\ request' \in [Requests -> LooseRequest]
        /\ \A q \in Requests : q # r => request'[q] = request[q]
        /\ request'[r].at = "idle"
    BY <1>3, Leaves DEF TraceFails, EndTrace
  <2>5. \A q \in Requests : request'[q].at # "storing"
    BY <2>1, <2>4 DEF DeskInv, TransactionInv, At
  <2> QED BY <2>1, <2>3, <2>4, <2>5 DEF DeskInv, DeskTypes, TransactionInv, Kept, AckedIsKept, Lost, At, Closed
<1> QED BY <1>1, <1>2, <1>3

(* A vote or an audit row is written while no transaction is open, unless   *)
(* statements are shared, and the officer is told what was written.         *)
LEMMA WriteKeeps ==
  ASSUME DeskInv, NEW r \in Requests, StoreVote(r) \/ Deliver(r)
  PROVE  DeskInv'
<1> DEFINE TypesKept == /\ tables' \in LooseTables
                        /\ acked' \in [votes: [Runs \X Targets -> Vote], drafts: SUBSET (Runs \cup {NoRun})]
<1>1. /\ UNCHANGED <<index, tx>>
      /\ Shared \/ (tx.by = Nobody /\ tx.before = {})
  BY DEF StoreVote, Deliver, Joins, DeskInv, TransactionInv, Shared
<1>2. /\ request' \in [Requests -> LooseRequest]
      /\ \A q \in Requests : q # r => request'[q] = request[q]
      /\ request'[r].at = "idle"
  BY Leaves DEF StoreVote, Deliver
<1>3. request[r] \in LooseRequest
  BY DEF DeskInv, DeskTypes
<1>4. TypesKept /\ Kept'
  <2>1. CASE UNCHANGED <<tables, acked>>
    BY <1>1, <2>1 DEF DeskInv, DeskTypes, Kept, AckedIsKept, Lost
  <2>2. ASSUME tables' = [tables EXCEPT !.votes[<<request[r].run, request[r].doc>>] = Revised(@, request[r].vote)],
               acked' = [acked EXCEPT !.votes[<<request[r].run, request[r].doc>>] = request[r].vote]
        PROVE  TypesKept /\ Kept'
    <3> DEFINE v == <<request[r].run, request[r].doc>>
    <3>1. request[r].vote \in Vote
      BY <1>3 DEF LooseRequest
    <3>2. /\ tables' = [tables EXCEPT !.votes = [tables.votes EXCEPT ![v] = request[r].vote]]
          /\ acked' = [acked EXCEPT !.votes = [acked.votes EXCEPT ![v] = request[r].vote]]
      BY <2>2 DEF Revised
    <3> HIDE DEF v
    <3>3. /\ [tables.votes EXCEPT ![v] = request[r].vote] \in [Runs \X Targets -> Vote]
          /\ [acked.votes EXCEPT ![v] = request[r].vote] \in [Runs \X Targets -> Vote]
      BY <3>1 DEF DeskInv, DeskTypes, LooseTables
    <3>4. /\ TypesKept
          /\ tables'.votes = [tables.votes EXCEPT ![v] = request[r].vote] /\ tables'.drafts = tables.drafts
          /\ acked'.votes = [acked.votes EXCEPT ![v] = request[r].vote] /\ acked'.drafts = acked.drafts
      BY <3>2, <3>3 DEF DeskInv, DeskTypes, LooseTables
    <3>5. tables.votes \in [Runs \X Targets -> Vote] /\ acked.votes \in [Runs \X Targets -> Vote]
      BY DEF DeskInv, DeskTypes, LooseTables
    <3>6. \A w \in Runs \X Targets :
            \/ acked'.votes[w] = tables'.votes[w]
            \/ acked'.votes[w] = acked.votes[w] /\ tables'.votes[w] = tables.votes[w]
      BY <3>4, <3>5
    <3>7. ASSUME AckedIsKept PROVE AckedIsKept'
      <4>1. acked'.drafts \subseteq tables'.drafts
        BY <3>4, <3>7 DEF AckedIsKept
      <4>2. ASSUME NEW w \in Runs \X Targets
            PROVE acked'.votes[w] = "none" \/ Lost(w)' \/ acked'.votes[w] = tables'.votes[w]
        <5>1. acked.votes[w] = "none" \/ Lost(w) \/ acked.votes[w] = tables.votes[w]
          BY <3>7 DEF AckedIsKept
        <5>2. Lost(w)' <=> Lost(w)
          BY <1>1 DEF Lost
        <5> QED BY <3>6, <5>1, <5>2, Zenon
      <4> QED BY <4>1, <4>2, Zenon DEF AckedIsKept
    <3> QED BY <3>4, <3>7 DEF DeskInv, Kept
  <2>3. CASE Deliver(r)
    <3>1. /\ tables' = [tables EXCEPT !.drafts = tables.drafts \cup {request[r].run}]
          /\ acked' = [acked EXCEPT !.drafts = acked.drafts \cup {request[r].run}]
      BY <2>3, Zenon DEF Deliver
    <3>2. request[r].run \in Runs \cup {NoRun}
      BY <1>3 DEF LooseRequest
    <3>3. /\ TypesKept
          /\ tables'.drafts = tables.drafts \cup {request[r].run} /\ tables'.votes = tables.votes
          /\ acked'.drafts = acked.drafts \cup {request[r].run} /\ acked'.votes = acked.votes
      BY <3>1, <3>2 DEF DeskInv, DeskTypes, LooseTables
    <3> QED BY <1>1, <3>3 DEF DeskInv, Kept, AckedIsKept, Lost
  <2>4. CASE StoreVote(r)
    BY <2>1, <2>2, <2>4, Zenon DEF StoreVote
  <2> QED BY <2>3, <2>4
<1>5. DeskTypes'
  BY <1>1, <1>2, <1>4 DEF DeskInv, DeskTypes
<1>6. TransactionInv'
  BY <1>1, <1>2 DEF DeskInv, TransactionInv, At
<1> QED BY <1>4, <1>5, <1>6 DEF DeskInv

(* A purge takes the votes on a document out of what there is and out of    *)
(* what would be put back.                                                  *)
LEMMA RetireKeeps ==
  ASSUME DeskInv, NEW d, Retire(d) \/ (d \in Docs /\ Purge(d))
  PROVE  DeskInv'
<1>1. CASE Retire(d)
  BY <1>1 DEF Retire, DeskInv, DeskTypes, TransactionInv, Kept, AckedIsKept, Lost, At
<1>2. CASE d \in Docs /\ Purge(d)
  <2>1. /\ index' = [index EXCEPT ![d] = "gone"] /\ tables' = Without(d, tables)
        /\ tx' = [tx EXCEPT !.before = {Without(d, t) : t \in tx.before}] /\ UNCHANGED <<request, acked>>
    BY <1>2, Zenon DEF Purge
  <2>2. \A t \in LooseTables :
          /\ Without(d, t) \in LooseTables /\ Without(d, t).drafts = t.drafts
          /\ Without(d, t).votes = [v \in Runs \X Targets |-> IF d \in v[2] THEN "none" ELSE t.votes[v]]
    BY DEF Without, LooseTables, Vote
  <2>3. tables \in LooseTables /\ tx.before \subseteq LooseTables
    BY DEF DeskInv, DeskTypes
  <2>4. tx'.by = tx.by /\ tx'.before = {Without(d, t) : t \in tx.before}
          /\ tx' \in [by: Requests \cup {Nobody}, before: SUBSET LooseTables]
    <3> DEFINE left == {Without(d, t) : t \in tx.before}
    <3>1. left \subseteq LooseTables
      BY <2>2, <2>3
    <3>2. tx' = [tx EXCEPT !.before = left]
      BY <2>1
    <3> HIDE DEF left
    <3>3. tx'.by = tx.by /\ tx'.before = left /\ tx' \in [by: Requests \cup {Nobody}, before: SUBSET LooseTables]
      BY <3>1, <3>2 DEF DeskInv, DeskTypes
    <3> QED BY <3>3 DEF left
  <2>5. DeskTypes'
    BY <2>1, <2>2, <2>3, <2>4 DEF DeskInv, DeskTypes
  <2>6. TransactionInv'
    <3> SUFFICES ASSUME ~Shared
                 PROVE  \A x \in tx'.before : x.votes = tables'.votes /\ x.drafts = tables'.drafts
      <4>1. (tx'.by = Nobody => tx'.before = {}) /\ \A q \in Requests : At(q, "storing")' => tx'.by = q
        BY <2>1, <2>4 DEF DeskInv, TransactionInv, At
      <4> QED BY <4>1 DEF TransactionInv
    <3>1. \A t \in tx.before : t.votes = tables.votes /\ t.drafts = tables.drafts
      BY DEF DeskInv, TransactionInv
    <3>2. ASSUME NEW t \in tx.before
          PROVE  /\ Without(d, t).votes = Without(d, tables).votes
                 /\ Without(d, t).drafts = Without(d, tables).drafts
      <4>1. t \in LooseTables /\ t.votes = tables.votes /\ t.drafts = tables.drafts
        BY <2>3, <3>1
      <4>2. Without(d, t).votes = [v \in Runs \X Targets |-> IF d \in v[2] THEN "none" ELSE tables.votes[v]]
        <5>1. Without(d, t).votes = [v \in Runs \X Targets |-> IF d \in v[2] THEN "none" ELSE t.votes[v]]
          BY <2>2, <4>1
        <5> QED BY <4>1, <5>1
      <4>3. Without(d, tables).votes = [v \in Runs \X Targets |-> IF d \in v[2] THEN "none" ELSE tables.votes[v]]
        BY <2>2, <2>3
      <4> QED BY <2>2, <2>3, <4>1, <4>2, <4>3
    <3> QED BY <2>1, <2>4, <3>2
  <2>7. Kept'
    <3> SUFFICES ASSUME AckedIsKept PROVE AckedIsKept'
      BY DEF DeskInv, Kept
    <3>1. tables'.drafts = tables.drafts
            /\ tables'.votes = [v \in Runs \X Targets |-> IF d \in v[2] THEN "none" ELSE tables.votes[v]]
      BY <2>1, <2>2, <2>3
    <3>2. ASSUME NEW v \in Runs \X Targets
          PROVE  acked.votes[v] = "none" \/ Lost(v)' \/ acked.votes[v] = tables'.votes[v]
      <4>1. v[2] \subseteq Docs /\ Docs \subseteq DOMAIN index
        BY DEF DeskInv, DeskTypes, Targets
      <4>2. CASE d \in v[2]
        BY <2>1, <4>1, <4>2 DEF Lost
      <4>3. CASE d \notin v[2]
        <5>1. Lost(v) => Lost(v)'
          BY <2>1, <4>1, <4>3 DEF Lost
        <5> QED BY <3>1, <4>3, <5>1 DEF AckedIsKept
      <4> QED BY <4>2, <4>3
    <3> QED BY <2>1, <3>1, <3>2 DEF AckedIsKept
  <2> QED BY <2>5, <2>6, <2>7 DEF DeskInv
<1> QED BY <1>1, <1>2

(* What a request reads is its own.                                         *)
LEMMA ReadKeeps ==
  ASSUME DeskInv, NEW r \in Requests,
         \/ CheckRun(r) \/ CheckShown(r) \/ ReadRun(r) \/ ReadResults(r) \/ ReadAttached(r) \/ Pace(r)
         \/ Send(r) \/ Answer(r) \/ \E outcome \in Outcomes : AskAgain(r, outcome) \/ NoAnswer(r, outcome)
  PROVE  DeskInv'
<1>1. UNCHANGED <<index, tables, tx, acked>>
  BY DEF CheckRun, CheckShown, ReadRun, ReadResults, ReadAttached, Pace, Send, Answer, AskAgain, NoAnswer, Only
<1>2. request[r] \in LooseRequest
  BY DEF DeskInv, DeskTypes
<1>3. {"attaching", "asking", "checking", "storing vote", "reading", "sending", "waiting", "made"} \subseteq Stages
  BY DEF Stages
<1>4. \/ Leave(r)
      \/ \E stage \in {"checking", "storing vote", "reading", "sending", "waiting", "made"} : Goto(r, stage)
      \/ ReadResults(r) \/ ReadAttached(r) \/ \E outcome \in Outcomes : AskAgain(r, outcome)
  BY DEF CheckRun, CheckShown, ReadRun, Pace, Send, Answer, NoAnswer
<1>5. \/ Leave(r)
      \/ \E stage \in {"checking", "storing vote", "reading", "sending", "waiting", "made"} : Goto(r, stage)
      \/ \E next \in LooseRequest : next.at # "storing" /\ request' = [request EXCEPT ![r] = next]
  <2>1. ASSUME ReadResults(r)
        PROVE  \E next \in LooseRequest : next.at # "storing" /\ request' = [request EXCEPT ![r] = next]
    <3>1. PICK usable \in SUBSET (tables.shown[request[r].run] \cap Offered) :
            request' = [request EXCEPT ![r] = [request[r] EXCEPT !.at = "attaching", !.results = usable]]
      <4>1. PICK usable \in SUBSET (tables.shown[request[r].run] \cap Offered) :
              request' = [request EXCEPT ![r].at = "attaching", ![r].results = usable]
        BY <2>1 DEF ReadResults
      <4>2. request \in [Requests -> LooseRequest]
        BY DEF DeskInv, DeskTypes
      <4>3. request' = [request EXCEPT ![r] = [request[r] EXCEPT !.at = "attaching", !.results = usable]]
        BY <4>1, <4>2
      <4> QED BY <4>3
    <3>2. usable \subseteq Docs \cup Attached
      BY DEF Offered, DeskInv, DeskTypes
    <3> DEFINE next == [request[r] EXCEPT !.at = "attaching", !.results = usable]
    <3>3. next \in LooseRequest /\ next.at = "attaching"
      BY <1>2, <1>3, <3>2 DEF LooseRequest
    <3> HIDE DEF next
    <3>4. request' = [request EXCEPT ![r] = next]
      BY <3>1 DEF next
    <3> QED BY <3>3, <3>4
  <2>2. ASSUME ReadAttached(r), ~Leave(r)
        PROVE  \E next \in LooseRequest : next.at # "storing" /\ request' = [request EXCEPT ![r] = next]
    <3> DEFINE next == [request[r] EXCEPT !.at = "asking", !.given = request[r].given \cap Offered, !.tries = 1]
    <3>1. request' = [request EXCEPT ![r] = next]
      BY <2>2 DEF ReadAttached
    <3>2. request[r].given \cap Offered \subseteq Attached
      BY <1>2 DEF LooseRequest
    <3>3. next \in LooseRequest /\ next.at = "asking"
      BY <1>2, <1>3, <3>2 DEF LooseRequest
    <3> HIDE DEF next
    <3> QED BY <3>1, <3>3
  <2>3. ASSUME NEW outcome \in Outcomes, AskAgain(r, outcome)
        PROVE  \E next \in LooseRequest : next.at # "storing" /\ request' = [request EXCEPT ![r] = next]
    <3> DEFINE next == [request[r] EXCEPT !.at = "asking", !.tries = request[r].tries + 1]
    <3>1. request' = [request EXCEPT ![r] = next]
      BY <2>3 DEF AskAgain, Tried
    <3>2. request[r].tries + 1 \in Nat
      BY <1>2 DEF LooseRequest
    <3>3. next \in LooseRequest /\ next.at = "asking"
      BY <1>2, <1>3, <3>2 DEF LooseRequest
    <3> HIDE DEF next
    <3> QED BY <3>1, <3>3
  <2> QED BY <1>4, <2>1, <2>2, <2>3
<1>6. request' \in [Requests -> LooseRequest]
        /\ \A q \in Requests : request'[q].at = "storing" => request[q].at = "storing"
  <2>1. CASE Leave(r)
    BY <2>1, Leaves
  <2>2. ASSUME NEW stage \in {"checking", "storing vote", "reading", "sending", "waiting", "made"}, Goto(r, stage)
        PROVE  /\ request' \in [Requests -> LooseRequest]
               /\ \A q \in Requests : request'[q].at = "storing" => request[q].at = "storing"
    BY <1>3, <2>2, Stays
  <2>3. ASSUME NEW next \in LooseRequest, next.at # "storing", request' = [request EXCEPT ![r] = next]
        PROVE  /\ request' \in [Requests -> LooseRequest]
               /\ \A q \in Requests : request'[q].at = "storing" => request[q].at = "storing"
    BY <2>3, GoesTo
  <2> QED BY <1>5, <2>1, <2>2, <2>3
<1> QED BY <1>1, <1>6, OnlyRequest

LEMMA AskKeeps ==
  ASSUME DeskInv, NEW r \in Requests, Ask(r)
  PROVE  DeskInv'
<1>1. UNCHANGED <<index, tables, tx, acked>>
  BY DEF Ask, Search, AskVote, AskDraft, Enter
<1>2. \E next \in LooseRequest : next.at # "storing" /\ request' = [request EXCEPT ![r] = next]
  <2>1. {"found", "voting", "drafting"} \subseteq Stages /\ {"none", "up", "down"} \subseteq Vote /\ {} \in Targets
    BY DEF Stages, Vote, Targets
  <2>2. Idle = [at |-> "idle", run |-> NoRun, doc |-> {}, vote |-> "none", results |-> {}, given |-> {}, tries |-> 0]
    BY Zenon DEF Idle
  <2>3. ASSUME NEW q \in Runs, Search(r, q)
        PROVE  \E next \in LooseRequest : next.at # "storing" /\ request' = [request EXCEPT ![r] = next]
    <3>1. PICK found \in SUBSET (Offered \cap Docs) :
            request' = [request EXCEPT ![r] = [Idle EXCEPT !.at = "found", !.run = q, !.results = found]]
      BY <2>3 DEF Search, Enter
    <3> DEFINE next == [Idle EXCEPT !.at = "found", !.run = q, !.results = found]
    <3>2. next \in LooseRequest /\ next.at = "found"
      BY <2>1, <2>2 DEF LooseRequest
    <3>3. request' = [request EXCEPT ![r] = next]
      BY <3>1
    <3> HIDE DEF next
    <3> QED BY <3>2, <3>3
  <2>4. ASSUME NEW q \in Runs, NEW target \in Targets, NEW verdict \in {"up", "down"}, AskVote(r, q, target, verdict)
        PROVE  \E next \in LooseRequest : next.at # "storing" /\ request' = [request EXCEPT ![r] = next]
    <3> DEFINE next == [Idle EXCEPT !.at = "voting", !.run = q, !.doc = target, !.vote = verdict]
    <3>1. request' = [request EXCEPT ![r] = next]
      BY <2>4 DEF AskVote, Enter
    <3>2. next \in LooseRequest /\ next.at = "voting"
      BY <2>1, <2>2 DEF LooseRequest
    <3> HIDE DEF next
    <3> QED BY <3>1, <3>2
  <2>5. ASSUME NEW q \in Runs, NEW ids \in SUBSET Attached, AskDraft(r, q, ids)
        PROVE  \E next \in LooseRequest : next.at # "storing" /\ request' = [request EXCEPT ![r] = next]
    <3> DEFINE next == [Idle EXCEPT !.at = "drafting", !.run = q, !.given = ids]
    <3>1. request' = [request EXCEPT ![r] = next]
      BY <2>5 DEF AskDraft, Enter
    <3>2. next \in LooseRequest /\ next.at = "drafting"
      BY <2>1, <2>2 DEF LooseRequest
    <3> HIDE DEF next
    <3> QED BY <3>1, <3>2
  <2> QED BY <2>3, <2>4, <2>5 DEF Ask
<1>3. PICK next \in LooseRequest : next.at # "storing" /\ request' = [request EXCEPT ![r] = next]
  BY <1>2
<1> QED BY <1>1, <1>3, GoesTo, OnlyRequest

LEMMA NextDesk ==
  ASSUME DeskInv, [Next]_vars
  PROVE  DeskInv'
<1>1. ASSUME NEW r \in Requests, Proceed(r) \/ Answer(r)
      PROVE  DeskInv'
  BY <1>1, TraceKeeps, WriteKeeps, ReadKeeps DEF Proceed
<1>2. ASSUME NEW d, Retire(d)
      PROVE  DeskInv'
  BY <1>2, RetireKeeps
<1>3. ASSUME NEW d \in Docs, Purge(d)
      PROVE  DeskInv'
  BY <1>3, RetireKeeps
<1>4. CASE WindowPasses \/ UNCHANGED vars
  <2>1. UNCHANGED <<index, tables, tx, request, acked>>
    BY <1>4 DEF WindowPasses, vars
  <2> QED BY <2>1 DEF DeskInv, DeskTypes, TransactionInv, Kept, AckedIsKept, Lost, At
<1> QED BY <1>1, <1>2, <1>3, <1>4, AskKeeps DEF Next

(* As long as a statement of another request does not fall into the         *)
(* transaction that stores a search, the vote an officer was told is        *)
(* recorded is the one that is stored, and every draft has its audit row    *)
(* (record_feedback, _audit, save_run), for any number of requests.         *)
THEOREM VotesAreKept == "shared transactions" \notin Upsets => (Spec => []AckedIsKept)
<1> SUFFICES ASSUME "shared transactions" \notin Upsets
             PROVE  Spec => []AckedIsKept
  OBVIOUS
<1>1. DeskInv /\ [Next]_vars => DeskInv'
  BY NextDesk
<1>2. DeskInv => AckedIsKept
  BY DEF DeskInv, Kept, Shared
<1> QED BY InitDesk, <1>1, <1>2, PTL DEF Spec

-----------------------------------------------------------------------------
(* Why a citation can be traced: while a search is being stored nobody else *)
(* has its id, so a rollback takes back no results that a draft was made    *)
(* of, and what a draft was made of leaves the tables by a purge only.      *)
Storing == {"found", "storing"}
DraftStages == {"attaching", "asking", "sending", "waiting", "made"}
Gone == {d \in Docs : index[d] = "gone"}

TraceInv ==
  /\ \A r \in Requests : ~At(r, "idle") => request[r].run \in Runs
  /\ \A r \in Requests, s \in Requests : r # s /\ request[r].at \in Storing => request[s].run # request[r].run
  /\ \A r \in Requests : At(r, "storing") =>
       \A t \in tx.before, q \in Runs : q # request[r].run => t.shown[q] = tables.shown[q]
  /\ \A r \in Requests : request[r].at \in DraftStages =>
       request[r].results \subseteq tables.shown[request[r].run] \cup Gone
  /\ \A m \in drafted : m.by \in Requests /\ At(m.by, "made") /\ m.run = request[m.by].run

TracedInv == DeskInv /\ TraceInv /\ CitesResolve

(* One request goes on, and no results are stored or taken away.            *)
LEMMA GoesOn ==
  ASSUME TracedInv, NEW r \in Requests, NEW next, request' = [request EXCEPT ![r] = next],
         ~At(r, "idle"), next.run = request[r].run \/ next = Idle,
         next.at \notin Storing,
         next.at \in DraftStages => next.results \subseteq tables.shown[request[r].run] \cup Gone,
         UNCHANGED <<index, tx>>, tables'.shown = tables.shown, drafted' \subseteq drafted,
         \A m \in drafted' : m.by # r
  PROVE  TraceInv' /\ CitesResolve'
<1>1. /\ \A s \in Requests : s # r => request'[s] = request[s]
      /\ request'[r] = next /\ request[r].run \in Runs
  BY DEF TracedInv, DeskInv, DeskTypes, TraceInv
<1>2. Idle.at = "idle" /\ Idle.run = NoRun /\ NoRun \notin Runs
  BY DeskAssumption DEF Idle
<1>3. next.run = request[r].run \/ (next = Idle /\ next.run \notin Runs /\ next.at = "idle")
  BY <1>2
<1>4. \A s \in Requests : ~At(s, "idle")' => request'[s].run \in Runs
  BY <1>1, <1>3 DEF TracedInv, TraceInv, At
<1>5. ASSUME NEW s \in Requests, NEW w \in Requests, s # w, request'[s].at \in Storing
      PROVE  request'[w].run # request'[s].run
  <2>1. s # r /\ request'[s] = request[s] /\ request[s].at \in Storing /\ request[s].run \in Runs
    BY <1>1, <1>5 DEF TracedInv, TraceInv, Storing, At
  <2>2. request[w].run # request[s].run
    BY <1>5, <2>1 DEF TracedInv, TraceInv
  <2> QED BY <1>1, <1>3, <2>1, <2>2
<1>6. ASSUME NEW s \in Requests, At(s, "storing")'
      PROVE  \A t \in tx'.before, q \in Runs : q # request'[s].run => t.shown[q] = tables'.shown[q]
  <2>1. s # r /\ At(s, "storing")
    BY <1>1, <1>6 DEF At, Storing
  <2> QED BY <1>1, <2>1 DEF TracedInv, TraceInv
<1>7. ASSUME NEW s \in Requests, request'[s].at \in DraftStages
      PROVE  request'[s].results \subseteq tables'.shown[request'[s].run] \cup Gone'
  <2>1. Gone' = Gone
    BY DEF Gone
  <2>2. CASE s = r
    BY <1>1, <1>3, <1>7, <2>1, <2>2 DEF DraftStages
  <2>3. CASE s # r
    BY <1>1, <1>7, <2>1, <2>3 DEF TracedInv, TraceInv
  <2> QED BY <2>2, <2>3
<1>8. \A m \in drafted' : m.by \in Requests /\ At(m.by, "made")' /\ m.run = request'[m.by].run
  BY <1>1 DEF TracedInv, TraceInv, At
<1>9. CitesResolve'
  BY DEF TracedInv, CitesResolve, Traceable
<1> QED BY <1>4, <1>5, <1>6, <1>7, <1>8, <1>9 DEF TraceInv

(* What a request does but store a search or get a draft.                   *)
LEMMA ReadTraced ==
  ASSUME TracedInv, NEW r \in Requests,
         \/ CheckRun(r) \/ CheckShown(r) \/ StoreVote(r) \/ ReadRun(r) \/ ReadResults(r) \/ ReadAttached(r)
         \/ Pace(r) \/ Send(r) \/ Deliver(r) \/ \E outcome \in Outcomes : AskAgain(r, outcome) \/ NoAnswer(r, outcome)
  PROVE  TraceInv' /\ CitesResolve'
<1>1. /\ UNCHANGED <<index, tx>> /\ drafted' \subseteq drafted
      /\ ~At(r, "idle") /\ ~At(r, "found") /\ ~At(r, "storing")
      /\ ~Deliver(r) => ~At(r, "made")
  BY DEF CheckRun, CheckShown, StoreVote, ReadRun, ReadResults, ReadAttached, Pace, Send, Deliver, AskAgain,
     NoAnswer, Only, At
<1>2. tables'.shown = tables.shown
  <2>1. tables \in LooseTables
    BY DEF TracedInv, DeskInv, DeskTypes
  <2>2. CASE UNCHANGED tables
    BY <2>2
  <2>3. CASE StoreVote(r)
    <3>1. \/ UNCHANGED tables
          \/ tables' = [tables EXCEPT !.votes[<<request[r].run, request[r].doc>>] = Revised(@, request[r].vote)]
      BY <2>3, Zenon DEF StoreVote
    <3> QED BY <2>1, <3>1 DEF LooseTables
  <2>4. CASE Deliver(r)
    <3>1. tables' = [tables EXCEPT !.drafts = tables.drafts \cup {request[r].run}]
      BY <2>4, Zenon DEF Deliver
    <3> QED BY <2>1, <3>1 DEF LooseTables
  <2> QED BY <2>2, <2>3, <2>4 DEF CheckRun, CheckShown, ReadRun, ReadResults, ReadAttached, Pace, Send, AskAgain,
     NoAnswer, Only
<1>3. \A m \in drafted' : m.by # r
  BY <1>1 DEF Deliver, TracedInv, TraceInv, At
<1>4. request[r] \in LooseRequest /\ request \in [Requests -> LooseRequest]
  BY DEF TracedInv, DeskInv, DeskTypes
<1>5. request[r].at \in DraftStages => request[r].results \subseteq tables.shown[request[r].run] \cup Gone
  BY DEF TracedInv, TraceInv
<1> DEFINE GoesTo_(next) == /\ request' = [request EXCEPT ![r] = next]
                            /\ next.run = request[r].run \/ next = Idle
                            /\ next.at \notin Storing
                            /\ next.at \in DraftStages => next.results \subseteq tables.shown[request[r].run] \cup Gone
<1>6. ASSUME Leave(r) PROVE \E next : GoesTo_(next)
  <2>1. Idle.at = "idle"
    BY DEF Idle
  <2> QED BY <1>6, <2>1 DEF Leave, Storing, DraftStages
<1>7. ASSUME NEW stage, Goto(r, stage), stage \notin Storing, request[r].at \in DraftStages \/ stage \notin DraftStages
      PROVE  \E next : GoesTo_(next)
  <2> DEFINE next == [request[r] EXCEPT !.at = stage]
  <2>1. request' = [request EXCEPT ![r] = next]
    BY <1>7, Zenon DEF Goto
  <2>2. next.at = stage /\ next.run = request[r].run /\ next.results = request[r].results
    BY <1>4 DEF LooseRequest
  <2> HIDE DEF next
  <2> QED BY <1>5, <1>7, <2>1, <2>2
<1>8. ASSUME ReadResults(r) PROVE \E next : GoesTo_(next)
  <2>1. PICK usable \in SUBSET (tables.shown[request[r].run] \cap Offered) :
          request' = [request EXCEPT ![r].at = "attaching", ![r].results = usable]
    BY <1>8 DEF ReadResults
  <2> DEFINE next == [request[r] EXCEPT !.at = "attaching", !.results = usable]
  <2>2. request' = [request EXCEPT ![r] = next]
    BY <1>4, <2>1
  <2>3. next.at = "attaching" /\ next.run = request[r].run /\ next.results = usable
    BY <1>4 DEF LooseRequest
  <2> HIDE DEF next
  <2> QED BY <2>2, <2>3 DEF Storing, DraftStages
<1>9. ASSUME ReadAttached(r) PROVE \E next : GoesTo_(next)
  <2>1. CASE Leave(r)
    BY <1>6, <2>1
  <2>2. CASE ~Leave(r)
    <3> DEFINE next == [request[r] EXCEPT !.at = "asking", !.given = request[r].given \cap Offered, !.tries = 1]
    <3>1. request' = [request EXCEPT ![r] = next] /\ At(r, "attaching")
      BY <1>9, <2>2 DEF ReadAttached
    <3>2. next.at = "asking" /\ next.run = request[r].run /\ next.results = request[r].results
      BY <1>4 DEF LooseRequest
    <3> HIDE DEF next
    <3> QED BY <1>5, <3>1, <3>2 DEF Storing, DraftStages, At
  <2> QED BY <2>1, <2>2
<1>10. ASSUME NEW outcome \in Outcomes, AskAgain(r, outcome) PROVE \E next : GoesTo_(next)
  <2> DEFINE next == [request[r] EXCEPT !.at = "asking", !.tries = request[r].tries + 1]
  <2>1. request' = [request EXCEPT ![r] = next] /\ At(r, "waiting")
    BY <1>10 DEF AskAgain, Tried
  <2>2. next.at = "asking" /\ next.run = request[r].run /\ next.results = request[r].results
    BY <1>4 DEF LooseRequest
  <2> HIDE DEF next
  <2> QED BY <1>5, <2>1, <2>2 DEF Storing, DraftStages, At
<1>11. \E next : GoesTo_(next)
  <2>1. CASE CheckRun(r) \/ CheckShown(r) \/ ReadRun(r)
    <3>1. Leave(r) \/ \E stage \in {"checking", "storing vote", "reading"} : Goto(r, stage)
      BY <2>1 DEF CheckRun, CheckShown, ReadRun
    <3>2. {"checking", "storing vote", "reading"} \cap (Storing \cup DraftStages) = {}
      BY DEF Storing, DraftStages
    <3> QED BY <1>6, <1>7, <3>1, <3>2
  <2>2. CASE Pace(r) \/ Send(r) \/ \E outcome \in Outcomes : NoAnswer(r, outcome)
    <3>1. /\ \E stage \in {"sending", "waiting", "made"} : Goto(r, stage)
          /\ request[r].at \in DraftStages
      BY <2>2 DEF Pace, Send, NoAnswer, At, DraftStages
    <3>2. {"sending", "waiting", "made"} \cap Storing = {}
      BY DEF Storing
    <3> QED BY <1>7, <3>1, <3>2
  <2>3. CASE StoreVote(r) \/ Deliver(r)
    BY <1>6, <2>3 DEF StoreVote, Deliver
  <2> QED BY <1>8, <1>9, <1>10, <2>1, <2>2, <2>3
<1>12. PICK next : GoesTo_(next)
  BY <1>11
<1> QED BY <1>1, <1>2, <1>3, <1>12, GoesOn, Zenon

(* A draft is made: what it cites was given to the model, and what was      *)
(* given to it is stored or gone.                                           *)
LEMMA AnswerTraced ==
  ASSUME TracedInv, NEW r \in Requests, Answer(r)
  PROVE  TraceInv' /\ CitesResolve'
<1>1. /\ At(r, "waiting") /\ Goto(r, "made") /\ UNCHANGED <<index, tables, tx>>
      /\ request \in [Requests -> LooseRequest]
  BY DEF Answer, TracedInv, DeskInv, DeskTypes
<1>2. /\ \A s \in Requests : request'[s].run = request[s].run /\ request'[s].results = request[s].results
      /\ \A s \in Requests : s # r => request'[s] = request[s]
      /\ request'[r].at = "made"
  BY <1>1 DEF Goto, LooseRequest
<1>3. \A s \in Requests : ~At(s, "idle")' => request'[s].run \in Runs
  BY <1>1, <1>2 DEF TracedInv, TraceInv, At
<1>4. \A s \in Requests, w \in Requests : s # w /\ request'[s].at \in Storing => request'[w].run # request'[s].run
  BY <1>2 DEF TracedInv, TraceInv, Storing
<1>5. \A s \in Requests : At(s, "storing")' =>
        \A t \in tx'.before, q \in Runs : q # request'[s].run => t.shown[q] = tables'.shown[q]
  BY <1>1, <1>2 DEF TracedInv, TraceInv, At
<1>6. \A s \in Requests : request'[s].at \in DraftStages =>
        request'[s].results \subseteq tables'.shown[request'[s].run] \cup Gone'
  <2>1. request[r].at \in DraftStages
    BY <1>1 DEF At, DraftStages
  <2> QED BY <1>1, <1>2, <2>1 DEF TracedInv, TraceInv, Gone
<1>7. CASE UNCHANGED drafted
  <2>1. \A m \in drafted : m.by # r
    BY <1>1 DEF TracedInv, TraceInv, At
  <2>2. \A m \in drafted' : m.by \in Requests /\ At(m.by, "made")' /\ m.run = request'[m.by].run
    BY <1>2, <1>7, <2>1 DEF TracedInv, TraceInv, At
  <2>3. CitesResolve'
    BY <1>1, <1>7 DEF TracedInv, CitesResolve, Traceable
  <2> QED BY <1>3, <1>4, <1>5, <1>6, <2>2, <2>3 DEF TraceInv
<1>8. ASSUME NEW o \in Output,
             drafted' = {[by |-> r, run |-> request[r].run, given |-> request[r].given,
                          labels |-> {p.label : p \in o.parts},
                          draft |-> Draft(o, request[r].results, request[r].given)]}
      PROVE  TraceInv' /\ CitesResolve'
  <2> DEFINE R == request[r].results
             G == request[r].given
             draft == Draft(o, R, G)
             labels == {p.label : p \in o.parts}
  <2>1. (\A p \in draft.parts : p.cites \subseteq R \cup G) /\ draft.points \subseteq R \cup G
    BY DraftOf
  <2> HIDE DEF draft, labels
  <2>2. \A m \in drafted' : m.by = r /\ m.run = request[r].run /\ m.given = G /\ m.draft = draft
    BY <1>8 DEF draft, labels
  <2>3. R \subseteq tables.shown[request[r].run] \cup Gone
    BY <1>1 DEF TracedInv, TraceInv, At, DraftStages
  <2> HIDE DEF R, G
  <2>4. CitesResolve'
    <3> SUFFICES ASSUME NEW m \in drafted'
                 PROVE  (UNION {p.cites : p \in m.draft.parts}) \cup m.draft.points \subseteq Traceable(m)'
      BY DEF CitesResolve
    <3>1. Traceable(m)' = G \cup tables.shown[request[r].run] \cup Gone
      BY <1>1, <2>2 DEF Traceable, Gone
    <3> QED BY <2>1, <2>2, <2>3, <3>1
  <2>5. \A m \in drafted' : m.by \in Requests /\ At(m.by, "made")' /\ m.run = request'[m.by].run
    BY <1>2, <2>2 DEF At
  <2> QED BY <1>3, <1>4, <1>5, <1>6, <2>4, <2>5 DEF TraceInv
<1> QED BY <1>7, <1>8, Zenon DEF Answer

(* Storing a search, or giving up: only its own results come and go.        *)
LEMMA StoringTraced ==
  ASSUME TracedInv, NEW r \in Requests, BeginTrace(r) \/ TraceRow(r) \/ TraceFails(r) \/ EndTrace(r)
  PROVE  TraceInv' /\ CitesResolve'
<1> DEFINE own == request[r].run
<1>1. /\ request[r].at \in Storing /\ own \in Runs /\ UNCHANGED <<index, drafted>>
      /\ request \in [Requests -> LooseRequest] /\ tables \in LooseTables
  BY DEF BeginTrace, TraceRow, TraceFails, EndTrace, At, Storing, TracedInv, TraceInv, DeskInv, DeskTypes
<1>2. \A s \in Requests : s # r => request'[s] = request[s] /\ request[s].run # own
  <2>1. \A s \in Requests : s # r => request'[s] = request[s]
    BY <1>1 DEF BeginTrace, TraceRow, TraceFails, EndTrace, Goto, Leave
  <2> QED BY <1>1, <2>1 DEF TracedInv, TraceInv
<1>3. \/ request'[r] = Idle
      \/ request'[r].run = own /\ request'[r].at = "storing"
  BY <1>1 DEF BeginTrace, TraceRow, TraceFails, EndTrace, Goto, Leave, At, LooseRequest
<1>4. Idle.at = "idle" /\ Idle.run = NoRun /\ NoRun \notin Runs
  BY DeskAssumption DEF Idle
<1>5. \A q \in Runs : q # own => tables'.shown[q] = tables.shown[q]
  <2>1. CASE BeginTrace(r)
    <3>1. tables' = [tables EXCEPT !.runs = tables.runs \cup {own}]
      BY <2>1, Zenon DEF BeginTrace
    <3> QED BY <1>1, <3>1 DEF LooseTables
  <2>2. CASE TraceRow(r)
    <3>1. PICK d \in Missing(r) : tables' = [tables EXCEPT !.shown[own] = @ \cup {d}]
      BY <2>2, Zenon DEF TraceRow
    <3> QED BY <1>1, <3>1 DEF LooseTables
  <2>3. CASE TraceFails(r)
    BY <2>3 DEF TraceFails, TracedInv, TraceInv
  <2> QED BY <2>1, <2>2, <2>3 DEF EndTrace
<1>6. \A t \in tx'.before, q \in Runs : q # own => t.shown[q] = tables'.shown[q]
  <2>1. CASE BeginTrace(r)
    <3>1. tx' = [by |-> r, before |-> {tables}]
      BY <2>1 DEF BeginTrace
    <3> QED BY <1>5, <3>1
  <2>2. CASE TraceRow(r)
    BY <1>5, <2>2 DEF TraceRow, TracedInv, TraceInv
  <2>3. CASE TraceFails(r) \/ EndTrace(r)
    BY <2>3 DEF TraceFails, EndTrace, Closed
  <2> QED BY <2>1, <2>2, <2>3
<1>7. \A s \in Requests : s # r => ~At(s, "storing")
  <2>1. \A s \in Requests : At(s, "storing") => tx.by = s /\ tx.by # Nobody
    BY DeskAssumption DEF TracedInv, DeskInv, TransactionInv
  <2> QED BY <2>1 DEF BeginTrace, TraceRow, TraceFails, EndTrace
<1>8. Gone' = Gone
  BY <1>1 DEF Gone
<1>9. \A s \in Requests : ~At(s, "idle")' => request'[s].run \in Runs
  BY <1>1, <1>2, <1>3, <1>4 DEF TracedInv, TraceInv, At
<1>10. ASSUME NEW s \in Requests, NEW w \in Requests, s # w, request'[s].at \in Storing
       PROVE  request'[w].run # request'[s].run
  <2>1. CASE s = r
    BY <1>2, <1>3, <1>4, <1>10, <2>1 DEF Storing
  <2>2. CASE s # r
    <3>1. request[w].run # request[s].run /\ request[s].run \in Runs
      BY <1>2, <1>10, <2>2 DEF TracedInv, TraceInv, Storing, At
    <3> QED BY <1>2, <1>3, <1>4, <2>2, <3>1
  <2> QED BY <2>1, <2>2
<1>11. \A s \in Requests : At(s, "storing")' =>
         \A t \in tx'.before, q \in Runs : q # request'[s].run => t.shown[q] = tables'.shown[q]
  BY <1>2, <1>3, <1>4, <1>6, <1>7 DEF At
<1>12. ASSUME NEW s \in Requests, request'[s].at \in DraftStages
       PROVE  request'[s].results \subseteq tables'.shown[request'[s].run] \cup Gone'
  <2>1. s # r
    BY <1>3, <1>4, <1>12 DEF DraftStages
  <2>2. request[s].run \in Runs /\ request[s].run # own /\ request'[s] = request[s]
    BY <1>2, <1>12, <2>1 DEF TracedInv, TraceInv, DraftStages, At
  <2> QED BY <1>5, <1>8, <1>12, <2>2 DEF TracedInv, TraceInv
<1>13. \A m \in drafted : m.by \in Requests /\ m.by # r /\ At(m.by, "made") /\ m.run = request[m.by].run /\ m.run # own
  BY <1>1, <1>2 DEF TracedInv, TraceInv, At, Storing
<1>14. \A m \in drafted' : m.by \in Requests /\ At(m.by, "made")' /\ m.run = request'[m.by].run
  BY <1>1, <1>2, <1>13 DEF At
<1>15. CitesResolve'
  <2> SUFFICES ASSUME NEW m \in drafted
               PROVE  (UNION {p.cites : p \in m.draft.parts}) \cup m.draft.points \subseteq Traceable(m)'
    BY <1>1 DEF CitesResolve
  <2>1. m.run \in Runs /\ m.run # own
    BY <1>13 DEF TracedInv, TraceInv, At
  <2>2. Traceable(m)' = Traceable(m)
    BY <1>1, <1>5, <2>1 DEF Traceable
  <2> QED BY <2>2 DEF TracedInv, CitesResolve
<1> QED BY <1>9, <1>10, <1>11, <1>12, <1>14, <1>15 DEF TraceInv

(* A request that comes in has an id nobody stores.                         *)
LEMMA AskTraced ==
  ASSUME TracedInv, NEW r \in Requests, Ask(r)
  PROVE  TraceInv' /\ CitesResolve'
<1> DEFINE Comes(q, next) == /\ Enter(r, next) /\ next.run = q
                             /\ \/ next.at \in {"voting", "drafting"} /\ Known(q)
                                \/ next.at = "found" /\ \A s \in Requests : request[s].run # q
<1>1. \E q \in Runs : \E next : Comes(q, next)
  <2>1. Idle = [at |-> "idle", run |-> NoRun, doc |-> {}, vote |-> "none", results |-> {}, given |-> {}, tries |-> 0]
    BY Zenon DEF Idle
  <2>2. ASSUME NEW q \in Runs, NEW found \in SUBSET (Offered \cap Docs), \A s \in Requests : request[s].run # q,
               Enter(r, [Idle EXCEPT !.at = "found", !.run = q, !.results = found])
        PROVE  \E next : Enter(r, next) /\ next.run = q /\ next.at = "found"
    <3> DEFINE next == [Idle EXCEPT !.at = "found", !.run = q, !.results = found]
    <3>1. next.run = q /\ next.at = "found"
      BY <2>1
    <3> QED BY <2>2, <3>1
  <2>3. ASSUME NEW q \in Runs, NEW target \in Targets, NEW verdict, AskVote(r, q, target, verdict)
        PROVE  \E next : Enter(r, next) /\ next.run = q /\ next.at = "voting"
    <3> DEFINE next == [Idle EXCEPT !.at = "voting", !.run = q, !.doc = target, !.vote = verdict]
    <3>1. next.run = q /\ next.at = "voting"
      BY <2>1
    <3> QED BY <2>3, <3>1 DEF AskVote
  <2>4. ASSUME NEW q \in Runs, NEW ids \in SUBSET Attached, AskDraft(r, q, ids)
        PROVE  \E next : Enter(r, next) /\ next.run = q /\ next.at = "drafting"
    <3> DEFINE next == [Idle EXCEPT !.at = "drafting", !.run = q, !.given = ids]
    <3>1. next.run = q /\ next.at = "drafting"
      BY <2>1
    <3> QED BY <2>4, <3>1 DEF AskDraft
  <2>5. PICK q \in Runs :
          \/ Search(r, q)
          \/ \E target \in Targets, verdict \in {"up", "down"} : AskVote(r, q, target, verdict)
          \/ \E ids \in SUBSET Attached : AskDraft(r, q, ids)
    BY Zenon DEF Ask
  <2>6. CASE Search(r, q)
    <3>1. \E next : Enter(r, next) /\ next.run = q /\ next.at = "found"
      <4>1. PICK found \in SUBSET (Offered \cap Docs) :
              Enter(r, [Idle EXCEPT !.at = "found", !.run = q, !.results = found])
        BY <2>6, Zenon DEF Search
      <4> QED BY <2>2, <2>6, <4>1 DEF Search
    <3>2. \A s \in Requests : request[s].run # q
      BY <2>6 DEF Search
    <3> QED BY <3>1, <3>2
  <2>7. CASE \E target \in Targets, verdict \in {"up", "down"} : AskVote(r, q, target, verdict)
    <3>1. \E next : Enter(r, next) /\ next.run = q /\ next.at = "voting"
      BY <2>3, <2>7
    <3>2. Known(q)
      BY <2>7, Zenon DEF AskVote
    <3> QED BY <3>1, <3>2
  <2>8. CASE \E ids \in SUBSET Attached : AskDraft(r, q, ids)
    <3>1. \E next : Enter(r, next) /\ next.run = q /\ next.at = "drafting"
      BY <2>4, <2>8
    <3>2. Known(q)
      BY <2>8, Zenon DEF AskDraft
    <3> QED BY <3>1, <3>2
  <2> QED BY <2>5, <2>6, <2>7, <2>8
<1>0. PICK q \in Runs : \E next : Comes(q, next)
  BY <1>1
<1>2. PICK next : Comes(q, next)
  BY <1>0
<1>3. /\ At(r, "idle") /\ UNCHANGED <<index, tables, tx, drafted>>
      /\ \A s \in Requests : s # r => request'[s] = request[s]
      /\ request'[r] = next
  BY <1>2 DEF Enter, TracedInv, DeskInv, DeskTypes
<1>4. \A s \in Requests : ~At(s, "idle")' => request'[s].run \in Runs
  BY <1>2, <1>3 DEF TracedInv, TraceInv, At
<1>5. ASSUME NEW s \in Requests, NEW w \in Requests, s # w, request'[s].at \in Storing
      PROVE  request'[w].run # request'[s].run
  <2>1. CASE s = r
    BY <1>2, <1>3, <1>5, <2>1 DEF Storing
  <2>2. CASE w = r
    BY <1>2, <1>3, <1>5, <2>2 DEF Storing, Known, At
  <2>3. CASE s # r /\ w # r
    BY <1>3, <1>5, <2>3 DEF TracedInv, TraceInv
  <2> QED BY <2>1, <2>2, <2>3
<1>6. \A s \in Requests : At(s, "storing")' => At(s, "storing") /\ s # r
  BY <1>2, <1>3 DEF At
<1>7. \A s \in Requests : request'[s].at \in DraftStages => request[s].at \in DraftStages /\ s # r
  BY <1>2, <1>3 DEF DraftStages
<1>8. Gone' = Gone
  BY <1>3 DEF Gone
<1>9. \A s \in Requests : At(s, "storing")' =>
        \A t \in tx'.before, x \in Runs : x # request'[s].run => t.shown[x] = tables'.shown[x]
  BY <1>3, <1>6 DEF TracedInv, TraceInv
<1>10. \A s \in Requests : request'[s].at \in DraftStages =>
         request'[s].results \subseteq tables'.shown[request'[s].run] \cup Gone'
  BY <1>3, <1>7, <1>8 DEF TracedInv, TraceInv
<1>11. \A m \in drafted' : m.by \in Requests /\ At(m.by, "made")' /\ m.run = request'[m.by].run
  BY <1>3 DEF TracedInv, TraceInv, At
<1>12. CitesResolve'
  BY <1>3 DEF TracedInv, CitesResolve, Traceable
<1> QED BY <1>4, <1>5, <1>9, <1>10, <1>11, <1>12 DEF TraceInv

(* What a purge takes out of the stored results is gone from the index.     *)
LEMMA RetireTraced ==
  ASSUME TracedInv, NEW d, Retire(d) \/ (d \in Docs /\ Purge(d))
  PROVE  TraceInv' /\ CitesResolve'
<1>1. UNCHANGED <<request, drafted>> /\ DOMAIN index = Docs \cup Attached /\ tables \in LooseTables
      /\ tx.before \subseteq LooseTables
  BY DEF Retire, Purge, TracedInv, DeskInv, DeskTypes
<1>2. /\ Gone \subseteq Gone'
      /\ \A q \in Runs : tables.shown[q] \cup Gone \subseteq tables'.shown[q] \cup Gone'
      /\ \A q \in Runs, t \in tx'.before :
           \E x \in tx.before : x.shown[q] = tables.shown[q] => t.shown[q] = tables'.shown[q]
  <2>1. CASE Retire(d)
    <3>1. index' = [index EXCEPT ![d] = "retired"] /\ index[d] = "offered" /\ UNCHANGED <<tables, tx>>
      BY <2>1 DEF Retire
    <3>2. Gone' = Gone
      BY <1>1, <3>1 DEF Gone
    <3> QED BY <3>1, <3>2
  <2>2. CASE d \in Docs /\ Purge(d)
    <3>1. /\ index' = [index EXCEPT ![d] = "gone"] /\ tables' = Without(d, tables)
          /\ tx' = [tx EXCEPT !.before = {Without(d, t) : t \in tx.before}]
      BY <2>2, Zenon DEF Purge
    <3>2. \A t \in LooseTables, q \in Runs : Without(d, t).shown[q] = t.shown[q] \ {d}
      BY DEF Without, LooseTables
    <3>3. tx'.before = {Without(d, t) : t \in tx.before}
      <4> DEFINE left == {Without(d, t) : t \in tx.before}
      <4>1. tx' = [tx EXCEPT !.before = left]
        BY <3>1
      <4> HIDE DEF left
      <4>2. tx'.before = left
        BY <4>1 DEF TracedInv, DeskInv, DeskTypes
      <4> QED BY <4>2 DEF left
    <3>4. Gone' = Gone \cup {d}
      BY <1>1, <2>2, <3>1 DEF Gone
    <3>5. \A q \in Runs : tables'.shown[q] = tables.shown[q] \ {d}
      BY <1>1, <3>1, <3>2
    <3>6. ASSUME NEW q \in Runs, NEW t \in tx'.before
          PROVE  \E x \in tx.before : x.shown[q] = tables.shown[q] => t.shown[q] = tables'.shown[q]
      <4>1. PICK x \in tx.before : t = Without(d, x)
        BY <3>3
      <4>2. t.shown[q] = x.shown[q] \ {d}
        BY <1>1, <3>2, <4>1
      <4> QED BY <3>5, <4>2
    <3> QED BY <3>4, <3>5, <3>6
  <2> QED BY <2>1, <2>2
<1>3. ASSUME NEW s \in Requests, At(s, "storing")'
      PROVE  \A t \in tx'.before, q \in Runs : q # request'[s].run => t.shown[q] = tables'.shown[q]
  <2> SUFFICES ASSUME NEW t \in tx'.before, NEW q \in Runs, q # request[s].run
               PROVE  t.shown[q] = tables'.shown[q]
    BY <1>1
  <2>1. PICK x \in tx.before : x.shown[q] = tables.shown[q] => t.shown[q] = tables'.shown[q]
    BY <1>2
  <2>2. x.shown[q] = tables.shown[q]
    BY <1>1, <1>3 DEF TracedInv, TraceInv, At
  <2> QED BY <2>1, <2>2
<1>4. \A s \in Requests : request'[s].at \in DraftStages =>
        request'[s].results \subseteq tables'.shown[request'[s].run] \cup Gone'
  <2>1. \A s \in Requests : request[s].at \in DraftStages =>
          request[s].run \in Runs /\ request[s].results \subseteq tables.shown[request[s].run] \cup Gone
    BY DEF TracedInv, TraceInv, DraftStages, At
  <2> QED BY <1>1, <1>2, <2>1
<1>5. CitesResolve'
  <2> SUFFICES ASSUME NEW m \in drafted
               PROVE  (UNION {p.cites : p \in m.draft.parts}) \cup m.draft.points \subseteq Traceable(m)'
    BY <1>1 DEF CitesResolve
  <2>1. m.run \in Runs
    BY DEF TracedInv, TraceInv, At
  <2>2. Traceable(m) \subseteq Traceable(m)'
    BY <1>2, <2>1 DEF Traceable, Gone
  <2> QED BY <2>2 DEF TracedInv, CitesResolve
<1> QED BY <1>1, <1>3, <1>4, <1>5 DEF TracedInv, TraceInv, At

LEMMA NextTraced ==
  ASSUME TracedInv, [Next]_vars
  PROVE  TracedInv'
<1>1. ASSUME NEW r \in Requests, Proceed(r)
      PROVE  TraceInv' /\ CitesResolve'
  BY <1>1, StoringTraced, ReadTraced DEF Proceed
<1>2. ASSUME WindowPasses \/ UNCHANGED vars
      PROVE  TraceInv' /\ CitesResolve'
  <2>1. UNCHANGED <<index, tables, tx, request, drafted>>
    BY <1>2 DEF WindowPasses, vars
  <2>2. CitesResolve'
    BY <2>1 DEF TracedInv, CitesResolve, Traceable
  <2>3. TraceInv'
    <3>1. \A s \in Requests : ~At(s, "idle")' => request'[s].run \in Runs
      BY <2>1 DEF TracedInv, TraceInv, At
    <3>2. \A s \in Requests, w \in Requests : s # w /\ request'[s].at \in Storing => request'[w].run # request'[s].run
      BY <2>1 DEF TracedInv, TraceInv
    <3>3. \A s \in Requests : At(s, "storing")' =>
            \A t \in tx'.before, q \in Runs : q # request'[s].run => t.shown[q] = tables'.shown[q]
      BY <2>1 DEF TracedInv, TraceInv, At
    <3>4. \A s \in Requests : request'[s].at \in DraftStages =>
            request'[s].results \subseteq tables'.shown[request'[s].run] \cup Gone'
      BY <2>1 DEF TracedInv, TraceInv, Gone
    <3>5. \A m \in drafted' : m.by \in Requests /\ At(m.by, "made")' /\ m.run = request'[m.by].run
      BY <2>1 DEF TracedInv, TraceInv, At
    <3> QED BY <3>1, <3>2, <3>3, <3>4, <3>5 DEF TraceInv
  <2> QED BY <2>2, <2>3
<1>3. TraceInv' /\ CitesResolve'
  BY <1>1, <1>2, AskTraced, AnswerTraced, RetireTraced DEF Next
<1>4. DeskInv'
  BY NextDesk DEF TracedInv
<1> QED BY <1>3, <1>4 DEF TracedInv

(* Whatever the model cites, a part or key point of a draft names only      *)
(* attached documents it was given and replies the stored search shows or a *)
(* purge took, however searches, rollbacks, retirements and purges come     *)
(* between (assist._verify_cites, save_run, _load_results).                 *)
THEOREM CitationsResolve == Spec => []CitesResolve
<1>1. Init => TracedInv
  <2>1. ASSUME Init PROVE CitesResolve /\ TraceInv
    <3>1. Idle.at = "idle"
      BY DEF Idle
    <3>2. \A r \in Requests : request[r].at = "idle"
      BY <2>1, <3>1 DEF Init
    <3> QED BY <2>1, <3>2 DEF Init, CitesResolve, TraceInv, At, Storing, DraftStages
  <2> QED BY <2>1, InitDesk DEF TracedInv
<1>2. TracedInv /\ [Next]_vars => TracedInv'
  BY NextTraced
<1>3. TracedInv => CitesResolve
  BY DEF TracedInv
<1> QED BY <1>1, <1>2, <1>3, PTL DEF Spec
=============================================================================
