------------------------------ MODULE OfficerDesk ------------------------------
(***************************************************************************)
(* What officers do with a search: it is stored (feedback/store), voted on *)
(* (app.feedback) and drafted from (draft_routes).  The API serves every    *)
(* request in a thread of its own and all of them over one connection: a    *)
(* statement of one request that runs while another one has a transaction   *)
(* open is part of that transaction.                                        *)
(***************************************************************************)
EXTENDS DraftAssist, ModelClient

CONSTANTS
  Requests,    \* request threads
  Runs,        \* searches
  Upsets,      \* what may happen: "shared transactions", "retirements"
  MaxAsks,     \* bound: requests
  Nobody,      \* no request
  NoRun

ASSUME DeskAssumption ==
  Nobody \notin Requests /\ NoRun \notin Runs /\ Upsets \subseteq {"shared transactions", "retirements"}

VARIABLES
  index,     \* whether a document is offered, retired, or its row is "gone"
  tables,    \* query_runs, query_results, feedback and query_audit
  tx,        \* the transaction open on the connection, with what it replaces
  request,   \* what each request is at and has read
  asks,      \* bound: requests so far
  sent,      \* model calls within the window (_call_times)
  acked,     \* for the properties: what officers were told is recorded
  drafted    \* for the properties: a draft that was made, what it was made of

vars == <<index, tables, tx, request, asks, sent, acked, drafted>>

Vote == {"none", "up", "down"}

(* A vote is about one result, or about the search as a whole.              *)
Targets == {{d} : d \in Docs} \cup {{}}
Tables == [runs: SUBSET Runs, shown: [Runs -> SUBSET Docs], votes: [Runs \X Targets -> Vote],
           drafts: SUBSET Runs]
Closed == [by |-> Nobody, before |-> {}]
Idle == [at |-> "idle", run |-> NoRun, doc |-> {}, vote |-> "none", results |-> {}, given |-> {},
         tries |-> 0]

Init ==
  /\ index = [d \in Docs \cup Attached |-> "offered"]
  /\ tables = [runs |-> {}, shown |-> [q \in Runs |-> {}],
               votes |-> [v \in Runs \X Targets |-> "none"], drafts |-> {}]
  /\ tx = Closed
  /\ request = [r \in Requests |-> Idle]
  /\ asks = 0 /\ sent = 0
  /\ acked = [votes |-> [v \in Runs \X Targets |-> "none"], drafts |-> {}]
  /\ drafted = {}

-----------------------------------------------------------------------------
At(r, stage) == request[r].at = stage
Goto(r, stage) == request' = [request EXCEPT ![r].at = stage]
Leave(r) == request' = [request EXCEPT ![r] = Idle]
Only(r) == UNCHANGED <<index, tables, tx, asks, sent, acked, drafted>>
Joins(r) == tx.by = Nobody \/ "shared transactions" \in Upsets
Offered == {d \in DOMAIN index : index[d] = "offered"}

(* The officer has the id of a search once the search was answered.         *)
Known(q) == \A s \in Requests : request[s].run = q => ~At(s, "found") /\ ~At(s, "storing")

(* Whoever is logged in is looked up first, and that lookup commits: inside *)
(* another request's transaction the commit raises and the request is over. *)
Enter(r, next) ==
  /\ At(r, "idle") /\ tx.by = Nobody
  /\ asks < MaxAsks /\ asks' = asks + 1
  /\ request' = [request EXCEPT ![r] = next]
  /\ UNCHANGED <<index, tables, tx, sent, acked, drafted>>

Search(r, q) ==
  /\ q \notin tables.runs /\ \A s \in Requests : request[s].run # q
  /\ \E found \in SUBSET (Offered \cap Docs) :
       Enter(r, [Idle EXCEPT !.at = "found", !.run = q, !.results = found])

AskVote(r, q, target, verdict) ==
  /\ Known(q)
  /\ Enter(r, [Idle EXCEPT !.at = "voting", !.run = q, !.doc = target, !.vote = verdict])

AskDraft(r, q, ids) ==
  /\ Known(q)
  /\ Enter(r, [Idle EXCEPT !.at = "drafting", !.run = q, !.given = ids])

-----------------------------------------------------------------------------
(* save_run: one transaction, best effort; two of them do not overlap here. *)

BeginTrace(r) ==
  /\ At(r, "found") /\ tx.by = Nobody
  /\ tx' = [by |-> r, before |-> {tables}]
  /\ tables' = [tables EXCEPT !.runs = @ \cup {request[r].run}]
  /\ Goto(r, "storing")
  /\ UNCHANGED <<index, asks, sent, acked, drafted>>

Missing(r) == request[r].results \ tables.shown[request[r].run]

(* A result whose document was removed meanwhile has nothing to refer to:   *)
(* the transaction is undone, and the officer gets the results all the same. *)
TraceRow(r) ==
  /\ At(r, "storing")
  /\ \E d \in Missing(r) :
       /\ index[d] # "gone"
       /\ tables' = [tables EXCEPT !.shown[request[r].run] = @ \cup {d}]
  /\ UNCHANGED <<index, tx, request, asks, sent, acked, drafted>>

TraceFails(r) ==
  /\ At(r, "storing")
  /\ \E d \in Missing(r) : index[d] = "gone"
  /\ tables' \in tx.before
  /\ tx' = Closed
  /\ Leave(r)
  /\ UNCHANGED <<index, asks, sent, acked, drafted>>

EndTrace(r) ==
  /\ At(r, "storing") /\ Missing(r) = {}
  /\ tx' = Closed
  /\ Leave(r)
  /\ UNCHANGED <<index, tables, asks, sent, acked, drafted>>

-----------------------------------------------------------------------------
(* record_feedback: is there such a run, was the document shown (a vote on  *)
(* the whole search has none), upsert.                                      *)

CheckRun(r) ==
  /\ At(r, "voting")
  /\ IF request[r].run \in tables.runs THEN Goto(r, "checking") ELSE Leave(r)
  /\ Only(r)

CheckShown(r) ==
  /\ At(r, "checking")
  /\ IF request[r].doc \subseteq tables.shown[request[r].run] THEN Goto(r, "storing vote") ELSE Leave(r)
  /\ Only(r)

(* Mutant: a second vote on the same result is ignored.                     *)
Revised_KeepsFirst(old, new) == IF old = "none" THEN new ELSE old
Revised(old, new) == new

(* The document a vote is about is gone: its row refers to nothing.         *)
Lost(v) == \E d \in v[2] : index[d] = "gone"

StoreVote(r) ==
  /\ At(r, "storing vote") /\ Joins(r)
  /\ LET v == <<request[r].run, request[r].doc>> IN
     IF Lost(v) \/ request[r].run \notin tables.runs THEN UNCHANGED <<tables, acked>>
     ELSE /\ tables' = [tables EXCEPT !.votes[v] = Revised(@, request[r].vote)]
          /\ acked' = [acked EXCEPT !.votes[v] = request[r].vote]
  /\ Leave(r)
  /\ UNCHANGED <<index, tx, asks, sent, drafted>>

-----------------------------------------------------------------------------
(* _build: the run, what it showed and is still offered, what was attached  *)
(* and is still active, then the model.                                     *)

ReadRun(r) ==
  /\ At(r, "drafting")
  /\ IF request[r].run \in tables.runs THEN Goto(r, "reading") ELSE Leave(r)
  /\ Only(r)

ReadResults(r) ==
  /\ At(r, "reading")
  /\ \E usable \in SUBSET (tables.shown[request[r].run] \cap Offered) :
       request' = [request EXCEPT ![r].at = "attaching", ![r].results = usable]
  /\ Only(r)

ReadAttached(r) ==
  /\ At(r, "attaching")
  /\ LET given == request[r].given \cap Offered IN
     IF request[r].results = {} /\ given = {} THEN Leave(r)
     ELSE request' = [request EXCEPT ![r].at = "asking", ![r].given = given, ![r].tries = 1]
  /\ Only(r)

(* _throttle looks at the window, then enters the call into it.             *)
Pace(r) == At(r, "asking") /\ sent < Rpm /\ Goto(r, "sending") /\ Only(r)

Send(r) ==
  /\ At(r, "sending")
  /\ sent' = sent + 1
  /\ Goto(r, "waiting")
  /\ UNCHANGED <<index, tables, tx, asks, acked, drafted>>

WindowPasses ==
  /\ sent > 0 /\ sent' = sent - 1
  /\ UNCHANGED <<index, tables, tx, request, asks, acked, drafted>>

AskAgain(r, outcome) ==
  /\ At(r, "waiting") /\ AsksAgain(Text, request[r].tries, outcome)
  /\ request' = [request EXCEPT ![r].at = "asking", ![r].tries = Tried(@)]
  /\ Only(r)

(* No answer, or nothing that can be used: the officer is told that no      *)
(* draft is available, and that is recorded like a draft.                   *)
NoAnswer(r, outcome) ==
  /\ At(r, "waiting")
  /\ Fails(Text, request[r].tries, outcome) \/ Succeeds(Text, outcome)
  /\ Goto(r, "made")
  /\ Only(r)

(* One draft at a time is kept for the properties.                          *)
Answer(r) ==
  /\ At(r, "waiting")
  /\ \/ drafted # {} /\ UNCHANGED drafted
     \/ /\ drafted = {}
        /\ \E o \in Output :
             /\ Usable(o)
             /\ drafted' = {[by |-> r, run |-> request[r].run, given |-> request[r].given,
                             labels |-> {p.label : p \in o.parts},
                             draft |-> Draft(o, request[r].results, request[r].given)]}
  /\ Goto(r, "made")
  /\ UNCHANGED <<index, tables, tx, asks, sent, acked>>

(* The audit row names the run; its commit is refused inside a transaction, *)
(* which is logged and nothing else.                                        *)
Deliver(r) ==
  /\ At(r, "made") /\ Joins(r)
  /\ drafted' = {d \in drafted : d.by # r}
  /\ tables' = [tables EXCEPT !.drafts = @ \cup {request[r].run}]
  /\ acked' = [acked EXCEPT !.drafts = @ \cup {request[r].run}]
  /\ Leave(r)
  /\ UNCHANGED <<index, tx, asks, sent>>

-----------------------------------------------------------------------------
(* The watcher retires documents; a purge removes them, their               *)
(* results and votes, and waits for a transaction that refers to them.      *)

Retire(d) ==
  /\ "retirements" \in Upsets /\ index[d] = "offered"
  /\ index' = [index EXCEPT ![d] = "retired"]
  /\ UNCHANGED <<tables, tx, request, asks, sent, acked, drafted>>

Without(d, t) ==
  [t EXCEPT !.shown = [q \in Runs |-> @[q] \ {d}],
            !.votes = [v \in Runs \X Targets |-> IF d \in v[2] THEN "none" ELSE @[v]]]

Traced(d) == \E r \in Requests : At(r, "storing") /\ d \in tables.shown[request[r].run]

Purge(d) ==
  /\ "retirements" \in Upsets /\ index[d] = "retired" /\ ~Traced(d)
  /\ index' = [index EXCEPT ![d] = "gone"]
  /\ tables' = Without(d, tables)
  /\ tx' = [tx EXCEPT !.before = {Without(d, t) : t \in @}]
  /\ UNCHANGED <<request, asks, sent, acked, drafted>>

Proceed(r) ==
  \/ BeginTrace(r) \/ TraceRow(r) \/ TraceFails(r) \/ EndTrace(r)
  \/ CheckRun(r) \/ CheckShown(r) \/ StoreVote(r)
  \/ ReadRun(r) \/ ReadResults(r) \/ ReadAttached(r) \/ Pace(r) \/ Send(r)
  \/ \E outcome \in Outcomes : AskAgain(r, outcome) \/ NoAnswer(r, outcome)
  \/ Deliver(r)

Ask(r) ==
  \E q \in Runs :
    \/ Search(r, q)
    \/ \E target \in Targets, verdict \in {"up", "down"} : AskVote(r, q, target, verdict)
    \/ \E ids \in SUBSET Attached : AskDraft(r, q, ids)

Next ==
  \/ \E r \in Requests : Ask(r) \/ Proceed(r) \/ Answer(r)
  \/ \E d \in Docs \cup Attached : Retire(d)
  \/ \E d \in Docs : Purge(d)
  \/ WindowPasses

Spec == Init /\ [][Next]_vars

(* Request threads go on, model calls have timeouts (a request that waits   *)
(* is answered or not, Answer or NoAnswer), and time passes.                *)
FairSpec == Spec /\ WF_vars(WindowPasses) /\ \A r \in Requests : WF_vars(Proceed(r))

-----------------------------------------------------------------------------
(* Whatever the model cites, and whatever is stored, retired or purged      *)
(* while the draft is made, a part or key point of the draft can be traced: *)
(* it names an attached document the model was given, or a reply that the   *)
(* stored search it was drafted from shows, unless a purge took that reply  *)
(* (_verify_cites, "CITATIONS ARE VERIFIED, NEVER TRUSTED"; _audit, "'which *)
(* retrieved set produced this draft' has to be answerable").               *)
Traceable(m) == m.given \cup tables.shown[m.run] \cup {d \in Docs : index[d] = "gone"}
CitesResolve ==
  \A m \in drafted : (UNION {p.cites : p \in m.draft.parts}) \cup m.draft.points \subseteq Traceable(m)

(* What the model could not answer stays in sight: no part of the draft is  *)
(* empty, a label it emitted is answered or a gap, and a document it was    *)
(* given is cited or spoken of by the finished draft, not by a part that    *)
(* was moved out of it (_empty_parts_become_gaps, _flag_unused_docs).       *)
NothingVanishes ==
  \A m \in drafted :
    /\ \A p \in m.draft.parts : ~IsEmpty(p)
    /\ \A x \in m.labels : (\E p \in m.draft.parts : p.label = x) \/ (\E g \in m.draft.gaps : g.part = x)
    /\ \A a \in m.given : a \in Cited(m.draft) \/ Mentioned(m.draft, a)

(* A vote an officer was told is recorded is the one that is stored, and a  *)
(* draft that was delivered has its audit row, as long as no search fails   *)
(* to be stored (record_feedback, "the row must reflect the latest          *)
(* opinion"; _audit, "every draft and every download is recorded").         *)
AckedIsKept ==
  /\ acked.drafts \subseteq tables.drafts
  /\ \A v \in Runs \X Targets : acked.votes[v] = "none" \/ Lost(v) \/ acked.votes[v] = tables.votes[v]

(* Every request is answered: pacing and retries end.                       *)
EveryRequestEnds == \A r \in Requests : []<>At(r, "idle")

(* Not kept: the citations of a contradiction are shown as they came        *)
(* (_verify_cites, "Every citation the model emits is checked").            *)
EveryCiteResolves == \A m \in drafted : Cited(m.draft) \subseteq Traceable(m)

(* Not kept: any gap about attached documents excuses all of them.          *)
UnusedIsFlagged ==
  \A m \in drafted : \A a \in m.given :
    \/ a \in Cited(m.draft) \cup m.draft.unused
    \/ \E g \in m.draft.gaps : g.about = a

(* Not kept: a table without columns counts as an answer and prints nothing. *)
PartsPrint == \A m \in drafted : m.draft.parts = Printed(m.draft)

(* Not kept: two threads pass the throttle side by side.                    *)
WithinRate == sent <= Rpm
=============================================================================
