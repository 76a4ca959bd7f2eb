----------------------------- MODULE CorpusProofs -----------------------------
(***************************************************************************)
(* What upserts over one shared organized/ tree promise, for any number of *)
(* workers, documents and changes, and under which disturbances.  The      *)
(* argument: a worker keeps its row and its folder stays (Owned); what is  *)
(* parsed lies in age between what is loaded and the copy (OrderInv); once *)
(* a job's crawl has reached its own folder, other crawls only remove or   *)
(* repeat what it needs (FreshInv); what nobody has to work on is in sync  *)
(* (SyncInv).  A hard delete and a purge break this only by meeting a job  *)
(* of the same folder, so each theorem names that meeting and allows the   *)
(* rest of what they do (DeletesApart, PurgesApart).                       *)
(***************************************************************************)
EXTENDS Corpus, TLAPS

(***************************************************************************)
(* Types.                                                                   *)
(***************************************************************************)
Holder == {"none", "pending", "failed"} \cup Workers
Tries == 0..MaxAttempts
JobState == [by: Holder, tries: Tries]
CopyState == [dir: BOOLEAN, copy: Version, parsed: Version, blank: BOOLEAN]
RowState ==
  [row: BOOLEAN, text: Version, vector: Version, active: BOOLEAN, unread: {"no", "kept", "hidden"}]
WorkState ==
  [at: Stages, doc: Docs \cup {"none"}, todo: SUBSET Docs, held: SUBSET Note,
   bad: BOOLEAN, seen: Version]
DeleteStages == {"none", "rows", "diary", "organized", "source", "queue"}
DeleteState == [at: DeleteStages, doc: Docs \cup {"none"}, known: BOOLEAN]

(* A hard delete in progress has a document.                                *)
DeletesDoc == admin.at # "none" => admin.doc \in Docs

(* And so has a job.                                                        *)
WorksOnDoc == \A w \in Workers : work[w].at # "idle" => work[w].doc \in Docs

Typed ==
  /\ source \in [Docs -> Version] /\ edits \in Version
  /\ noticed \in SUBSET Docs
  /\ job \in [Docs -> JobState]
  /\ organized \in [Docs -> CopyState]
  /\ index \in [Docs -> RowState]
  /\ work \in [Workers -> WorkState]
  /\ purge \in SUBSET Docs
  /\ admin \in DeleteState
  /\ DeletesDoc /\ WorksOnDoc

LEMMA TypedIsTypeOK == Typed => TypeOK
BY DEF Typed, TypeOK, JobState, Holder, Tries, CopyState, RowState, WorkState, DeleteState,
   DeleteStages

LEMMA Zero == 0 \in Version /\ 0 \in Tries /\ {} \in SUBSET Docs /\ {} \in SUBSET Note
BY CorpusAssumption DEF Version, Tries

LEMMA StageNames ==
  /\ "idle" \in Stages /\ "retire" \in Stages /\ "walk" \in Stages /\ "crawl" \in Stages
  /\ "parse" \in Stages /\ "load" \in Stages /\ "embed" \in Stages /\ "store" \in Stages
BY DEF Stages

-----------------------------------------------------------------------------
(* What a step makes of a worker and of a job.                              *)

(* Of the workers only w changes.                                           *)
OnlyWorker(w) ==
  /\ work' \in [Workers -> WorkState]
  /\ \A v \in Workers : v # w => work'[v] = work[v]

(* Worker w goes on with its document like this.                            *)
Works(w, stage, todo, held, bad) ==
  /\ OnlyWorker(w)
  /\ work'[w].at = stage /\ work'[w].doc = work[w].doc /\ work'[w].todo = todo
  /\ work'[w].held = held /\ work'[w].bad = bad /\ work'[w].seen = work[w].seen

LEMMA IdleTyped == Idle \in WorkState
BY Zero, StageNames DEF Idle, WorkState

LEMMA WorkTyped ==
  ASSUME Typed, NEW w \in Workers
  PROVE /\ work[w] \in WorkState
        /\ work[w].at \in Stages /\ work[w].doc \in Docs \cup {"none"} /\ work[w].todo \in SUBSET Docs
        /\ work[w].held \in SUBSET Note /\ work[w].bad \in BOOLEAN /\ work[w].seen \in Version
<1>1. work[w] \in WorkState
  BY DEF Typed
<1> QED
  BY <1>1 DEF WorkState

LEMMA Becoming ==
  ASSUME Typed, NEW w \in Workers, NEW next \in WorkState, work' = [work EXCEPT ![w] = next]
  PROVE OnlyWorker(w) /\ work'[w] = next
<1>1. work \in [Workers -> WorkState]
  BY DEF Typed
<1> QED
  BY <1>1, Zenon DEF OnlyWorker

LEMMA GotoDoes ==
  ASSUME Typed, NEW w \in Workers, NEW stage \in Stages, NEW todo \in SUBSET Docs,
         Goto(w, stage, todo)
  PROVE Works(w, stage, todo, {}, work[w].bad)
<1> DEFINE next == [work[w] EXCEPT !.at = stage, !.todo = todo, !.held = {}]
<1>1. next \in WorkState
  BY WorkTyped, Zero DEF WorkState
<1>2. /\ next.at = stage /\ next.doc = work[w].doc /\ next.todo = todo
      /\ next.held = {} /\ next.bad = work[w].bad /\ next.seen = work[w].seen
  BY WorkTyped DEF WorkState
<1>3. work' = [work EXCEPT ![w] = next]
  BY Zenon DEF Goto
<1> HIDE DEF next
<1> QED
  BY <1>1, <1>2, <1>3, Becoming DEF Works

LEMMA DropDoes ==
  ASSUME Typed, NEW w \in Workers, NEW d, Drop(w, d)
  PROVE Works(w, work[w].at, work[w].todo \ {d}, {}, work[w].bad)
<1> DEFINE next == [work[w] EXCEPT !.todo = @ \ {d}, !.held = {}]
<1>1. next \in WorkState
  BY WorkTyped, Zero DEF WorkState
<1>2. /\ next.at = work[w].at /\ next.doc = work[w].doc /\ next.todo = work[w].todo \ {d}
      /\ next.held = {} /\ next.bad = work[w].bad /\ next.seen = work[w].seen
  BY WorkTyped DEF WorkState
<1>3. work' = [work EXCEPT ![w] = next]
  BY Zenon DEF Drop
<1> HIDE DEF next
<1> QED
  BY <1>1, <1>2, <1>3, Becoming DEF Works

LEMMA HoldDoes ==
  ASSUME Typed, NEW w \in Workers, NEW notes \in SUBSET Note, Hold(w, notes)
  PROVE Works(w, work[w].at, work[w].todo, notes, work[w].bad)
<1> DEFINE next == [work[w] EXCEPT !.held = notes]
<1>1. next \in WorkState
  BY WorkTyped, Zero DEF WorkState
<1>2. /\ next.at = work[w].at /\ next.doc = work[w].doc /\ next.todo = work[w].todo
      /\ next.held = notes /\ next.bad = work[w].bad /\ next.seen = work[w].seen
  BY WorkTyped DEF WorkState
<1>3. work' = [work EXCEPT ![w] = next]
  BY Zenon DEF Hold
<1> HIDE DEF next
<1> QED
  BY <1>1, <1>2, <1>3, Becoming DEF Works

(* The worker is idle; its row, if it still has it, goes on.                *)
Ends(w, by) ==
  /\ OnlyWorker(w) /\ work'[w] = Idle
  /\ job' \in [Docs -> JobState]
  /\ \A d \in Docs : d # work[w].doc \/ job[d].by # w => job'[d] = job[d]
  /\ \A d \in Docs : d = work[w].doc /\ job[d].by = w => job'[d].by = by

LEMMA EndedDoes ==
  ASSUME Typed, NEW w \in Workers, NEW by \in Holder, Ended(w, by)
  PROVE Ends(w, by)
<1>1. OnlyWorker(w) /\ work'[w] = Idle
  BY IdleTyped, Becoming DEF Ended
<1>2. job \in [Docs -> JobState]
  BY DEF Typed
<1>3. \A d \in Docs : /\ job[d] \in JobState /\ [job[d] EXCEPT !.by = by] \in JobState
                      /\ [job[d] EXCEPT !.by = by].by = by
  BY <1>2 DEF JobState
<1> DEFINE c == work[w].doc
           next == IF job[c].by = w THEN [job[c] EXCEPT !.by = by] ELSE job[c]
<1>4. job' = [job EXCEPT ![c] = next]
  BY Zenon DEF Ended
<1>5. c \in Docs => next \in JobState
  BY <1>3
<1>6. job' \in [Docs -> JobState]
  BY <1>2, <1>4, <1>5, Zenon
<1>7. \A d \in Docs : d # c => job'[d] = job[d]
  BY <1>2, <1>4, Zenon
<1>8. c \in Docs => job'[c] = next
  BY <1>2, <1>4, Zenon
<1> QED
  BY <1>1, <1>3, <1>6, <1>7, <1>8 DEF Ends

LEMMA DoneDoes ==
  ASSUME Typed, NEW w \in Workers, Done(w)
  PROVE Ends(w, "none")
BY EndedDoes DEF Done, Holder

LEMMA FailedDoes ==
  ASSUME Typed, NEW w \in Workers, Failed(w)
  PROVE \E by \in {"failed", "pending"} : Ends(w, by)
<1> DEFINE by == IF job[work[w].doc].tries >= MaxAttempts THEN "failed" ELSE "pending"
<1>1. by \in {"failed", "pending"} /\ by \in Holder
  BY DEF Holder
<1>2. Ended(w, by)
  BY DEF Failed
<1> QED
  BY <1>1, <1>2, EndedDoes

LEMMA FailDoes ==
  ASSUME Typed, NEW w \in Workers, Fail(w)
  PROVE \E by \in {"failed", "pending"} : Ends(w, by)
BY FailedDoes DEF Fail

LEMMA TakeDoes ==
  ASSUME Typed, NEW w \in Workers, NEW d \in Docs, Take(w, d)
  PROVE /\ OnlyWorker(w)
        /\ work'[w].at = (IF source[d] # 0 THEN "walk" ELSE "retire") /\ work'[w].doc = d
        /\ work'[w].todo = {} /\ work'[w].held = {} /\ ~work'[w].bad /\ work'[w].seen = source[d]
        /\ job' \in [Docs -> JobState] /\ job'[d].by = w
        /\ \A e \in Docs : e # d => job'[e] = job[e]
<1> DEFINE stage == IF source[d] # 0 THEN "walk" ELSE "retire"
           next == [Idle EXCEPT !.doc = d, !.seen = source[d], !.at = stage]
           mine == [job[d] EXCEPT !.by = w, !.tries = IF @ < MaxAttempts THEN @ + 1 ELSE @]
<1>1. source[d] \in Version /\ job[d] \in JobState
  BY DEF Typed
<1>2. next \in WorkState
  BY <1>1, Zero, StageNames DEF Idle, WorkState
<1>3. /\ next.at = stage /\ next.doc = d /\ next.todo = {} /\ next.held = {}
      /\ ~next.bad /\ next.seen = source[d]
  BY DEF Idle
<1>4. work' = [work EXCEPT ![w] = next]
  BY Zenon DEF Take
<1>5. job[d].tries \in Tries
      /\ (IF job[d].tries < MaxAttempts THEN job[d].tries + 1 ELSE job[d].tries) \in Tries
  BY <1>1, CorpusAssumption DEF JobState, Tries
<1>6. mine \in JobState /\ mine.by = w
  BY <1>1, <1>5 DEF JobState, Holder
<1>7. job' = [job EXCEPT ![d] = mine]
  BY Zenon DEF Take
<1> HIDE DEF next, mine
<1>8. job \in [Docs -> JobState]
  BY DEF Typed
<1>9. OnlyWorker(w) /\ work'[w] = next
  BY <1>2, <1>4, Becoming
<1>10. job' \in [Docs -> JobState] /\ job'[d] = mine /\ \A e \in Docs : e # d => job'[e] = job[e]
  BY <1>6, <1>7, <1>8, Zenon
<1> QED
  BY <1>3, <1>6, <1>9, <1>10

LEMMA LoadFailsDoes ==
  ASSUME Typed, NEW w \in Workers, NEW d \in Docs, LoadFails(w, d)
  PROVE Works(w, work[w].at, work[w].todo \ {d}, work[w].held, TRUE)
<1> DEFINE next == [work[w] EXCEPT !.todo = @ \ {d}, !.bad = TRUE]
<1>1. next \in WorkState
  BY WorkTyped DEF WorkState
<1>2. /\ next.at = work[w].at /\ next.doc = work[w].doc /\ next.todo = work[w].todo \ {d}
      /\ next.held = work[w].held /\ next.bad = TRUE /\ next.seen = work[w].seen
  BY WorkTyped DEF WorkState
<1>3. work' = [work EXCEPT ![w] = next]
  BY Zenon DEF LoadFails
<1> HIDE DEF next
<1> QED
  BY <1>1, <1>2, <1>3, Becoming DEF Works

-----------------------------------------------------------------------------
(* What a step makes of the copies and of the index.                        *)

OnlyCopy(d) ==
  /\ organized' \in [Docs -> CopyState]
  /\ \A e \in Docs : e # d => organized'[e] = organized[e]

OnlyRow(d) ==
  /\ index' \in [Docs -> RowState]
  /\ \A e \in Docs : e # d => index'[e] = index[e]

LEMMA CopyTyped ==
  ASSUME Typed, NEW d \in Docs
  PROVE /\ organized[d] \in CopyState
        /\ organized[d].dir \in BOOLEAN /\ organized[d].copy \in Version /\ organized[d].parsed \in Version
        /\ organized[d].blank \in BOOLEAN
<1>1. organized[d] \in CopyState
  BY DEF Typed
<1> QED
  BY <1>1 DEF CopyState

LEMMA RowTyped ==
  ASSUME Typed, NEW d \in Docs
  PROVE /\ index[d] \in RowState
        /\ index[d].row \in BOOLEAN /\ index[d].text \in Version /\ index[d].vector \in Version
        /\ index[d].active \in BOOLEAN /\ index[d].unread \in {"no", "kept", "hidden"}
<1>1. index[d] \in RowState
  BY DEF Typed
<1> QED
  BY <1>1 DEF RowState

LEMMA Copying ==
  ASSUME Typed, NEW d \in Docs, NEW next \in CopyState, organized' = [organized EXCEPT ![d] = next]
  PROVE OnlyCopy(d) /\ organized'[d] = next
<1>1. organized \in [Docs -> CopyState]
  BY DEF Typed
<1> QED
  BY <1>1, Zenon DEF OnlyCopy

LEMMA Indexing ==
  ASSUME Typed, NEW d \in Docs, NEW next \in RowState, index' = [index EXCEPT ![d] = next]
  PROVE OnlyRow(d) /\ index'[d] = next
<1>1. index \in [Docs -> RowState]
  BY DEF Typed
<1> QED
  BY <1>1, Zenon DEF OnlyRow

LEMMA NoteTyped ==
  ASSUME Typed, NEW w \in Workers, NEW n \in work[w].held
  PROVE n \in Note /\ n.doc \in Docs /\ n.text \in Version /\ n.blank \in BOOLEAN
<1>1. n \in Note
  BY WorkTyped
<1> QED
  BY <1>1 DEF Note

LEMMA OfTyped ==
  ASSUME NEW d \in Docs, NEW v \in Version
  PROVE {Of(d, v)} \in SUBSET Note /\ \A n \in {Of(d, v)} : n.doc = d /\ n.text = v /\ ~n.blank
BY DEF Of, Note

LEMMA ResetDoes ==
  ASSUME Typed, NEW w \in Workers, NEW d \in Docs, Reset(w, d)
  PROVE /\ Works(w, work[w].at, work[w].todo, {Of(d, 0)}, work[w].bad)
        /\ OnlyCopy(d) /\ organized'[d].copy = 0 /\ organized'[d].parsed = 0 /\ ~organized'[d].blank
<1>1. {Of(d, 0)} \in SUBSET Note
  BY Zero, OfTyped
<1>2. EmptyDir \in CopyState /\ EmptyDir.copy = 0 /\ EmptyDir.parsed = 0 /\ ~EmptyDir.blank
  BY Zero DEF EmptyDir, NoDir, CopyState
<1> QED
  BY <1>1, <1>2, HoldDoes, Copying DEF Reset

LEMMA LockedDoes ==
  ASSUME Typed, NEW w \in Workers, NEW d \in Docs, Locked(w, d)
  PROVE /\ Works(w, work[w].at, work[w].todo \ {d}, {}, work[w].bad)
        /\ OnlyCopy(d)
        /\ organized'[d].copy \in {0, organized[d].copy}
        /\ organized'[d].parsed \in {0, organized[d].parsed}
        /\ organized'[d].blank = organized[d].blank
<1>1. Works(w, work[w].at, work[w].todo \ {d}, {}, work[w].bad)
  BY DropDoes DEF Locked
<1>2. PICK copyGone \in BOOLEAN, parsedGone \in BOOLEAN :
        organized' = [organized EXCEPT ![d].copy = IF copyGone THEN 0 ELSE @,
                                       ![d].parsed = IF parsedGone THEN 0 ELSE @]
  BY Zenon DEF Locked
<1> DEFINE next == [organized[d] EXCEPT !.copy = IF copyGone THEN 0 ELSE @,
                                        !.parsed = IF parsedGone THEN 0 ELSE @]
<1>3. next \in CopyState
  BY CopyTyped, Zero DEF CopyState
<1>4. /\ next.copy \in {0, organized[d].copy} /\ next.parsed \in {0, organized[d].parsed}
      /\ next.blank = organized[d].blank
  BY CopyTyped DEF CopyState
<1>5. organized' = [organized EXCEPT ![d] = next]
  BY <1>2, Zenon
<1> HIDE DEF next
<1> QED
  BY <1>1, <1>3, <1>4, <1>5, Copying

LEMMA CopyDoes ==
  ASSUME Typed, NEW w \in Workers, Copy(w)
  PROVE \E n \in work[w].held :
          /\ source[n.doc] # 0
          /\ Works(w, work[w].at, work[w].todo \ {n.doc}, {}, work[w].bad)
          /\ OnlyCopy(n.doc)
          /\ organized'[n.doc].copy = source[n.doc]
          /\ organized'[n.doc].parsed = organized[n.doc].parsed
          /\ organized'[n.doc].blank = organized[n.doc].blank
<1>1. PICK n \in work[w].held :
        /\ source[n.doc] # 0
        /\ organized' = [organized EXCEPT ![n.doc].dir = TRUE, ![n.doc].copy = source[n.doc]]
        /\ Drop(w, n.doc)
  BY Zenon DEF Copy
<1>2. n.doc \in Docs
  BY NoteTyped
<1>3. source[n.doc] \in Version
  BY <1>2 DEF Typed
<1> DEFINE next == [organized[n.doc] EXCEPT !.dir = TRUE, !.copy = source[n.doc]]
<1>4. /\ next \in CopyState /\ next.copy = source[n.doc] /\ next.parsed = organized[n.doc].parsed
      /\ next.blank = organized[n.doc].blank
  BY <1>2, <1>3, CopyTyped DEF CopyState
<1>5. organized' = [organized EXCEPT ![n.doc] = next]
  BY <1>1, Zenon
<1> HIDE DEF next
<1>6. OnlyCopy(n.doc) /\ organized'[n.doc] = next
  BY <1>2, <1>4, <1>5, Copying
<1>7. Works(w, work[w].at, work[w].todo \ {n.doc}, {}, work[w].bad)
  BY <1>1, DropDoes
<1> QED
  BY <1>1, <1>4, <1>6, <1>7

LEMMA WriteParsedDoes ==
  ASSUME Typed, NEW w \in Workers, WriteParsed(w)
  PROVE \E n \in work[w].held :
          /\ Works(w, work[w].at, work[w].todo \ {n.doc}, {}, work[w].bad)
          /\ OnlyCopy(n.doc)
          /\ organized'[n.doc].copy = organized[n.doc].copy
          /\ organized'[n.doc].parsed \in {n.text, organized[n.doc].parsed}
          /\ organized'[n.doc].blank \in {n.blank, organized[n.doc].blank}
<1>1. PICK n \in work[w].held :
        /\ organized' = IF organized[n.doc].dir
                        THEN [organized EXCEPT ![n.doc].parsed = n.text, ![n.doc].blank = n.blank]
                        ELSE organized
        /\ Drop(w, n.doc)
  BY Zenon DEF WriteParsed
<1>2. n.doc \in Docs /\ n.text \in Version /\ n.blank \in BOOLEAN
  BY NoteTyped
<1>3. Works(w, work[w].at, work[w].todo \ {n.doc}, {}, work[w].bad)
  BY <1>1, DropDoes
<1> DEFINE next == [organized[n.doc] EXCEPT !.parsed = n.text, !.blank = n.blank]
<1>4. CASE organized[n.doc].dir
  <2>1. /\ next \in CopyState /\ next.copy = organized[n.doc].copy
        /\ next.parsed = n.text /\ next.blank = n.blank
    BY <1>2, CopyTyped DEF CopyState
  <2>2. organized' = [organized EXCEPT ![n.doc] = next]
    BY <1>1, <1>4, Zenon
  <2> HIDE DEF next
  <2>3. OnlyCopy(n.doc) /\ organized'[n.doc] = next
    BY <1>2, <2>1, <2>2, Copying
  <2> QED
    BY <1>3, <2>1, <2>3
<1>5. CASE ~organized[n.doc].dir
  BY <1>1, <1>3, <1>5 DEF OnlyCopy, Typed
<1> QED
  BY <1>4, <1>5

(* A record with an answer replaces the text.  One without leaves it, and   *)
(* is noted unless the text is the one it would have had.                   *)
Unread(r) == IF r.unread = "hidden" \/ (r.row /\ ~r.active) THEN "hidden" ELSE "kept"

LEMMA LoadDoes ==
  ASSUME Typed, NEW w \in Workers, NEW d \in Docs, Load(w, d)
  PROVE /\ Works(w, work[w].at, work[w].todo \ {d}, {}, work[w].bad)
        /\ OnlyRow(d) /\ index'[d].row
        /\ index'[d].active = (index[d].row => index[d].active)
        /\ \/ index'[d].text = organized[d].parsed /\ index'[d].unread = "no"
           \/ /\ organized[d].blank
              /\ index'[d].text = index[d].text /\ index'[d].unread = Unread(index[d])
<1>1. Works(w, work[w].at, work[w].todo \ {d}, {}, work[w].bad)
  BY DropDoes DEF Load
<1> DEFINE next == Loaded(index[d], organized[d])
<1>2. /\ index[d] \in RowState /\ organized[d].parsed \in Version /\ organized[d].blank \in BOOLEAN
      /\ index[d].row \in BOOLEAN /\ index[d].active \in BOOLEAN
  BY RowTyped, CopyTyped
<1>3. /\ next.row /\ next.active = (index[d].row => index[d].active)
      /\ next.text = (IF organized[d].blank THEN index[d].text ELSE organized[d].parsed)
      /\ next.vector = index[d].vector
      /\ next.unread = (IF ~organized[d].blank \/ index[d].text = organized[d].parsed
                        THEN "no" ELSE Unread(index[d]))
  BY <1>2 DEF Loaded, RowState, Unread
<1>4. next \in RowState
  BY <1>2 DEF Loaded, RowState
<1>5. index' = [index EXCEPT ![d] = next]
  BY Zenon DEF Load
<1> HIDE DEF next
<1>6. OnlyRow(d) /\ index'[d] = next
  BY <1>4, <1>5, Indexing
<1> QED
  BY <1>1, <1>3, <1>6

(* A vector changes nothing else of a row.                                  *)
VectorsOnly ==
  /\ index' \in [Docs -> RowState]
  /\ \A d \in Docs : /\ index'[d].row = index[d].row /\ index'[d].text = index[d].text
                     /\ index'[d].active = index[d].active /\ index'[d].unread = index[d].unread

LEMMA WithVectorsDoes ==
  ASSUME Typed, NEW notes \in SUBSET Note, index' = WithVectors(notes)
  PROVE VectorsOnly
<1> DEFINE Chosen(d) == CHOOSE n \in notes : n.doc = d
           New(d) == IF index[d].text # 0 /\ \E n \in notes : n.doc = d
                     THEN [index[d] EXCEPT !.vector = Chosen(d).text]
                     ELSE index[d]
<1>1. ASSUME NEW d \in Docs
      PROVE /\ New(d) \in RowState /\ New(d).row = index[d].row /\ New(d).text = index[d].text
            /\ New(d).active = index[d].active /\ New(d).unread = index[d].unread
  <2>1. CASE index[d].text # 0 /\ \E n \in notes : n.doc = d
    <3>1. Chosen(d) \in notes
      BY <2>1
    <3>2. Chosen(d).text \in Version
      BY <3>1 DEF Note
    <3> HIDE DEF Chosen
    <3> QED
      BY <2>1, <3>2, RowTyped DEF RowState
  <2>2. CASE ~(index[d].text # 0 /\ \E n \in notes : n.doc = d)
    BY <2>2, RowTyped
  <2> QED
    BY <2>1, <2>2
<1>2. index' = [d \in Docs |-> New(d)]
  BY Zenon DEF WithVectors
<1> HIDE DEF New
<1> QED
  BY <1>1, <1>2 DEF VectorsOnly

LEMMA ActiveDoes ==
  ASSUME Typed, NEW d \in Docs, NEW on \in BOOLEAN, index' = [index EXCEPT ![d].active = on]
  PROVE /\ OnlyRow(d) /\ index'[d].row = index[d].row /\ index'[d].text = index[d].text
        /\ index'[d].active = on /\ index'[d].unread = index[d].unread
<1> DEFINE next == [index[d] EXCEPT !.active = on]
<1>1. /\ next \in RowState /\ next.row = index[d].row /\ next.text = index[d].text /\ next.active = on
      /\ next.unread = index[d].unread
  BY RowTyped DEF RowState
<1>2. index' = [index EXCEPT ![d] = next]
  BY Zenon
<1> HIDE DEF next
<1> QED
  BY <1>1, <1>2, Indexing

LEMMA ConfirmPurgeDoes ==
  ASSUME Typed, ConfirmPurge
  PROVE /\ index' \in [Docs -> RowState]
        /\ \A d \in Docs :
             index'[d] = index[d] \/ (~index'[d].row /\ index'[d].text = 0 /\ index'[d].unread = "no")
<1>1. NoRow \in RowState /\ ~NoRow.row /\ NoRow.text = 0 /\ NoRow.unread = "no"
  BY Zero DEF NoRow, RowState
<1>2. index \in [Docs -> RowState]
  BY DEF Typed
<1>3. index' = [d \in Docs |-> IF d \in purge THEN NoRow ELSE index[d]]
  BY DEF ConfirmPurge
<1> QED
  BY <1>1, <1>2, <1>3

-----------------------------------------------------------------------------
(* Types.                                                                   *)

LEMMA InitTyped == Init => Typed
<1> SUFFICES ASSUME Init PROVE Typed
  OBVIOUS
<1>1. [by |-> "none", tries |-> 0] \in JobState /\ NoDir \in CopyState /\ NoRow \in RowState
      /\ NoDelete \in DeleteState
  BY Zero DEF JobState, Holder, NoDir, CopyState, NoRow, RowState, NoDelete, DeleteState, DeleteStages
<1>2. Idle \in WorkState
  BY IdleTyped
<1>3. DeletesDoc /\ WorksOnDoc
  BY DEF Init, NoDelete, Idle, DeletesDoc, WorksOnDoc
<1> QED
  BY <1>1, <1>2, <1>3, Zero DEF Init, Typed

LEMMA ChangeTyped ==
  ASSUME Typed, NEW d \in Docs, Write(d) \/ Remove(d)
  PROVE Typed'
<1>1. PICK v \in Version : Change(d, v)
  BY CorpusAssumption DEF Write, Remove, Change, Version, Typed
<1>2. edits' \in Version
  BY <1>1, CorpusAssumption DEF Change, Version, Typed
<1> QED
  BY <1>1, <1>2 DEF Change, Typed, DeletesDoc, WorksOnDoc

LEMMA NoticeTyped ==
  ASSUME Typed, NEW d \in Docs, Notice(d)
  PROVE Typed'
<1>1. job[d] \in JobState /\ [by |-> "pending", tries |-> 0] \in JobState
  BY Zero DEF Typed, JobState, Holder
<1>2. job' \in [Docs -> JobState]
  BY <1>1 DEF Notice, Typed
<1> QED
  BY <1>2 DEF Notice, Typed, DeletesDoc, WorksOnDoc

LEMMA TakeTyped ==
  ASSUME Typed, NEW w \in Workers, NEW d \in Docs, Take(w, d)
  PROVE Typed'
<1>1. work' \in [Workers -> WorkState] /\ job' \in [Docs -> JobState]
  BY TakeDoes DEF OnlyWorker
<1>2. WorksOnDoc'
  BY TakeDoes DEF OnlyWorker, Typed, WorksOnDoc
<1> QED
  BY <1>1, <1>2 DEF Take, Typed, DeletesDoc

(* A worker goes on, with its document or without one.                      *)
LEMMA GoesOn ==
  ASSUME Typed, NEW w \in Workers, OnlyWorker(w), work[w].at # "idle",
         work'[w].doc = work[w].doc \/ work'[w].at = "idle"
  PROVE WorksOnDoc'
BY DEF OnlyWorker, Typed, WorksOnDoc

LEMMA InTreeTyped ==
  ASSUME Typed, NEW w \in Workers, InTree(w), organized' \in [Docs -> CopyState],
         OnlyWorker(w), work[w].at # "idle", work'[w].doc = work[w].doc
  PROVE Typed'
<1>1. WorksOnDoc'
  BY GoesOn
<1>2. work' \in [Workers -> WorkState]
  BY DEF OnlyWorker
<1> QED
  BY <1>1, <1>2 DEF InTree, Typed, DeletesDoc

LEMMA InIndexTyped ==
  ASSUME Typed, NEW w \in Workers, InIndex(w), index' \in [Docs -> RowState],
         OnlyWorker(w), work[w].at # "idle", work'[w].doc = work[w].doc
  PROVE Typed'
<1>1. WorksOnDoc'
  BY GoesOn
<1>2. work' \in [Workers -> WorkState]
  BY DEF OnlyWorker
<1> QED
  BY <1>1, <1>2 DEF InIndex, Typed, DeletesDoc

LEMMA EndsTyped ==
  ASSUME Typed, NEW w \in Workers, NEW by, Ends(w, by), index' \in [Docs -> RowState],
         UNCHANGED <<source, edits, noticed, organized, purge, admin>>
  PROVE Typed'
<1>1. WorksOnDoc'
  BY DEF Ends, OnlyWorker, Idle, Typed, WorksOnDoc
<1>2. work' \in [Workers -> WorkState]
  BY DEF Ends, OnlyWorker
<1> QED
  BY <1>1, <1>2 DEF Ends, Typed, DeletesDoc

LEMMA FailTyped ==
  ASSUME Typed, NEW w \in Workers, Fail(w)
  PROVE Typed'
<1>1. PICK by \in {"failed", "pending"} : Ends(w, by)
  BY FailDoes
<1>2. index' \in [Docs -> RowState]
  BY DEF Fail, Typed
<1> QED
  BY <1>1, <1>2, EndsTyped DEF Fail

LEMMA CrawlTyped ==
  ASSUME Typed, NEW w \in Workers, CrawlStage(w)
  PROVE Typed'
<1>1. ASSUME Walk(w) PROVE Typed'
  <2>1. {d \in Docs : source[d] # 0} \in SUBSET Docs
    OBVIOUS
  <2>2. OnlyWorker(w) /\ work'[w].doc = work[w].doc
    BY <1>1, <2>1, GotoDoes, StageNames DEF Walk, Works
  <2> QED
    BY <1>1, <2>2, InTreeTyped DEF Walk, Typed
<1>2. ASSUME Copy(w) PROVE Typed'
  <2>1. PICK n \in work[w].held :
          /\ Works(w, work[w].at, work[w].todo \ {n.doc}, {}, work[w].bad) /\ OnlyCopy(n.doc)
    BY <1>2, CopyDoes
  <2> QED
    BY <1>2, <2>1, InTreeTyped DEF Copy, Works, OnlyCopy
<1>3. ASSUME CrawlAborts(w) PROVE Typed'
  BY <1>3, FailTyped DEF CrawlAborts
<1>4. ASSUME NEW d \in Docs, Reset(w, d) PROVE Typed'
  BY <1>4, ResetDoes, InTreeTyped DEF Reset, Works, OnlyCopy
<1>5. ASSUME NEW d \in Docs, Locked(w, d) PROVE Typed'
  BY <1>5, LockedDoes, InTreeTyped DEF Locked, Works, OnlyCopy
<1> QED
  BY <1>1, <1>2, <1>3, <1>4, <1>5 DEF CrawlStage

LEMMA HasDoc ==
  ASSUME Typed, NEW w \in Workers, work[w].at # "idle"
  PROVE work[w].doc \in Docs
BY DEF Typed, WorksOnDoc

LEMMA StartParseDoes ==
  ASSUME Typed, NEW w \in Workers, StartParse(w)
  PROVE Works(w, "parse", {d \in Slice(work[w].doc) : organized[d].copy # 0}, {}, work[w].bad)
<1>1. work[w].doc \in Docs
  BY HasDoc DEF StartParse
<1>2. {d \in Slice(work[w].doc) : organized[d].copy # 0} \in SUBSET Docs
  BY <1>1 DEF Slice
<1> QED
  BY <1>2, GotoDoes, StageNames DEF StartParse

(* What is parsed is what the copy held when it was read.                   *)
LEMMA ReadDoes ==
  ASSUME Typed, NEW w \in Workers, NEW d \in Docs, Read(w, d)
  PROVE \/ Works(w, work[w].at, work[w].todo \ {d}, {}, work[w].bad)
        \/ /\ organized[d].copy # 0 /\ organized[d].parsed = 0
           /\ Works(w, work[w].at, work[w].todo, {Of(d, organized[d].copy)}, work[w].bad)
<1>1. {Of(d, organized[d].copy)} \in SUBSET Note
  BY CopyTyped, OfTyped
<1> QED
  BY <1>1, DropDoes, HoldDoes DEF Read

(* What the answer is read as later: the copy of that moment, or missing.   *)
LEMMA ReadLaterDoes ==
  ASSUME Typed, NEW w \in Workers, ReadLater(w)
  PROVE \E n \in work[w].held, m \in Note :
          /\ organized[n.doc].dir /\ organized[n.doc].copy # n.text /\ ~n.blank
          /\ m.doc = n.doc
          /\ m.text = IF organized[n.doc].copy = 0 THEN n.text ELSE organized[n.doc].copy
          /\ Works(w, work[w].at, work[w].todo, {m}, work[w].bad)
<1>1. PICK n \in work[w].held :
        /\ organized[n.doc].dir /\ organized[n.doc].copy # n.text /\ ~n.blank
        /\ Hold(w, {IF organized[n.doc].copy = 0 THEN [n EXCEPT !.blank = TRUE]
                    ELSE [n EXCEPT !.text = organized[n.doc].copy]})
  BY Zenon DEF ReadLater
<1>2. n \in Note /\ organized[n.doc].copy \in Version
  BY NoteTyped, CopyTyped
<1> DEFINE m == IF organized[n.doc].copy = 0 THEN [n EXCEPT !.blank = TRUE]
                ELSE [n EXCEPT !.text = organized[n.doc].copy]
<1>3. /\ m \in Note /\ m.doc = n.doc
      /\ m.text = IF organized[n.doc].copy = 0 THEN n.text ELSE organized[n.doc].copy
  BY <1>2 DEF Note
<1>4. Hold(w, {m})
  BY <1>1
<1> HIDE DEF m
<1>5. Works(w, work[w].at, work[w].todo, {m}, work[w].bad)
  BY <1>3, <1>4, HoldDoes
<1> QED
  BY <1>1, <1>3, <1>5

LEMMA ParseFailsDoes ==
  ASSUME Typed, NEW w \in Workers, ParseFails(w)
  PROVE \E n \in work[w].held : Works(w, work[w].at, work[w].todo \ {n.doc}, {}, work[w].bad)
<1>1. PICK n \in work[w].held : Drop(w, n.doc)
  BY DEF ParseFails
<1> QED
  BY <1>1, DropDoes

LEMMA ParseTyped ==
  ASSUME Typed, NEW w \in Workers, ParseStage(w)
  PROVE Typed'
<1> organized \in [Docs -> CopyState]
  BY DEF Typed
<1>1. ASSUME StartParse(w) PROVE Typed'
  BY <1>1, StartParseDoes, InTreeTyped DEF StartParse, Works
<1>2. ASSUME WriteParsed(w) PROVE Typed'
  <2>1. PICK n \in work[w].held :
          /\ Works(w, work[w].at, work[w].todo \ {n.doc}, {}, work[w].bad) /\ OnlyCopy(n.doc)
    BY <1>2, WriteParsedDoes
  <2> QED
    BY <1>2, <2>1, InTreeTyped DEF WriteParsed, Works, OnlyCopy
<1>3. ASSUME ParseFails(w) PROVE Typed'
  <2>1. PICK n \in work[w].held : Works(w, work[w].at, work[w].todo \ {n.doc}, {}, work[w].bad)
    BY <1>3, ParseFailsDoes
  <2> QED
    BY <1>3, <2>1, InTreeTyped DEF ParseFails, Works
<1>4. ASSUME NEW d \in Docs, Read(w, d) PROVE Typed'
  BY <1>4, ReadDoes, InTreeTyped DEF Read, Works
<1>5. ASSUME ReadLater(w) PROVE Typed'
  BY <1>5, ReadLaterDoes, InTreeTyped DEF ReadLater, Works
<1> QED
  BY <1>1, <1>2, <1>3, <1>4, <1>5 DEF ParseStage

LEMMA StartLoadDoes ==
  ASSUME Typed, NEW w \in Workers, StartLoad(w)
  PROVE Works(w, "load", Parsed(w), {}, work[w].bad)
<1>1. work[w].doc \in Docs
  BY HasDoc DEF StartLoad
<1>2. Parsed(w) \in SUBSET Docs
  BY <1>1 DEF Parsed, Slice
<1> QED
  BY <1>2, GotoDoes, StageNames DEF StartLoad

LEMMA EndLoadDoes ==
  ASSUME Typed, NEW w \in Workers, EndLoad(w)
  PROVE \/ Fail(w)
        \/ ~work[w].bad /\ Works(w, "embed", {}, {}, work[w].bad) /\ InIndex(w) /\ UNCHANGED index
BY GotoDoes, StageNames, Zero DEF EndLoad

LEMMA SelectDoes ==
  ASSUME Typed, NEW w \in Workers, SelectUnembedded(w)
  PROVE \E stage \in {"embed", "store"}, held \in SUBSET Note :
          Works(w, stage, IF stage = "store" THEN {} ELSE work[w].todo, held, work[w].bad)
<1>1. Unembedded \in SUBSET Note
  BY DEF Unembedded
<1>2. CASE Unembedded = {}
  <2>1. Works(w, "store", {}, {}, work[w].bad)
    BY <1>2, GotoDoes, StageNames, Zero DEF SelectUnembedded
  <2> QED
    BY <2>1, Zero
<1>3. CASE Unembedded # {}
  <2>1. Works(w, "embed", work[w].todo, Unembedded, work[w].bad)
    BY <1>1, <1>3, HoldDoes DEF SelectUnembedded
  <2> QED
    BY <1>1, <2>1
<1> QED
  BY <1>2, <1>3

LEMMA EmbedDoes ==
  ASSUME Typed, NEW w \in Workers, Embed(w)
  PROVE Works(w, "store", {}, {}, work[w].bad) /\ VectorsOnly
BY GotoDoes, StageNames, Zero, WorkTyped, WithVectorsDoes DEF Embed

LEMMA EmbedFailsDoes ==
  ASSUME Typed, NEW w \in Workers, EmbedFails(w)
  PROVE VectorsOnly /\ \E by \in {"failed", "pending"} : Ends(w, by)
<1>1. PICK embedded \in SUBSET work[w].held : index' = WithVectors(embedded)
  BY DEF EmbedFails
<1>2. embedded \in SUBSET Note
  BY WorkTyped
<1> QED
  BY <1>1, <1>2, WithVectorsDoes, FailedDoes DEF EmbedFails

LEMMA ReactivateDoes ==
  ASSUME Typed, NEW w \in Workers, Reactivate(w)
  PROVE /\ Ends(w, "none") /\ OnlyRow(work[w].doc) /\ index'[work[w].doc].active
        /\ index'[work[w].doc].row = index[work[w].doc].row
        /\ index'[work[w].doc].text = index[work[w].doc].text
        /\ index'[work[w].doc].unread = index[work[w].doc].unread
<1>1. work[w].doc \in Docs
  BY HasDoc DEF Reactivate
<1> QED
  BY <1>1, ActiveDoes, DoneDoes DEF Reactivate

LEMMA SoftDeleteDoes ==
  ASSUME Typed, NEW w \in Workers, SoftDelete(w)
  PROVE /\ Ends(w, "none") /\ OnlyRow(work[w].doc) /\ ~index'[work[w].doc].active
        /\ index'[work[w].doc].row = index[work[w].doc].row
        /\ index'[work[w].doc].text = index[work[w].doc].text
        /\ index'[work[w].doc].unread = index[work[w].doc].unread
<1>1. work[w].doc \in Docs
  BY HasDoc DEF SoftDelete
<1> QED
  BY <1>1, ActiveDoes, DoneDoes DEF SoftDelete

LEMMA IndexTyped ==
  ASSUME Typed, NEW w \in Workers, IndexStage(w)
  PROVE Typed'
<1> index \in [Docs -> RowState]
  BY DEF Typed
<1>1. ASSUME StartLoad(w) PROVE Typed'
  <2>1. organized' \in [Docs -> CopyState]
    BY <1>1 DEF StartLoad, Typed
  <2> QED
    BY <1>1, <2>1, StartLoadDoes, InTreeTyped DEF StartLoad, Works
<1>2. ASSUME NothingToLoad(w) \/ IngestedNothing(w) PROVE Typed'
  BY <1>2, FailTyped DEF NothingToLoad, IngestedNothing
<1>3. ASSUME EndLoad(w) PROVE Typed'
  BY <1>3, EndLoadDoes, FailTyped, InIndexTyped DEF EndLoad, Works
<1>4. ASSUME SelectUnembedded(w) PROVE Typed'
  <2>1. OnlyWorker(w) /\ work'[w].doc = work[w].doc
    BY <1>4, SelectDoes DEF Works
  <2> QED
    BY <1>4, <2>1, InIndexTyped DEF SelectUnembedded
<1>5. ASSUME Embed(w) PROVE Typed'
  BY <1>5, EmbedDoes, InIndexTyped DEF Embed, Works, VectorsOnly
<1>6. ASSUME EmbedFails(w) PROVE Typed'
  BY <1>6, EmbedFailsDoes, EndsTyped DEF EmbedFails, VectorsOnly
<1>7. ASSUME Reactivate(w) PROVE Typed'
  BY <1>7, ReactivateDoes, EndsTyped DEF Reactivate, OnlyRow
<1>8. ASSUME NEW d \in Docs, Load(w, d) PROVE Typed'
  BY <1>8, LoadDoes, InIndexTyped DEF Load, Works, OnlyRow
<1>9. ASSUME NEW d \in Docs, LoadFails(w, d) PROVE Typed'
  BY <1>9, LoadFailsDoes, InIndexTyped DEF LoadFails, Works
<1> QED
  BY <1>1, <1>2, <1>3, <1>4, <1>5, <1>6, <1>7, <1>8, <1>9 DEF IndexStage

LEMMA CrashDoes ==
  ASSUME Typed, NEW w \in Workers, Crash(w)
  PROVE Ends(w, "pending")
BY EndedDoes DEF Crash, Holder

LEMMA WorkerTyped ==
  ASSUME Typed, NEW w \in Workers, SoftDelete(w) \/ Upsert(w) \/ Crash(w)
  PROVE Typed'
<1>1. ASSUME SoftDelete(w) PROVE Typed'
  BY <1>1, SoftDeleteDoes, EndsTyped DEF SoftDelete, OnlyRow
<1>2. ASSUME Crash(w) PROVE Typed'
  <2>1. index' \in [Docs -> RowState]
    BY <1>2 DEF Crash, Typed
  <2> QED
    BY <1>2, <2>1, CrashDoes, EndsTyped DEF Crash
<1> QED
  BY <1>1, <1>2, CrawlTyped, ParseTyped, IndexTyped DEF Upsert

LEMMA PurgeTyped ==
  ASSUME Typed, Purge
  PROVE Typed'
<1>1. index' \in [Docs -> RowState] /\ purge' \in SUBSET Docs
  BY ConfirmPurgeDoes, Zero DEF Purge, ListPurge, AbortPurge, ConfirmPurge, Typed
<1>2. UNCHANGED <<source, edits, noticed, job, organized, work, admin>>
  BY DEF Purge, ListPurge, AbortPurge, ConfirmPurge, OutsidePurge
<1> QED
  BY <1>1, <1>2 DEF Typed, DeletesDoc, WorksOnDoc

(* Where a hard delete stands, and what it leaves alone.                    *)
LEMMA DeleteDoes ==
  ASSUME Typed, HardDelete
  PROVE /\ admin' \in DeleteState /\ DeletesDoc'
        /\ UNCHANGED <<edits, work, purge>>
        /\ admin.at # "none" \/ "deletes" \in Upsets
<1>1. admin \in DeleteState /\ (admin.at # "none" => admin.doc \in Docs)
  BY DEF Typed, DeletesDoc
<1>2. NoDelete \in DeleteState /\ NoDelete.at = "none"
  BY DEF NoDelete, DeleteState, DeleteStages
<1>3. ASSUME NEW at \in DeleteStages \ {"none"}, NEW next \in DeleteStages, Step(at, next)
      PROVE admin' \in DeleteState /\ admin'.doc = admin.doc /\ admin.at = at
  BY <1>1, <1>3 DEF Step, DeleteState
<1>4. ASSUME NEW d \in Docs, BeginDelete(d)
      PROVE admin' \in DeleteState /\ admin'.doc \in Docs /\ "deletes" \in Upsets
  <2>1. index[d].row \in BOOLEAN
    BY RowTyped
  <2> QED
    BY <1>4, <2>1 DEF BeginDelete, DeleteState, DeleteStages
<1>5. UNCHANGED <<edits, work, purge>>
  BY DEF HardDelete, DeleteChildren, DeleteDiary, RemoveOrganized, RemoveSource, CancelJobs,
         DeleteFails, BeginDelete, Outside
<1>6. ASSUME DeleteChildren \/ DeleteDiary \/ RemoveOrganized \/ RemoveSource
      PROVE admin' \in DeleteState /\ admin'.doc \in Docs /\ admin.at # "none"
  BY <1>1, <1>3, <1>6 DEF DeleteChildren, DeleteDiary, RemoveOrganized, RemoveSource, DeleteStages
<1>7. ASSUME CancelJobs \/ DeleteFails
      PROVE admin' = NoDelete /\ admin.at # "none"
  BY <1>7 DEF CancelJobs, DeleteFails
<1> QED
  BY <1>2, <1>4, <1>5, <1>6, <1>7 DEF HardDelete, DeletesDoc

LEMMA DeleteTyped ==
  ASSUME Typed, HardDelete
  PROVE Typed'
<1>1. admin.at # "none" => admin.doc \in Docs
  BY DEF Typed, DeletesDoc
<1>2. admin' \in DeleteState /\ DeletesDoc' /\ UNCHANGED <<edits, work, purge>>
  BY DeleteDoes
<1>3. index' \in [Docs -> RowState]
  <2>1. CASE DeleteChildren
    <3>1. admin.doc \in Docs
      BY <1>1, <2>1 DEF DeleteChildren, Step
    <3> DEFINE next == [index[admin.doc] EXCEPT !.text = 0, !.vector = 0]
    <3>2. next \in RowState
      BY <3>1, RowTyped, Zero DEF RowState
    <3>3. index' = [index EXCEPT ![admin.doc] = next]
      BY <2>1, Zenon DEF DeleteChildren
    <3> HIDE DEF next
    <3> QED
      BY <3>1, <3>2, <3>3, Indexing DEF OnlyRow
  <2>2. CASE DeleteDiary
    <3>1. NoRow \in RowState
      BY Zero DEF NoRow, RowState
    <3> QED
      BY <2>2, <3>1 DEF DeleteDiary, Typed
  <2> QED
    BY <2>1, <2>2 DEF HardDelete, RemoveOrganized, RemoveSource, CancelJobs, DeleteFails,
         BeginDelete, Typed
<1>4. organized' \in [Docs -> CopyState]
  <2>1. NoDir \in CopyState
    BY Zero DEF NoDir, CopyState
  <2> QED
    BY <2>1 DEF HardDelete, DeleteChildren, DeleteDiary, RemoveOrganized, RemoveSource, CancelJobs,
         DeleteFails, BeginDelete, Typed
<1>5. source' \in [Docs -> Version] /\ noticed' \in SUBSET Docs
  BY <1>1, Zero DEF HardDelete, DeleteChildren, DeleteDiary, RemoveOrganized, RemoveSource, Step,
     CancelJobs, DeleteFails, BeginDelete, Typed
<1>6. job' \in [Docs -> JobState]
  <2>1. CASE CancelJobs
    <3>1. admin.doc \in Docs
      BY <1>1, <2>1 DEF CancelJobs
    <3> DEFINE next == [job[admin.doc] EXCEPT !.by = "none"]
    <3>2. next \in JobState
      BY <3>1 DEF Typed, JobState, Holder
    <3>3. job' = [job EXCEPT ![admin.doc] = next]
      BY <2>1, Zenon DEF CancelJobs
    <3> HIDE DEF next
    <3> QED
      BY <3>1, <3>2, <3>3 DEF Typed
  <2> QED
    BY <2>1 DEF HardDelete, DeleteChildren, DeleteDiary, RemoveOrganized, RemoveSource,
         DeleteFails, BeginDelete, Typed
<1> QED
  BY <1>2, <1>3, <1>4, <1>5, <1>6 DEF Typed, WorksOnDoc

LEMMA NextTyped == Typed /\ [Next]_vars => Typed'
<1> SUFFICES ASSUME Typed, [Next]_vars PROVE Typed'
  OBVIOUS
<1>1. CASE UNCHANGED vars
  BY <1>1 DEF vars, Typed, DeletesDoc, WorksOnDoc
<1>2. CASE Next
  BY <1>2, ChangeTyped, NoticeTyped, TakeTyped, WorkerTyped, PurgeTyped, DeleteTyped DEF Next
<1> QED
  BY <1>1, <1>2

LEMMA AlwaysTyped == Spec => []Typed
BY InitTyped, NextTyped, PTL DEF Spec

(* Workers, copies, index, purge and hard delete keep their types.          *)
THEOREM CorpusTyped == Spec => []TypeOK
BY AlwaysTyped, TypedIsTypeOK, PTL

-----------------------------------------------------------------------------
(* One worker: parsed.json belongs to the files beside it.                  *)

Beside(w, n) ==
  /\ work[w].at = "crawl" => organized[n.doc].copy = 0 /\ organized[n.doc].parsed = 0
  /\ work[w].at = "parse" => /\ organized[n.doc].copy \in {0, n.text} /\ organized[n.doc].parsed = 0
                             /\ organized[n.doc].dir => organized[n.doc].copy = n.text
                             /\ ~n.blank

BesideInv == ParsedBesideCopy /\ \A w \in Workers : \A n \in work[w].held : Beside(w, n)

LEMMA InitBeside == Init => BesideInv
BY DEF Init, BesideInv, ParsedBesideCopy, Idle, NoDir

(* A step that renews no copy leaves them beside their files.               *)
LEMMA CopiesSame ==
  ASSUME Typed, BesideInv, UNCHANGED organized,
         \A w \in Workers : work'[w] = work[w] \/ work'[w].held = {}
  PROVE BesideInv'
BY DEF BesideInv, ParsedBesideCopy, Beside

LEMMA EndsBeside ==
  ASSUME Typed, BesideInv, UNCHANGED organized, NEW w \in Workers, NEW by, Ends(w, by)
  PROVE BesideInv'
BY CopiesSame DEF Ends, OnlyWorker, Idle

LEMMA CrawlBeside ==
  ASSUME Typed, BesideInv, NEW w \in Workers, \A v \in Workers : v = w, CrawlStage(w)
  PROVE BesideInv'
<1>1. ASSUME Walk(w) PROVE BesideInv'
  <2>1. {d \in Docs : source[d] # 0} \in SUBSET Docs
    OBVIOUS
  <2>2. work'[w].held = {}
    BY <1>1, <2>1, GotoDoes, StageNames DEF Walk, Works
  <2> QED
    BY <1>1, <2>2, CopiesSame DEF Walk
<1>2. ASSUME Copy(w) PROVE BesideInv'
  <2>1. PICK n \in work[w].held :
          /\ Works(w, work[w].at, work[w].todo \ {n.doc}, {}, work[w].bad) /\ OnlyCopy(n.doc)
          /\ organized'[n.doc].parsed = organized[n.doc].parsed
    BY <1>2, CopyDoes
  <2>2. organized[n.doc].parsed = 0
    BY <1>2, <2>1 DEF Copy, BesideInv, Beside
  <2> QED
    BY <2>1, <2>2, NoteTyped DEF BesideInv, ParsedBesideCopy, Works, OnlyCopy
<1>3. ASSUME CrawlAborts(w) PROVE BesideInv'
  BY <1>3, FailDoes, EndsBeside DEF CrawlAborts, Fail
<1>4. ASSUME NEW d \in Docs, Reset(w, d) PROVE BesideInv'
  <2>1. /\ work'[w].at = "crawl" /\ work'[w].held = {Of(d, 0)} /\ OnlyCopy(d)
        /\ organized'[d].copy = 0 /\ organized'[d].parsed = 0
    BY <1>4, ResetDoes DEF Works, Reset
  <2>2. \A n \in work'[w].held : n.doc = d
    BY <2>1 DEF Of
  <2> QED
    BY <2>1, <2>2 DEF BesideInv, ParsedBesideCopy, Beside, OnlyCopy
<1>5. ASSUME NEW d \in Docs, Locked(w, d) PROVE BesideInv'
  <2>1. /\ work'[w].held = {} /\ OnlyCopy(d)
        /\ organized'[d].copy \in {0, organized[d].copy}
        /\ organized'[d].parsed \in {0, organized[d].parsed}
    BY <1>5, LockedDoes DEF Works
  <2> QED
    BY <2>1 DEF BesideInv, ParsedBesideCopy, OnlyCopy
<1> QED
  BY <1>1, <1>2, <1>3, <1>4, <1>5 DEF CrawlStage

LEMMA ParseBeside ==
  ASSUME Typed, BesideInv, NEW w \in Workers, \A v \in Workers : v = w, ParseStage(w)
  PROVE BesideInv'
<1>1. ASSUME StartParse(w) PROVE BesideInv'
  BY <1>1, StartParseDoes, CopiesSame DEF StartParse, Works
<1>2. ASSUME WriteParsed(w) PROVE BesideInv'
  <2>1. PICK n \in work[w].held :
          /\ Works(w, work[w].at, work[w].todo \ {n.doc}, {}, work[w].bad) /\ OnlyCopy(n.doc)
          /\ organized'[n.doc].copy = organized[n.doc].copy
          /\ organized'[n.doc].parsed \in {n.text, organized[n.doc].parsed}
    BY <1>2, WriteParsedDoes
  <2>2. organized[n.doc].copy \in {0, n.text} /\ organized[n.doc].parsed = 0
    BY <1>2, <2>1 DEF WriteParsed, BesideInv, Beside
  <2> QED
    BY <2>1, <2>2, NoteTyped DEF BesideInv, ParsedBesideCopy, Works, OnlyCopy
<1>3. ASSUME ParseFails(w) PROVE BesideInv'
  BY <1>3, ParseFailsDoes, CopiesSame DEF ParseFails, Works
<1>4. ASSUME NEW d \in Docs, Read(w, d) PROVE BesideInv'
  <2>1. CASE work'[w].held = {}
    BY <1>4, <2>1, CopiesSame DEF Read
  <2>2. CASE /\ organized[d].parsed = 0
             /\ work'[w].at = "parse" /\ work'[w].held = {Of(d, organized[d].copy)}
    <3>1. \A n \in work'[w].held : n.doc = d /\ n.text = organized[d].copy /\ ~n.blank
      BY <2>2 DEF Of
    <3>2. organized' = organized
      BY <1>4 DEF Read
    <3> QED
      BY <2>2, <3>1, <3>2 DEF BesideInv, ParsedBesideCopy, Beside
  <2> QED
    BY <1>4, <2>1, <2>2, ReadDoes DEF Works, Read
<1>5. ASSUME ReadLater(w) PROVE FALSE
  BY <1>5 DEF ReadLater, BesideInv, Beside
<1> QED
  BY <1>1, <1>2, <1>3, <1>4, <1>5 DEF ParseStage

LEMMA IndexBeside ==
  ASSUME Typed, BesideInv, NEW w \in Workers, \A v \in Workers : v = w, IndexStage(w)
  PROVE BesideInv'
<1>1. organized' = organized
  BY DEF IndexStage, StartLoad, InTree, NothingToLoad, Fail, EndLoad, InIndex, SelectUnembedded,
     Embed, EmbedFails, Reactivate, IngestedNothing, Load, LoadFails
<1>2. ASSUME work'[w].at \notin {"crawl", "parse"} PROVE BesideInv'
  BY <1>1, <1>2 DEF BesideInv, ParsedBesideCopy, Beside
<1>3. ASSUME NEW by, Ends(w, by) PROVE BesideInv'
  BY <1>1, <1>3, EndsBeside
<1>4. ASSUME StartLoad(w) PROVE BesideInv'
  BY <1>2, <1>4, StartLoadDoes DEF Works
<1>5. ASSUME NothingToLoad(w) \/ IngestedNothing(w) PROVE BesideInv'
  BY <1>3, <1>5, FailDoes DEF NothingToLoad, IngestedNothing
<1>6. ASSUME EndLoad(w) PROVE BesideInv'
  BY <1>2, <1>3, <1>6, EndLoadDoes, FailDoes DEF Works
<1>7. ASSUME SelectUnembedded(w) PROVE BesideInv'
  BY <1>2, <1>7, SelectDoes DEF Works
<1>8. ASSUME Embed(w) PROVE BesideInv'
  BY <1>2, <1>8, EmbedDoes DEF Works
<1>9. ASSUME EmbedFails(w) \/ Reactivate(w) PROVE BesideInv'
  BY <1>3, <1>9, EmbedFailsDoes, ReactivateDoes
<1>10. ASSUME NEW d \in Docs, Load(w, d) \/ LoadFails(w, d) PROVE BesideInv'
  BY <1>2, <1>10, LoadDoes, LoadFailsDoes DEF Works, Load, LoadFails
<1> QED
  BY <1>4, <1>5, <1>6, <1>7, <1>8, <1>9, <1>10 DEF IndexStage

LEMMA NextBeside ==
  ASSUME \A v, w \in Workers : v = w, Typed, BesideInv, [Next]_vars
  PROVE BesideInv'
<1>1. ASSUME UNCHANGED <<organized, work>> PROVE BesideInv'
  BY <1>1, CopiesSame
<1>2. ASSUME NEW d \in Docs, Write(d) \/ Remove(d) \/ Notice(d) PROVE BesideInv'
  BY <1>1, <1>2 DEF Write, Remove, Change, Notice
<1>3. ASSUME NEW d \in Docs, NEW w \in Workers, Take(w, d) PROVE BesideInv'
  <2>1. organized' = organized /\ OnlyWorker(w) /\ work'[w].held = {}
    BY <1>3, TakeDoes DEF Take
  <2>2. \A v \in Workers : work'[v] = work[v] \/ work'[v].held = {}
    BY <2>1 DEF OnlyWorker
  <2> QED
    BY <2>1, <2>2, CopiesSame
<1>4. ASSUME NEW w \in Workers, SoftDelete(w) \/ Crash(w) PROVE BesideInv'
  BY <1>4, SoftDeleteDoes, CrashDoes, EndsBeside DEF SoftDelete, Crash
<1>5. ASSUME NEW w \in Workers, Upsert(w) PROVE BesideInv'
  BY <1>5, CrawlBeside, ParseBeside, IndexBeside DEF Upsert
<1>6. ASSUME Purge PROVE BesideInv'
  BY <1>1, <1>6 DEF Purge, ListPurge, ConfirmPurge, AbortPurge, OutsidePurge
<1>7. ASSUME HardDelete PROVE BesideInv'
  <2>1. CASE RemoveOrganized
    <3>1. organized' = [organized EXCEPT ![admin.doc] = NoDir] /\ work' = work
      BY <2>1 DEF RemoveOrganized, Outside
    <3>2. organized \in [Docs -> CopyState] /\ NoDir.copy = 0 /\ NoDir.parsed = 0 /\ ~NoDir.dir
      BY DEF Typed, NoDir
    <3>3. \A d \in Docs :
            \/ organized'[d] = organized[d]
            \/ organized'[d].copy = 0 /\ organized'[d].parsed = 0 /\ ~organized'[d].dir
      BY <3>1, <3>2
    <3> QED
      BY <3>1, <3>3, NoteTyped DEF BesideInv, ParsedBesideCopy, Beside
  <2>2. CASE ~RemoveOrganized
    BY <1>1, <1>7, <2>2 DEF HardDelete, DeleteChildren, DeleteDiary, RemoveSource, CancelJobs,
       DeleteFails, BeginDelete, Outside
  <2> QED
    BY <2>1, <2>2
<1> QED
  BY <1>1, <1>2, <1>3, <1>4, <1>5, <1>6, <1>7 DEF Next, vars

(* Where one worker runs, the parsed.json of a folder was made from the     *)
(* files that lie beside it, whatever is locked, fails, dies, is purged or  *)
(* deleted, and whatever else the --only tokens match.                      *)
THEOREM ParsesBelong == (\A v, w \in Workers : v = w) => (Spec => []ParsedBesideCopy)
<1> SUFFICES ASSUME \A v, w \in Workers : v = w
             PROVE  Spec => []ParsedBesideCopy
  OBVIOUS
<1>1. Typed /\ BesideInv /\ [Next]_vars => BesideInv'
  BY NextBeside
<1>2. BesideInv => ParsedBesideCopy
  BY DEF BesideInv
<1> QED
  BY <1>1, <1>2, InitBeside, AlwaysTyped, PTL DEF Spec

(* And every record has the answer.                                         *)
ReadInv == AnswersAreRead /\ \A d \in Docs : ~organized[d].blank

(* A step that leaves these marks, or clears some.                          *)
LEMMA MarksStay ==
  ASSUME ReadInv, \A d \in Docs : /\ index'[d].unread \in {index[d].unread, "no"}
                                  /\ organized'[d].blank => organized[d].blank
  PROVE  ReadInv'
BY DEF ReadInv, AnswersAreRead

LEMMA CrawlReads ==
  ASSUME Typed, ReadInv, NEW w \in Workers, CrawlStage(w)
  PROVE  ReadInv'
<1>1. UNCHANGED index
  BY DEF CrawlStage, Walk, Copy, CrawlAborts, Reset, Locked, InTree, Fail
<1>2. ASSUME NEW d \in Docs, OnlyCopy(d), organized'[d].blank => organized[d].blank PROVE ReadInv'
  BY <1>1, <1>2, MarksStay DEF OnlyCopy
<1>3. ASSUME Copy(w) PROVE ReadInv'
  <2>1. \E n \in work[w].held : OnlyCopy(n.doc) /\ organized'[n.doc].blank = organized[n.doc].blank
    BY <1>3, CopyDoes
  <2> QED
    BY <1>2, <2>1, NoteTyped
<1>4. ASSUME NEW d \in Docs, Reset(w, d) \/ Locked(w, d) PROVE ReadInv'
  BY <1>2, <1>4, ResetDoes, LockedDoes
<1>5. ASSUME UNCHANGED organized PROVE ReadInv'
  BY <1>1, <1>5, MarksStay
<1> QED
  BY <1>3, <1>4, <1>5 DEF CrawlStage, Walk, CrawlAborts, Fail

LEMMA ParseReads ==
  ASSUME Typed, BesideInv, ReadInv, NEW w \in Workers, ParseStage(w)
  PROVE  ReadInv'
<1>1. UNCHANGED index
  BY DEF ParseStage, StartParse, ReadLater, WriteParsed, ParseFails, Read, InTree
<1>2. ASSUME WriteParsed(w) PROVE ReadInv'
  <2>1. PICK n \in work[w].held :
          OnlyCopy(n.doc) /\ organized'[n.doc].blank \in {n.blank, organized[n.doc].blank}
    BY <1>2, WriteParsedDoes
  <2>2. ~n.blank /\ n.doc \in Docs
    BY <1>2, <2>1, NoteTyped DEF WriteParsed, BesideInv, Beside
  <2>3. \A d \in Docs : organized'[d].blank => organized[d].blank
    BY <2>1, <2>2 DEF OnlyCopy
  <2> QED
    BY <1>1, <2>3, MarksStay
<1>3. ASSUME UNCHANGED organized PROVE ReadInv'
  BY <1>1, <1>3, MarksStay
<1> QED
  BY <1>2, <1>3 DEF ParseStage, StartParse, ReadLater, ParseFails, Read

LEMMA IndexReads ==
  ASSUME Typed, ReadInv, NEW w \in Workers, IndexStage(w)
  PROVE  ReadInv'
<1>1. organized' = organized
  BY DEF IndexStage, StartLoad, InTree, NothingToLoad, Fail, EndLoad, InIndex, SelectUnembedded,
     Embed, EmbedFails, Reactivate, IngestedNothing, Load, LoadFails
<1>2. ASSUME UNCHANGED index \/ VectorsOnly PROVE ReadInv'
  BY <1>1, <1>2, MarksStay DEF VectorsOnly
<1>3. ASSUME Embed(w) \/ EmbedFails(w) PROVE ReadInv'
  BY <1>2, <1>3, EmbedDoes, EmbedFailsDoes
<1>4. ASSUME Reactivate(w) PROVE ReadInv'
  <2>1. \A d \in Docs : index'[d].unread = index[d].unread
    BY <1>4, ReactivateDoes DEF OnlyRow
  <2> QED
    BY <1>1, <2>1, MarksStay
<1>5. ASSUME NEW d \in Docs, Load(w, d) PROVE ReadInv'
  <2>1. OnlyRow(d) /\ index'[d].unread = "no"
    BY <1>5, LoadDoes DEF ReadInv
  <2>2. \A e \in Docs : index'[e].unread \in {index[e].unread, "no"}
    BY <2>1 DEF OnlyRow
  <2> QED
    BY <1>1, <2>2, MarksStay
<1> QED
  BY <1>2, <1>3, <1>4, <1>5 DEF IndexStage, StartLoad, InTree, NothingToLoad, Fail, EndLoad, InIndex,
     SelectUnembedded, IngestedNothing, LoadFails

LEMMA NextReads ==
  ASSUME Typed, BesideInv, ReadInv, [Next]_vars
  PROVE  ReadInv'
<1>1. ASSUME UNCHANGED <<organized, index>> PROVE ReadInv'
  BY <1>1, MarksStay
<1>2. ASSUME NEW d \in Docs, Write(d) \/ Remove(d) \/ Notice(d) \/ \E w \in Workers : Take(w, d)
      PROVE  ReadInv'
  BY <1>1, <1>2 DEF Write, Remove, Change, Notice, Take
<1>3. ASSUME NEW w \in Workers, SoftDelete(w) PROVE ReadInv'
  <2>1. \A d \in Docs : index'[d].unread = index[d].unread
    BY <1>3, SoftDeleteDoes DEF OnlyRow
  <2> QED
    BY <1>3, <2>1, MarksStay DEF SoftDelete
<1>4. ASSUME NEW w \in Workers, Upsert(w) \/ Crash(w) PROVE ReadInv'
  BY <1>1, <1>4, CrawlReads, ParseReads, IndexReads DEF Upsert, Crash
<1>5. ASSUME Purge PROVE ReadInv'
  <2>1. \A d \in Docs : index'[d].unread \in {index[d].unread, "no"}
    BY <1>5, ConfirmPurgeDoes DEF Purge, ListPurge, AbortPurge
  <2> QED
    BY <1>5, <2>1, MarksStay DEF Purge, ListPurge, ConfirmPurge, AbortPurge, OutsidePurge
<1>6. ASSUME HardDelete PROVE ReadInv'
  <2>1. /\ organized \in [Docs -> CopyState] /\ index \in [Docs -> RowState]
        /\ ~NoDir.blank /\ NoRow.unread = "no"
    BY DEF Typed, NoDir, NoRow
  <2>2. CASE DeleteChildren
    <3> DEFINE next == [index[admin.doc] EXCEPT !.text = 0, !.vector = 0]
    <3>1. index' = [index EXCEPT ![admin.doc] = next] /\ UNCHANGED organized
      BY <2>2, Zenon DEF DeleteChildren
    <3>2. admin.doc \in Docs => next.unread = index[admin.doc].unread
      BY RowTyped DEF RowState
    <3> HIDE DEF next
    <3>3. \A d \in Docs : index'[d].unread = index[d].unread
      BY <2>1, <3>1, <3>2
    <3> QED
      BY <3>1, <3>3, MarksStay
  <2>3. CASE DeleteDiary
    <3>1. \A d \in Docs : index'[d] \in {index[d], NoRow}
      BY <2>1, <2>3 DEF DeleteDiary
    <3> QED
      BY <2>1, <2>3, <3>1, MarksStay DEF DeleteDiary
  <2>4. CASE RemoveOrganized
    <3>1. \A d \in Docs : organized'[d] \in {organized[d], NoDir}
      BY <2>1, <2>4 DEF RemoveOrganized
    <3> QED
      BY <2>1, <2>4, <3>1, MarksStay DEF RemoveOrganized
  <2> QED
    BY <1>1, <1>6, <2>2, <2>3, <2>4 DEF HardDelete, RemoveSource, CancelJobs, DeleteFails, BeginDelete
<1> QED
  BY <1>1, <1>2, <1>3, <1>4, <1>5, <1>6 DEF Next, vars

(* Where one worker runs, no crawl takes an answer from under a parse: every *)
(* record has its answer, so that DoneIsIndexed, SettledInSync and           *)
(* ImplementsMirror make no exception.                                       *)
THEOREM OneWorkerReadsAll == (\A v, w \in Workers : v = w) => (Spec => []AnswersAreRead)
<1> SUFFICES ASSUME \A v, w \in Workers : v = w
             PROVE  Spec => []AnswersAreRead
  OBVIOUS
<1>1. Typed /\ BesideInv /\ [Next]_vars => BesideInv'
  BY NextBeside
<1>2. Init => ReadInv
  BY DEF Init, ReadInv, AnswersAreRead, NoDir, NoRow
<1>3. Typed /\ BesideInv /\ ReadInv /\ [Next]_vars => ReadInv'
  BY NextReads
<1>4. ReadInv => AnswersAreRead
  BY DEF ReadInv
<1> QED
  BY <1>1, <1>2, <1>3, <1>4, InitBeside, AlwaysTyped, PTL DEF Spec

-----------------------------------------------------------------------------
(* A job and its folder.  Unless somebody hard-deletes that very folder, the *)
(* row stays with the worker, and the folder as it was when it was claimed.  *)

(* What the destructive operations do not take into account: a hard delete  *)
(* does not ask whether its document is worked on, and a purge does not ask *)
(* whether what it listed is.  Each is the hypothesis of theorems below.    *)
DeletesApart ==
  admin.at # "none" => \A w \in Workers : work[w].at # "idle" => work[w].doc # admin.doc
PurgesApart == \A w \in Workers : work[w].at # "idle" => work[w].doc \notin purge

Owns(w) ==
  /\ job[work[w].doc].by = w
  /\ source[work[w].doc] = work[w].seen
  /\ work[w].at = "retire" <=> work[w].seen = 0
  /\ work[w].at \in {"parse", "load"} => work[w].todo \subseteq {work[w].doc}
  /\ work[w].at = "parse" => \A n \in work[w].held : n.doc = work[w].doc

Owned == \A w \in Workers : work[w].at # "idle" => Owns(w)

LEMMA SliceAlone == Overlaps = {} => \A d \in Docs : Slice(d) = {d}
BY DEF Slice

LEMMA Apart ==
  ASSUME Owned, NEW v \in Workers, NEW w \in Workers, v # w,
         work[v].at # "idle", work[w].at # "idle"
  PROVE work[v].doc # work[w].doc
BY DEF Owned, Owns

(* Worker w takes a step: it keeps its own job, or has ended it.            *)
LEMMA OwnStep ==
  ASSUME Typed, Owned, NEW w \in Workers, OnlyWorker(w), UNCHANGED <<source, admin>>,
         \A d \in Docs : job[d].by \in Workers /\ job[d].by # w => job'[d] = job[d],
         work'[w].at # "idle" => Owns(w)'
  PROVE Owned'
<1>1. ASSUME NEW v \in Workers, v # w, work'[v].at # "idle" PROVE Owns(v)'
  <2>1. work'[v] = work[v]
    BY <1>1 DEF OnlyWorker
  <2>2. Owns(v) /\ work[v].doc \in Docs
    BY <1>1, <2>1, HasDoc DEF Owned
  <2>3. job'[work[v].doc] = job[work[v].doc]
    BY <1>1, <2>2 DEF Owns
  <2> QED
    BY <2>1, <2>2, <2>3 DEF Owns
<1> QED
  BY <1>1 DEF Owned

LEMMA EndsOwn ==
  ASSUME Typed, Owned, NEW w \in Workers, NEW by, Ends(w, by), UNCHANGED <<source, admin>>
  PROVE Owned'
<1>1. OnlyWorker(w) /\ work'[w].at = "idle"
  BY DEF Ends, Idle
<1>2. \A d \in Docs : job[d].by \in Workers /\ job[d].by # w => job'[d] = job[d]
  BY DEF Ends
<1> QED
  BY <1>1, <1>2, OwnStep

(* The worker goes on with the same document in another stage.              *)
LEMMA WorksOwn ==
  ASSUME Typed, Owned, NEW w \in Workers, NEW stage \in Stages \ {"idle", "retire"}, NEW todo,
         NEW held, NEW bad, Works(w, stage, todo, held, bad), UNCHANGED <<source, job, admin>>,
         work[w].at \notin {"idle", "retire"},
         stage \in {"parse", "load"} => todo \subseteq {work[w].doc},
         stage = "parse" => \A n \in held : n.doc = work[w].doc
  PROVE Owned'
<1>1. Owns(w)
  BY DEF Owned
<1>2. Owns(w)'
  BY <1>1 DEF Owns, Works
<1> QED
  BY <1>2, OwnStep DEF Works

LEMMA CrawlOwn ==
  ASSUME Typed, Owned, NEW w \in Workers, CrawlStage(w)
  PROVE Owned'
<1>1. ASSUME Walk(w) PROVE Owned'
  <2>1. {d \in Docs : source[d] # 0} \in SUBSET Docs
    OBVIOUS
  <2>2. Works(w, "crawl", {d \in Docs : source[d] # 0}, {}, work[w].bad)
    BY <1>1, <2>1, GotoDoes, StageNames DEF Walk
  <2> QED
    BY <1>1, <2>2, WorksOwn, StageNames DEF Walk, InTree
<1>2. ASSUME Copy(w) PROVE Owned'
  <2>1. PICK n \in work[w].held : Works(w, "crawl", work[w].todo \ {n.doc}, {}, work[w].bad)
    BY <1>2, CopyDoes DEF Copy
  <2> QED
    BY <1>2, <2>1, WorksOwn, StageNames DEF Copy, InTree
<1>3. ASSUME CrawlAborts(w) PROVE Owned'
  BY <1>3, FailDoes, EndsOwn DEF CrawlAborts, Fail
<1>4. ASSUME NEW d \in Docs, Reset(w, d) PROVE Owned'
  <2>1. Works(w, "crawl", work[w].todo, {Of(d, 0)}, work[w].bad)
    BY <1>4, ResetDoes DEF Reset
  <2> QED
    BY <1>4, <2>1, WorksOwn, StageNames DEF Reset, InTree
<1>5. ASSUME NEW d \in Docs, Locked(w, d) PROVE Owned'
  <2>1. Works(w, work[w].at, work[w].todo \ {d}, {}, work[w].bad)
    BY <1>5, LockedDoes
  <2>2. work[w].at = "crawl" /\ UNCHANGED <<source, job, admin>>
    BY <1>5 DEF Locked, InTree
  <2>3. Works(w, "crawl", work[w].todo \ {d}, {}, work[w].bad)
    BY <2>1, <2>2
  <2> QED
    BY <2>2, <2>3, WorksOwn, StageNames
<1> QED
  BY <1>1, <1>2, <1>3, <1>4, <1>5 DEF CrawlStage

LEMMA ParseOwn ==
  ASSUME Typed, Owned, Overlaps = {}, NEW w \in Workers, ParseStage(w)
  PROVE Owned'
<1>1. ASSUME StartParse(w) PROVE Owned'
  <2>1. Works(w, "parse", {d \in Slice(work[w].doc) : organized[d].copy # 0}, {}, work[w].bad)
    BY <1>1, StartParseDoes
  <2>2. {d \in Slice(work[w].doc) : organized[d].copy # 0} \subseteq {work[w].doc}
    BY <1>1, HasDoc, SliceAlone DEF StartParse
  <2> QED
    BY <1>1, <2>1, <2>2, WorksOwn, StageNames DEF StartParse, InTree
<1>2. ASSUME work[w].at = "parse", UNCHANGED <<source, job, admin>>,
             NEW d, Works(w, "parse", work[w].todo \ {d}, {}, work[w].bad)
      PROVE Owned'
  <2>1. work[w].todo \ {d} \subseteq {work[w].doc}
    BY <1>2 DEF Owned, Owns
  <2> QED
    BY <1>2, <2>1, WorksOwn, StageNames
<1>3. ASSUME WriteParsed(w) PROVE Owned'
  <2>1. PICK n \in work[w].held : Works(w, work[w].at, work[w].todo \ {n.doc}, {}, work[w].bad)
    BY <1>3, WriteParsedDoes
  <2> QED
    BY <1>2, <1>3, <2>1 DEF WriteParsed, InTree
<1>4. ASSUME ParseFails(w) PROVE Owned'
  <2>1. PICK n \in work[w].held : Works(w, work[w].at, work[w].todo \ {n.doc}, {}, work[w].bad)
    BY <1>4, ParseFailsDoes
  <2> QED
    BY <1>2, <1>4, <2>1 DEF ParseFails, InTree
<1>5. ASSUME NEW d \in Docs, Read(w, d) PROVE Owned'
  <2>1. work[w].at = "parse" /\ work[w].todo \subseteq {work[w].doc} /\ d = work[w].doc
        /\ UNCHANGED <<source, job, admin>>
    BY <1>5 DEF Read, Owned, Owns, InTree
  <2>2. CASE Works(w, work[w].at, work[w].todo \ {d}, {}, work[w].bad)
    BY <1>2, <2>1, <2>2
  <2>3. CASE Works(w, work[w].at, work[w].todo, {Of(d, organized[d].copy)}, work[w].bad)
    <3>1. \A n \in {Of(d, organized[d].copy)} : n.doc = work[w].doc
      BY <2>1 DEF Of
    <3> QED
      BY <2>1, <2>3, <3>1, WorksOwn, StageNames
  <2> QED
    BY <1>5, <2>2, <2>3, ReadDoes
<1>6. ASSUME ReadLater(w) PROVE Owned'
  <2>1. PICK n \in work[w].held, m \in Note :
          m.doc = n.doc /\ Works(w, work[w].at, work[w].todo, {m}, work[w].bad)
    BY <1>6, ReadLaterDoes
  <2>2. /\ work[w].at = "parse" /\ work[w].todo \subseteq {work[w].doc} /\ n.doc = work[w].doc
        /\ UNCHANGED <<source, job, admin>>
    BY <1>6, <2>1 DEF ReadLater, Owned, Owns, InTree
  <2>3. \A k \in {m} : k.doc = work[w].doc
    BY <2>1, <2>2
  <2> QED
    BY <2>1, <2>2, <2>3, WorksOwn, StageNames
<1> QED
  BY <1>1, <1>3, <1>4, <1>5, <1>6 DEF ParseStage

LEMMA IndexOwn ==
  ASSUME Typed, Owned, Overlaps = {}, NEW w \in Workers, IndexStage(w)
  PROVE Owned'
<1>1. UNCHANGED <<source, admin>>
  BY DEF IndexStage, StartLoad, InTree, NothingToLoad, Fail, EndLoad, InIndex, SelectUnembedded,
     Embed, EmbedFails, Reactivate, IngestedNothing, Load, LoadFails
<1>2. ASSUME NEW by, Ends(w, by) PROVE Owned'
  BY <1>1, <1>2, EndsOwn
<1>3. ASSUME StartLoad(w) PROVE Owned'
  <2>1. Parsed(w) \subseteq {work[w].doc}
    BY <1>3, HasDoc, SliceAlone DEF StartLoad, Parsed
  <2> QED
    BY <1>3, <2>1, StartLoadDoes, WorksOwn, StageNames DEF StartLoad, InTree
<1>4. ASSUME NothingToLoad(w) \/ IngestedNothing(w) PROVE Owned'
  BY <1>2, <1>4, FailDoes DEF NothingToLoad, IngestedNothing
<1>5. ASSUME EndLoad(w) PROVE Owned'
  <2>1. CASE Fail(w)
    BY <1>2, <2>1, FailDoes
  <2>2. CASE Works(w, "embed", {}, {}, work[w].bad) /\ InIndex(w)
    BY <1>5, <2>2, WorksOwn, StageNames DEF EndLoad, InIndex
  <2> QED
    BY <1>5, <2>1, <2>2, EndLoadDoes
<1>6. ASSUME SelectUnembedded(w) PROVE Owned'
  <2>1. PICK stage \in {"embed", "store"}, held \in SUBSET Note :
          Works(w, stage, IF stage = "store" THEN {} ELSE work[w].todo, held, work[w].bad)
    BY <1>6, SelectDoes
  <2> QED
    BY <1>6, <2>1, WorksOwn, StageNames DEF SelectUnembedded, InIndex
<1>7. ASSUME Embed(w) PROVE Owned'
  BY <1>7, EmbedDoes, WorksOwn, StageNames DEF Embed, InIndex
<1>8. ASSUME EmbedFails(w) \/ Reactivate(w) PROVE Owned'
  BY <1>2, <1>8, EmbedFailsDoes, ReactivateDoes
<1>9. ASSUME NEW d \in Docs, Load(w, d) \/ LoadFails(w, d) PROVE Owned'
  <2>1. work[w].at = "load" /\ work[w].todo \ {d} \subseteq {work[w].doc} /\ UNCHANGED job
    BY <1>9 DEF Load, LoadFails, Owned, Owns, InIndex
  <2>2. CASE Load(w, d)
    <3>1. Works(w, "load", work[w].todo \ {d}, {}, work[w].bad)
      BY <2>1, <2>2, LoadDoes
    <3> QED
      BY <1>1, <2>1, <3>1, WorksOwn, StageNames
  <2>3. CASE LoadFails(w, d)
    <3>1. Works(w, "load", work[w].todo \ {d}, work[w].held, TRUE)
      BY <2>1, <2>3, LoadFailsDoes
    <3> QED
      BY <1>1, <2>1, <3>1, WorksOwn, StageNames
  <2> QED
    BY <1>9, <2>2, <2>3
<1> QED
  BY <1>3, <1>4, <1>5, <1>6, <1>7, <1>8, <1>9 DEF IndexStage

(* Nothing changes a folder while its job runs.                             *)
LEMMA ChangeOwn ==
  ASSUME Typed, Owned, NEW d \in Docs, Write(d) \/ Remove(d) \/ Notice(d)
  PROVE Owned'
<1>1. UNCHANGED <<work, admin>>
  BY DEF Write, Remove, Change, Notice
<1>2. ASSUME NEW w \in Workers, work[w].at # "idle" PROVE Owns(w)'
  <2>1. Owns(w) /\ work[w].doc \in Docs
    BY <1>2, HasDoc DEF Owned
  <2>2. source'[work[w].doc] = source[work[w].doc]
    BY <2>1 DEF Write, Remove, Change, Notice, Busy, Typed
  <2>3. job'[work[w].doc].by = w
    BY <2>1, CorpusAssumption DEF Write, Remove, Change, Notice, Owns, Typed
  <2> QED
    BY <1>1, <2>1, <2>2, <2>3 DEF Owns
<1> QED
  BY <1>1, <1>2 DEF Owned

LEMMA TakeOwn ==
  ASSUME Typed, Owned, NEW w \in Workers, NEW d \in Docs, Take(w, d)
  PROVE Owned'
<1>1. \A e \in Docs : job[e].by \in Workers => job'[e] = job[e]
  <2>1. job[d].by \notin Workers
    BY CorpusAssumption DEF Take
  <2>2. \A e \in Docs : e # d => job'[e] = job[e]
    BY TakeDoes
  <2> QED
    BY <2>1, <2>2
<1>2. UNCHANGED <<source, admin>>
  BY DEF Take
<1>3. Owns(w)'
  BY <1>2, TakeDoes DEF Owns
<1> QED
  BY <1>1, <1>2, <1>3, TakeDoes, OwnStep

LEMMA InitOwn == Init => Owned
BY DEF Init, Owned, Idle

(* A hard delete takes away, of its own document and no other.              *)
LEMMA DeleteTakes ==
  ASSUME Typed, HardDelete, NEW d \in Docs
  PROVE  /\ organized'[d].copy \in {0, organized[d].copy}
         /\ organized'[d].parsed \in {0, organized[d].parsed}
         /\ index'[d].text \in {0, index[d].text}
         /\ index'[d].row => index[d].row
         /\ index'[d].active => index[d].active
         /\ d \in noticed => d \in noticed'
         /\ source'[d] = source[d] \/ (source'[d] = 0 /\ d \in noticed')
         /\ job'[d] = job[d] \/ (admin.at = "queue" /\ admin.doc = d)
         /\ admin.at = "none" \/ d # admin.doc
              => UNCHANGED <<source[d], job[d], organized[d], index[d]>>
<1>1. /\ source \in [Docs -> Version] /\ job \in [Docs -> JobState]
      /\ organized \in [Docs -> CopyState] /\ index \in [Docs -> RowState]
  BY DEF Typed
<1>2. index[d] \in RowState /\ organized[d] \in CopyState
  BY <1>1
<1>3. CASE DeleteChildren
  <2> DEFINE next == [index[admin.doc] EXCEPT !.text = 0, !.vector = 0]
  <2>1. index' = [index EXCEPT ![admin.doc] = next]
    BY <1>3, Zenon DEF DeleteChildren
  <2>2. admin.doc = d => next.text = 0 /\ next.row = index[d].row /\ next.active = index[d].active
    BY <1>2 DEF RowState
  <2> HIDE DEF next
  <2>3. index'[d] = IF admin.doc = d THEN next ELSE index[d]
    BY <1>1, <2>1
  <2>4. admin.at = "rows" /\ UNCHANGED <<source, noticed, job, organized>>
    BY <1>3 DEF DeleteChildren, Step
  <2> QED
    BY <2>2, <2>3, <2>4
<1>4. CASE DeleteDiary
  <2>1. index'[d] = IF admin.doc = d THEN NoRow ELSE index[d]
    BY <1>1, <1>4 DEF DeleteDiary
  <2>2. admin.at = "diary" /\ UNCHANGED <<source, noticed, job, organized>>
    BY <1>4 DEF DeleteDiary, Step
  <2> QED
    BY <2>1, <2>2 DEF NoRow
<1>5. CASE RemoveOrganized
  <2>1. organized'[d] = IF admin.doc = d THEN NoDir ELSE organized[d]
    BY <1>1, <1>5 DEF RemoveOrganized
  <2>2. admin.at = "organized" /\ UNCHANGED <<source, noticed, job, index>>
    BY <1>5 DEF RemoveOrganized, Step
  <2> QED
    BY <2>1, <2>2 DEF NoDir
<1>6. CASE RemoveSource
  <2>1. source'[d] = (IF admin.doc = d THEN 0 ELSE source[d]) /\ noticed' = noticed \cup {admin.doc}
    BY <1>1, <1>6 DEF RemoveSource
  <2>2. admin.at = "source" /\ UNCHANGED <<job, organized, index>>
    BY <1>6 DEF RemoveSource, Step
  <2> QED
    BY <2>1, <2>2
<1>7. CASE CancelJobs
  <2>1. admin.doc # d => job'[d] = job[d]
    BY <1>1, <1>7, Zenon DEF CancelJobs
  <2>2. admin.at = "queue" /\ UNCHANGED <<source, noticed, organized, index>>
    BY <1>7 DEF CancelJobs
  <2> QED
    BY <2>1, <2>2
<1>8. CASE DeleteFails \/ \E e \in Docs : BeginDelete(e)
  BY <1>8 DEF DeleteFails, BeginDelete
<1> QED
  BY <1>3, <1>4, <1>5, <1>6, <1>7, <1>8 DEF HardDelete

(* And none of a document that is worked on, by hypothesis.                 *)
LEMMA DeletesOther ==
  ASSUME Typed, DeletesApart, HardDelete, NEW w \in Workers, work[w].at # "idle"
  PROVE  LET d == work[w].doc IN
         d \in Docs /\ UNCHANGED <<source[d], job[d], organized[d], index[d], work[w]>>
<1>1. work[w].doc \in Docs /\ (admin.at = "none" \/ work[w].doc # admin.doc)
  BY HasDoc DEF DeletesApart
<1>2. UNCHANGED work
  BY DeleteDoes
<1> QED
  BY <1>1, <1>2, DeleteTakes

LEMMA NextOwn ==
  ASSUME Overlaps = {}, DeletesApart, Typed, Owned, [Next]_vars
  PROVE Owned'
<1>1. CASE UNCHANGED vars
  BY <1>1 DEF vars, Owned, Owns
<1>2. ASSUME NEW w \in Workers, SoftDelete(w) \/ Crash(w) PROVE Owned'
  BY <1>2, SoftDeleteDoes, CrashDoes, EndsOwn DEF SoftDelete, Crash
<1>3. ASSUME NEW w \in Workers, Upsert(w) PROVE Owned'
  BY <1>3, CrawlOwn, ParseOwn, IndexOwn DEF Upsert
<1>4. ASSUME Purge PROVE Owned'
  BY <1>4 DEF Purge, ListPurge, ConfirmPurge, AbortPurge, OutsidePurge, Owned, Owns
<1>5. ASSUME HardDelete PROVE Owned'
  <2> SUFFICES ASSUME NEW w \in Workers, work'[w].at # "idle" PROVE Owns(w)'
    BY DEF Owned
  <2>1. work' = work
    BY <1>5, DeleteDoes
  <2>2. Owns(w)
    BY <2>1 DEF Owned
  <2>3. UNCHANGED <<source[work[w].doc], job[work[w].doc], work[w]>>
    BY <1>5, <2>1, DeletesOther
  <2> QED
    BY <2>2, <2>3 DEF Owns
<1> QED
  BY <1>1, <1>2, <1>3, <1>4, <1>5, ChangeOwn, TakeOwn DEF Next

-----------------------------------------------------------------------------
(* Nothing goes backwards: what was loaded is no newer than what was        *)
(* parsed, that no newer than the copy, and that no newer than the source.  *)

Ordered(newest, now, copy, parsed, text) ==
  /\ now <= newest /\ copy <= newest /\ parsed <= newest /\ text <= newest
  /\ now # 0 => copy <= now /\ parsed <= now /\ text <= now
  /\ copy # 0 => parsed <= copy /\ text <= copy
  /\ parsed # 0 => text <= parsed

InOrder(d) == Ordered(edits, source[d], organized[d].copy, organized[d].parsed, index[d].text)

(* What a worker holds while it parses fits in between.                     *)
HeldFits(n) ==
  /\ source[n.doc] # 0 /\ n.text <= source[n.doc]
  /\ organized[n.doc].copy # 0 => n.text <= organized[n.doc].copy
  /\ index[n.doc].text <= n.text

Parsing(w) == work[w].at = "parse"

OrderInv ==
  /\ \A d \in Docs : InOrder(d)
  /\ \A w \in Workers : Parsing(w) => \A n \in work[w].held : HeldFits(n)

LEMMA VersionsAreNumbers == \A v \in Version : v \in Nat
BY CorpusAssumption DEF Version

LEMMA Numbers ==
  ASSUME Typed, NEW d \in Docs
  PROVE /\ edits \in Nat /\ source[d] \in Nat /\ organized[d].copy \in Nat
        /\ organized[d].parsed \in Nat /\ index[d].text \in Nat
<1>1. edits \in Version /\ source[d] \in Version
  BY DEF Typed
<1> QED
  BY <1>1, CopyTyped, RowTyped, VersionsAreNumbers

(* A step that leaves the source, takes parts of the copies and of the      *)
(* index away or leaves them, and lets no worker begin to parse.            *)
LEMMA LessIsInOrder ==
  ASSUME Typed, OrderInv, UNCHANGED <<source, edits>>,
         \A d \in Docs : /\ organized'[d].copy \in {0, organized[d].copy}
                        /\ organized'[d].parsed \in {0, organized[d].parsed}
                        /\ index'[d].text \in {0, index[d].text},
         \A w \in Workers : work'[w].at # "parse" \/ work'[w].held = {} \/ work'[w] = work[w]
  PROVE OrderInv'
<1>1. ASSUME NEW d \in Docs PROVE InOrder(d)'
  <2>1. InOrder(d)
    BY DEF OrderInv
  <2> QED
    BY <2>1, Numbers DEF InOrder, Ordered
<1>2. ASSUME NEW w \in Workers, Parsing(w)', NEW n \in work'[w].held PROVE HeldFits(n)'
  <2>1. work'[w] = work[w]
    BY <1>2 DEF Parsing
  <2>2. HeldFits(n) /\ n.doc \in Docs /\ n.text \in Version
    BY <1>2, <2>1, NoteTyped DEF Parsing, OrderInv
  <2>3. n.text \in Nat
    BY <2>2, VersionsAreNumbers
  <2> QED
    BY <2>2, <2>3, Numbers DEF HeldFits
<1> QED
  BY <1>1, <1>2 DEF OrderInv

(* The same where the copies and the index stay.                            *)
LEMMA StaysInOrder ==
  ASSUME Typed, OrderInv, UNCHANGED <<source, edits, organized, index>>,
         \A w \in Workers : work'[w].at # "parse" \/ work'[w].held = {} \/ work'[w] = work[w]
  PROVE OrderInv'
BY LessIsInOrder

LEMMA CrawlInOrder ==
  ASSUME Typed, OrderInv, NEW w \in Workers, CrawlStage(w)
  PROVE OrderInv'
<1>1. UNCHANGED <<source, edits, index>>
  BY DEF CrawlStage, Walk, Copy, CrawlAborts, Reset, Locked, InTree, Fail
<1>2. ASSUME OnlyWorker(w), work'[w].at # "parse"
      PROVE \A v \in Workers : work'[v].at # "parse" \/ work'[v].held = {} \/ work'[v] = work[v]
  BY <1>2 DEF OnlyWorker
<1>3. ASSUME Walk(w) PROVE OrderInv'
  <2>1. {d \in Docs : source[d] # 0} \in SUBSET Docs
    OBVIOUS
  <2>2. OnlyWorker(w) /\ work'[w].at = "crawl"
    BY <1>3, <2>1, GotoDoes, StageNames DEF Walk, Works
  <2> QED
    BY <1>1, <1>2, <1>3, <2>2, StaysInOrder DEF Walk
<1>4. ASSUME Copy(w) PROVE OrderInv'
  <2>1. PICK n \in work[w].held :
          /\ source[n.doc] # 0
          /\ Works(w, work[w].at, work[w].todo \ {n.doc}, {}, work[w].bad)
          /\ OnlyCopy(n.doc)
          /\ organized'[n.doc].copy = source[n.doc]
          /\ organized'[n.doc].parsed = organized[n.doc].parsed
    BY <1>4, CopyDoes
  <2>2. ASSUME NEW d \in Docs PROVE InOrder(d)'
    <3>1. InOrder(d)
      BY DEF OrderInv
    <3>2. CASE d = n.doc
      BY <1>1, <2>1, <3>1, <3>2, Numbers DEF InOrder, Ordered
    <3>3. CASE d # n.doc
      BY <1>1, <2>1, <3>1, <3>3 DEF InOrder, OnlyCopy
    <3> QED
      BY <3>2, <3>3
  <2>3. ASSUME NEW v \in Workers, Parsing(v)', NEW m \in work'[v].held PROVE HeldFits(m)'
    <3>1. work'[v] = work[v]
      BY <1>4, <2>1, <2>3 DEF Works, OnlyWorker, Parsing, Copy
    <3>2. HeldFits(m) /\ m.doc \in Docs
      BY <2>3, <3>1, NoteTyped DEF Parsing, OrderInv
    <3>3. organized'[m.doc].copy \in {source[m.doc], organized[m.doc].copy}
      BY <2>1, <3>2 DEF OnlyCopy
    <3> QED
      BY <1>1, <3>2, <3>3 DEF HeldFits
  <2> QED
    BY <2>2, <2>3 DEF OrderInv
<1>5. ASSUME CrawlAborts(w) PROVE OrderInv'
  <2>1. OnlyWorker(w) /\ work'[w].at = "idle"
    BY <1>5, FailDoes DEF CrawlAborts, Ends, Idle
  <2> QED
    BY <1>1, <1>2, <1>5, <2>1, StaysInOrder DEF CrawlAborts, Fail
<1>6. ASSUME NEW d \in Docs, Reset(w, d) PROVE OrderInv'
  <2>1. /\ OnlyWorker(w) /\ work'[w].at = "crawl"
        /\ OnlyCopy(d) /\ organized'[d].copy = 0 /\ organized'[d].parsed = 0
    BY <1>6, ResetDoes DEF Works, Reset
  <2> QED
    BY <1>1, <1>2, <2>1, LessIsInOrder DEF OnlyCopy
<1>7. ASSUME NEW d \in Docs, Locked(w, d) PROVE OrderInv'
  <2>1. /\ OnlyWorker(w) /\ work'[w].at = "crawl" /\ OnlyCopy(d)
        /\ organized'[d].copy \in {0, organized[d].copy}
        /\ organized'[d].parsed \in {0, organized[d].parsed}
    BY <1>7, LockedDoes DEF Works, Locked
  <2> QED
    BY <1>1, <1>2, <2>1, LessIsInOrder DEF OnlyCopy
<1> QED
  BY <1>3, <1>4, <1>5, <1>6, <1>7 DEF CrawlStage

LEMMA ParseInOrder ==
  ASSUME Typed, Owned, OrderInv, NEW w \in Workers, ParseStage(w)
  PROVE OrderInv'
<1>1. UNCHANGED <<source, edits, index>>
  BY DEF ParseStage, StartParse, ReadLater, WriteParsed, ParseFails, Read, InTree
<1>2. ASSUME OnlyWorker(w), work'[w].held = {}
      PROVE \A v \in Workers : work'[v].at # "parse" \/ work'[v].held = {} \/ work'[v] = work[v]
  BY <1>2 DEF OnlyWorker
<1>3. ASSUME StartParse(w) PROVE OrderInv'
  <2>1. OnlyWorker(w) /\ work'[w].held = {}
    BY <1>3, StartParseDoes DEF Works
  <2> QED
    BY <1>1, <1>2, <1>3, <2>1, StaysInOrder DEF StartParse
<1>4. ASSUME WriteParsed(w) PROVE OrderInv'
  <2>1. PICK n \in work[w].held :
          /\ Works(w, work[w].at, work[w].todo \ {n.doc}, {}, work[w].bad)
          /\ OnlyCopy(n.doc)
          /\ organized'[n.doc].copy = organized[n.doc].copy
          /\ organized'[n.doc].parsed \in {n.text, organized[n.doc].parsed}
    BY <1>4, WriteParsedDoes
  <2>2. HeldFits(n) /\ n.doc = work[w].doc /\ n.doc \in Docs /\ n.text \in Version
    BY <1>4, <2>1, NoteTyped DEF WriteParsed, OrderInv, Parsing, Owned, Owns
  <2>3. n.text \in Nat
    BY <2>2, VersionsAreNumbers
  <2>4. ASSUME NEW d \in Docs PROVE InOrder(d)'
    <3>1. InOrder(d)
      BY DEF OrderInv
    <3>2. CASE d = n.doc
      BY <1>1, <2>1, <2>2, <2>3, <3>1, <3>2, Numbers DEF InOrder, Ordered, HeldFits
    <3>3. CASE d # n.doc
      BY <1>1, <2>1, <3>1, <3>3 DEF InOrder, OnlyCopy
    <3> QED
      BY <3>2, <3>3
  <2>5. ASSUME NEW v \in Workers, Parsing(v)', NEW m \in work'[v].held PROVE HeldFits(m)'
    <3>1. v # w /\ work'[v] = work[v]
      BY <2>1, <2>5 DEF Works, OnlyWorker
    <3>2. HeldFits(m) /\ m.doc \in Docs /\ m.doc = work[v].doc
      BY <2>5, <3>1, NoteTyped DEF Parsing, OrderInv, Owned, Owns
    <3>3. m.doc # n.doc
      BY <1>4, <2>2, <2>5, <3>1, <3>2, Apart DEF Parsing, WriteParsed
    <3> QED
      BY <1>1, <2>1, <3>2, <3>3 DEF HeldFits, OnlyCopy
  <2> QED
    BY <2>4, <2>5 DEF OrderInv
<1>5. ASSUME ParseFails(w) PROVE OrderInv'
  <2>1. OnlyWorker(w) /\ work'[w].held = {}
    BY <1>5, ParseFailsDoes DEF Works
  <2> QED
    BY <1>1, <1>2, <1>5, <2>1, StaysInOrder DEF ParseFails
<1>6. ASSUME NEW d \in Docs, Read(w, d) PROVE OrderInv'
  <2>1. organized' = organized
    BY <1>6 DEF Read
  <2>2. CASE Works(w, work[w].at, work[w].todo \ {d}, {}, work[w].bad)
    BY <1>1, <1>2, <2>1, <2>2, StaysInOrder DEF Works
  <2>3. CASE /\ organized[d].copy # 0
             /\ Works(w, work[w].at, work[w].todo, {Of(d, organized[d].copy)}, work[w].bad)
    <3>1. \A e \in Docs : InOrder(e)'
      BY <1>1, <2>1 DEF OrderInv, InOrder
    <3>2. d = work[w].doc /\ source[d] # 0
      BY <1>6 DEF Read, Owned, Owns
    <3>3. ASSUME NEW v \in Workers, Parsing(v)', NEW m \in work'[v].held PROVE HeldFits(m)'
      <4>1. CASE v = w
        <5>1. m.doc = d /\ m.text = organized[d].copy
          BY <2>3, <3>3, <4>1 DEF Works, Of
        <5>2. InOrder(d)
          BY DEF OrderInv
        <5> QED
          BY <1>1, <2>1, <2>3, <3>2, <5>1, <5>2, Numbers DEF HeldFits, InOrder, Ordered
      <4>2. CASE v # w
        <5>1. work'[v] = work[v]
          BY <2>3, <4>2 DEF Works, OnlyWorker
        <5>2. HeldFits(m)
          BY <3>3, <5>1 DEF Parsing, OrderInv
        <5> QED
          BY <1>1, <2>1, <5>2 DEF HeldFits
      <4> QED
        BY <4>1, <4>2
    <3> QED
      BY <3>1, <3>3 DEF OrderInv
  <2> QED
    BY <1>6, <2>2, <2>3, ReadDoes
<1>7. ASSUME ReadLater(w) PROVE OrderInv'
  <2>1. PICK n \in work[w].held, m \in Note :
          /\ m.doc = n.doc
          /\ m.text = IF organized[n.doc].copy = 0 THEN n.text ELSE organized[n.doc].copy
          /\ Works(w, work[w].at, work[w].todo, {m}, work[w].bad)
    BY <1>7, ReadLaterDoes
  <2>2. organized' = organized
    BY <1>7 DEF ReadLater
  <2>3. HeldFits(n) /\ n.doc \in Docs /\ InOrder(n.doc)
    BY <1>7, <2>1, NoteTyped DEF ReadLater, OrderInv, Parsing
  <2>4. HeldFits(m)'
    BY <1>1, <2>1, <2>2, <2>3, Numbers DEF HeldFits, InOrder, Ordered
  <2>5. \A e \in Docs : InOrder(e)'
    BY <1>1, <2>2 DEF OrderInv, InOrder
  <2>6. ASSUME NEW v \in Workers, Parsing(v)', NEW k \in work'[v].held PROVE HeldFits(k)'
    <3>1. CASE v = w
      BY <2>1, <2>4, <2>6, <3>1 DEF Works
    <3>2. CASE v # w
      <4>1. work'[v] = work[v]
        BY <2>1, <3>2 DEF Works, OnlyWorker
      <4>2. HeldFits(k)
        BY <2>6, <4>1 DEF Parsing, OrderInv
      <4> QED
        BY <1>1, <2>2, <4>2 DEF HeldFits
    <3> QED
      BY <3>1, <3>2
  <2> QED
    BY <2>5, <2>6 DEF OrderInv
<1> QED
  BY <1>3, <1>4, <1>5, <1>6, <1>7 DEF ParseStage

LEMMA IndexInOrder ==
  ASSUME Typed, Owned, OrderInv, NEW w \in Workers, IndexStage(w)
  PROVE OrderInv'
<1>1. UNCHANGED <<source, edits, organized>>
  BY DEF IndexStage, StartLoad, InTree, NothingToLoad, Fail, EndLoad, InIndex, SelectUnembedded,
     Embed, EmbedFails, Reactivate, IngestedNothing, Load, LoadFails
<1>2. ASSUME OnlyWorker(w), work'[w].at # "parse", \A d \in Docs : index'[d].text = index[d].text
      PROVE OrderInv'
  BY <1>1, <1>2, LessIsInOrder DEF OnlyWorker
<1>3. ASSUME OnlyWorker(w), work'[w].at # "parse", UNCHANGED index PROVE OrderInv'
  BY <1>2, <1>3
<1>4. ASSUME Fail(w) PROVE OrderInv'
  BY <1>3, <1>4, FailDoes DEF Fail, Ends, Idle
<1>5. ASSUME StartLoad(w) PROVE OrderInv'
  BY <1>3, <1>5, StartLoadDoes DEF Works, StartLoad, InTree
<1>6. ASSUME NothingToLoad(w) \/ IngestedNothing(w) PROVE OrderInv'
  BY <1>4, <1>6 DEF NothingToLoad, IngestedNothing
<1>7. ASSUME EndLoad(w) PROVE OrderInv'
  BY <1>3, <1>4, <1>7, EndLoadDoes DEF Works
<1>8. ASSUME SelectUnembedded(w) PROVE OrderInv'
  BY <1>3, <1>8, SelectDoes DEF Works, SelectUnembedded
<1>9. ASSUME Embed(w) PROVE OrderInv'
  BY <1>2, <1>9, EmbedDoes DEF Works, VectorsOnly
<1>10. ASSUME EmbedFails(w) PROVE OrderInv'
  BY <1>2, <1>10, EmbedFailsDoes DEF VectorsOnly, Ends, Idle
<1>11. ASSUME Reactivate(w) PROVE OrderInv'
  <2>1. \A d \in Docs : index'[d].text = index[d].text
    BY <1>11, ReactivateDoes DEF OnlyRow
  <2> QED
    BY <1>2, <1>11, <2>1, ReactivateDoes DEF Ends, Idle
<1>12. ASSUME NEW d \in Docs, LoadFails(w, d) PROVE OrderInv'
  BY <1>3, <1>12, LoadFailsDoes DEF Works, LoadFails
<1>13. ASSUME NEW d \in Docs, Load(w, d) PROVE OrderInv'
  <2>1. /\ OnlyWorker(w) /\ work'[w].at = "load" /\ OnlyRow(d)
        /\ index'[d].text \in {index[d].text, organized[d].parsed} /\ organized[d].parsed # 0
    BY <1>13, LoadDoes DEF Load, Works
  <2>2. d = work[w].doc /\ work[w].at = "load"
    BY <1>13 DEF Load, Owned, Owns
  <2>3. ASSUME NEW e \in Docs PROVE InOrder(e)'
    <3>1. InOrder(e)
      BY DEF OrderInv
    <3>2. CASE e = d
      BY <1>1, <2>1, <3>1, <3>2, Numbers DEF InOrder, Ordered
    <3>3. CASE e # d
      BY <1>1, <2>1, <3>1, <3>3 DEF InOrder, OnlyRow
    <3> QED
      BY <3>2, <3>3
  <2>4. ASSUME NEW v \in Workers, Parsing(v)', NEW m \in work'[v].held PROVE HeldFits(m)'
    <3>1. v # w /\ work'[v] = work[v]
      BY <2>1, <2>4 DEF OnlyWorker, Parsing
    <3>2. HeldFits(m) /\ m.doc \in Docs /\ m.doc = work[v].doc
      BY <2>4, <3>1, NoteTyped DEF Parsing, OrderInv, Owned, Owns
    <3>3. m.doc # d
      BY <2>2, <2>4, <3>1, <3>2, Apart DEF Parsing
    <3> QED
      BY <1>1, <2>1, <3>2, <3>3 DEF HeldFits, OnlyRow
  <2> QED
    BY <2>3, <2>4 DEF OrderInv
<1> QED
  BY <1>5, <1>6, <1>7, <1>8, <1>9, <1>10, <1>11, <1>12, <1>13 DEF IndexStage

LEMMA ChangeInOrder ==
  ASSUME Typed, Owned, OrderInv, NEW d \in Docs, Write(d) \/ Remove(d)
  PROVE OrderInv'
<1>1. PICK v \in {0, edits + 1} : Change(d, v)
  BY DEF Write, Remove
<1>2. /\ edits' = edits + 1 /\ source'[d] = v /\ UNCHANGED <<organized, index, work>>
      /\ \A e \in Docs : e # d => source'[e] = source[e]
      /\ \A w \in Workers : work[w].doc # d
  BY <1>1 DEF Change, Busy, Typed
<1>3. ASSUME NEW e \in Docs PROVE InOrder(e)'
  <2>1. InOrder(e)
    BY DEF OrderInv
  <2>2. source'[e] \in {source[e], 0, edits + 1}
    BY <1>2
  <2>3. source'[e] # source[e] => e = d
    BY <1>2
  <2> QED
    BY <1>2, <2>1, <2>2, <2>3, Numbers DEF InOrder, Ordered
<1>4. ASSUME NEW w \in Workers, Parsing(w)', NEW n \in work'[w].held PROVE HeldFits(n)'
  <2>1. HeldFits(n) /\ n.doc \in Docs /\ n.doc = work[w].doc
    BY <1>2, <1>4, NoteTyped DEF Parsing, OrderInv, Owned, Owns
  <2> QED
    BY <1>2, <2>1 DEF HeldFits
<1> QED
  BY <1>3, <1>4 DEF OrderInv

LEMMA InitInOrder == Init => OrderInv
BY DEF Init, OrderInv, InOrder, Ordered, Parsing, Idle, NoDir, NoRow

LEMMA NextInOrder ==
  ASSUME DeletesApart, Typed, Owned, OrderInv, [Next]_vars
  PROVE OrderInv'
<1>1. CASE UNCHANGED vars
  BY <1>1, StaysInOrder DEF vars
<1>2. ASSUME NEW d \in Docs, Notice(d) PROVE OrderInv'
  BY <1>2, StaysInOrder DEF Notice
<1>3. ASSUME NEW w \in Workers, NEW d \in Docs, Take(w, d) PROVE OrderInv'
  <2>1. \A v \in Workers : work'[v].held = {} \/ work'[v] = work[v]
    BY <1>3, TakeDoes DEF OnlyWorker
  <2> QED
    BY <1>3, <2>1, StaysInOrder DEF Take
<1>4. ASSUME NEW w \in Workers, Crash(w) PROVE OrderInv'
  <2>1. \A v \in Workers : work'[v].held = {} \/ work'[v] = work[v]
    BY <1>4, CrashDoes DEF OnlyWorker, Ends, Idle
  <2> QED
    BY <1>4, <2>1, StaysInOrder DEF Crash
<1>5. ASSUME NEW w \in Workers, SoftDelete(w) PROVE OrderInv'
  <2>1. \A v \in Workers : work'[v].held = {} \/ work'[v] = work[v]
    BY <1>5, SoftDeleteDoes DEF OnlyWorker, Ends, Idle
  <2>2. \A d \in Docs : index'[d].text = index[d].text
    BY <1>5, SoftDeleteDoes DEF OnlyRow
  <2> QED
    BY <1>5, <2>1, <2>2, LessIsInOrder DEF SoftDelete
<1>6. ASSUME NEW w \in Workers, Upsert(w) PROVE OrderInv'
  BY <1>6, CrawlInOrder, ParseInOrder, IndexInOrder DEF Upsert
<1>7. ASSUME Purge PROVE OrderInv'
  <2>1. \A d \in Docs : index'[d].text \in {0, index[d].text}
    BY <1>7, ConfirmPurgeDoes DEF Purge, ListPurge, AbortPurge
  <2>2. UNCHANGED <<source, edits, organized, work>>
    BY <1>7 DEF Purge, ListPurge, AbortPurge, ConfirmPurge, OutsidePurge
  <2> QED
    BY <2>1, <2>2, LessIsInOrder
<1>8. ASSUME HardDelete PROVE OrderInv'
  <2>1. UNCHANGED <<edits, work>>
    BY <1>8, DeleteDoes
  <2>2. ASSUME NEW d \in Docs PROVE InOrder(d)'
    <3>1. InOrder(d)
      BY DEF OrderInv
    <3>2. /\ organized'[d].copy \in {0, organized[d].copy}
          /\ organized'[d].parsed \in {0, organized[d].parsed}
          /\ index'[d].text \in {0, index[d].text}
          /\ source'[d] \in {0, source[d]}
      BY <1>8, DeleteTakes
    <3> QED
      BY <2>1, <3>1, <3>2, Numbers DEF InOrder, Ordered
  <2>3. ASSUME NEW w \in Workers, Parsing(w)', NEW n \in work'[w].held PROVE HeldFits(n)'
    <3>1. HeldFits(n) /\ n.doc = work[w].doc /\ work[w].at # "idle"
      BY <2>1, <2>3 DEF Parsing, OrderInv, Owned, Owns
    <3>2. UNCHANGED <<source[n.doc], organized[n.doc], index[n.doc]>>
      BY <1>8, <3>1, DeletesOther
    <3> QED
      BY <3>1, <3>2 DEF HeldFits
  <2> QED
    BY <2>2, <2>3 DEF OrderInv
<1> QED
  BY <1>1, <1>2, <1>3, <1>4, <1>5, <1>6, <1>7, <1>8, ChangeInOrder DEF Next

(* If no --only token matches another document and no folder is deleted by  *)
(* hand while it is worked on, no load replaces a text by an older one, for *)
(* any number of workers whose crawls reset what the others work on.        *)
THEOREM LoadsGoForward ==
  Overlaps = {} => (Spec /\ []DeletesApart => NeverBackwards)
<1> SUFFICES ASSUME Overlaps = {}
             PROVE  Spec /\ []DeletesApart => NeverBackwards
  OBVIOUS
<1>1. Init => Typed /\ Owned /\ OrderInv
  BY InitTyped, InitOwn, InitInOrder
<1>2. DeletesApart /\ Typed /\ Owned /\ OrderInv /\ [Next]_vars => (Typed /\ Owned /\ OrderInv)'
  BY NextTyped, NextOwn, NextInOrder
<1>3. Typed /\ Owned /\ OrderInv
        => \A w \in Workers, d \in Docs : Load(w, d) => index'[d].text >= index[d].text
  <2> SUFFICES ASSUME Typed, OrderInv, NEW w \in Workers, NEW d \in Docs, Load(w, d)
               PROVE  index'[d].text >= index[d].text
    OBVIOUS
  <2>1. index'[d].text \in {index[d].text, organized[d].parsed} /\ organized[d].parsed # 0
    BY LoadDoes DEF Load
  <2>2. InOrder(d)
    BY DEF OrderInv
  <2> QED
    BY <2>1, <2>2, Numbers DEF InOrder, Ordered
<1> QED
  BY <1>1, <1>2, <1>3, PTL DEF Spec, NeverBackwards

-----------------------------------------------------------------------------
(* A finished job is indexed.  Once the crawl of a job has come to its own  *)
(* folder, other crawls can only take the copy away or make it again from   *)
(* the same files.                                                          *)

Renewed(w) ==
  \/ work[w].at \in {"parse", "load", "embed", "store"}
  \/ /\ work[w].at = "crawl"
     /\ work[w].doc \notin work[w].todo \/ \E n \in work[w].held : n.doc = work[w].doc

Stored(w) ==
  \/ work[w].at = "load" /\ work[w].doc \notin work[w].todo /\ ~work[w].bad
  \/ work[w].at \in {"embed", "store"}

OfJob(w, text) == text \in {0, work[w].seen}

(* The row holds the job's text, or its record came without an answer.      *)
Loads(w, r) ==
  r.text = work[w].seen \/ r.unread = "hidden" \/ (r.unread = "kept" /\ r.active)

Fresh(w) ==
  /\ Renewed(w) => /\ OfJob(w, organized[work[w].doc].copy)
                   /\ OfJob(w, organized[work[w].doc].parsed)
  /\ work[w].at = "parse" => \A n \in work[w].held : n.text = work[w].seen
  /\ Stored(w) /\ index[work[w].doc].row => Loads(w, index[work[w].doc])

FreshInv == \A w \in Workers : work[w].at # "idle" => Fresh(w)

(* What another's step may do to the job's folder.                          *)
LEMMA StaysFresh ==
  ASSUME Typed, Owned, FreshInv, NEW w \in Workers, work'[w].at # "idle", work'[w] = work[w],
         \/ UNCHANGED organized
         \/ LET d == work[w].doc IN
            /\ organized'[d].copy \in {0, source[d], organized[d].copy}
            /\ organized'[d].parsed \in {0, organized[d].parsed},
         \/ UNCHANGED index
         \/ LET d == work[w].doc IN
            \/ ~index'[d].row
            \/ /\ index'[d].row = index[d].row /\ index'[d].text = index[d].text
               /\ index'[d].active = index[d].active /\ index'[d].unread = index[d].unread
  PROVE Fresh(w)'
<1>1. Fresh(w) /\ source[work[w].doc] = work[w].seen
  BY DEF FreshInv, Owned, Owns
<1> QED
  BY <1>1 DEF Fresh, Renewed, Stored, OfJob, Loads

(* The folder of another worker's job is another one.                       *)
LEMMA FreshStep ==
  ASSUME Typed, Owned, FreshInv, NEW w \in Workers, OnlyWorker(w), work[w].at # "idle",
         \/ UNCHANGED organized
         \/ \E d \in Docs : /\ OnlyCopy(d)
                            /\ \/ d = work[w].doc
                               \/ /\ organized'[d].copy \in {0, source[d], organized[d].copy}
                                  /\ organized'[d].parsed \in {0, organized[d].parsed},
         UNCHANGED index \/ VectorsOnly \/ OnlyRow(work[w].doc),
         work'[w].at # "idle" => Fresh(w)'
  PROVE FreshInv'
<1> SUFFICES ASSUME NEW v \in Workers, v # w, work'[v].at # "idle" PROVE Fresh(v)'
  BY DEF FreshInv
<1>1. work'[v] = work[v] /\ work[v].at # "idle"
  BY DEF OnlyWorker
<1>2. work[v].doc # work[w].doc /\ work[v].doc \in Docs
  BY <1>1, Apart, HasDoc
<1>3. \/ UNCHANGED organized
      \/ /\ organized'[work[v].doc].copy \in {0, source[work[v].doc], organized[work[v].doc].copy}
         /\ organized'[work[v].doc].parsed \in {0, organized[work[v].doc].parsed}
  BY <1>2 DEF OnlyCopy
<1>4. \/ UNCHANGED index
      \/ LET d == work[v].doc IN
         /\ index'[d].row = index[d].row /\ index'[d].text = index[d].text
         /\ index'[d].active = index[d].active /\ index'[d].unread = index[d].unread
  BY <1>2 DEF OnlyRow, VectorsOnly
<1> QED
  BY <1>1, <1>3, <1>4, StaysFresh

LEMMA EndsFresh ==
  ASSUME Typed, Owned, FreshInv, NEW w \in Workers, NEW by, Ends(w, by), work[w].at # "idle",
         UNCHANGED organized, UNCHANGED index \/ VectorsOnly \/ OnlyRow(work[w].doc)
  PROVE FreshInv'
BY FreshStep DEF Ends, Idle

LEMMA FailFresh ==
  ASSUME Typed, Owned, FreshInv, NEW w \in Workers, Fail(w), work[w].at # "idle"
  PROVE FreshInv'
BY FailDoes, EndsFresh DEF Fail

LEMMA CrawlFresh ==
  ASSUME "locks" \notin Upsets, Typed, Owned, FreshInv, NEW w \in Workers, CrawlStage(w)
  PROVE FreshInv'
<1>1. UNCHANGED <<source, index>> /\ work[w].at # "idle"
  BY DEF CrawlStage, Walk, Copy, CrawlAborts, Reset, Locked, InTree, Fail
<1>2. work[w].doc \in Docs /\ Owns(w) /\ Fresh(w)
  BY <1>1, HasDoc DEF Owned, FreshInv
<1>3. ASSUME Walk(w) PROVE FreshInv'
  <2>1. {d \in Docs : source[d] # 0} \in SUBSET Docs
    OBVIOUS
  <2>2. Works(w, "crawl", {d \in Docs : source[d] # 0}, {}, work[w].bad)
    BY <1>3, <2>1, GotoDoes, StageNames DEF Walk
  <2>3. work[w].doc \in {d \in Docs : source[d] # 0}
    BY <1>2, <1>3 DEF Owns, Walk
  <2>4. Fresh(w)'
    BY <2>2, <2>3 DEF Works, Fresh, Renewed, Stored
  <2> QED
    BY <1>1, <1>3, <2>2, <2>4, FreshStep DEF Works, Walk
<1>4. ASSUME Copy(w) PROVE FreshInv'
  <2>1. PICK n \in work[w].held :
          /\ Works(w, "crawl", work[w].todo \ {n.doc}, {}, work[w].bad)
          /\ OnlyCopy(n.doc)
          /\ organized'[n.doc].copy = source[n.doc]
          /\ organized'[n.doc].parsed = organized[n.doc].parsed
    <3>1. PICK n \in work[w].held :
            /\ Works(w, work[w].at, work[w].todo \ {n.doc}, {}, work[w].bad)
            /\ OnlyCopy(n.doc)
            /\ organized'[n.doc].copy = source[n.doc]
            /\ organized'[n.doc].parsed = organized[n.doc].parsed
      BY <1>4, CopyDoes
    <3>2. work[w].at = "crawl"
      BY <1>4 DEF Copy
    <3> QED BY <3>1, <3>2
  <2>2. n.doc \in Docs
    BY NoteTyped
  <2>3. Renewed(w)' => Renewed(w)
    BY <1>4, <2>1 DEF Works, Renewed, Copy
  <2>4. /\ organized'[work[w].doc].copy \in {source[work[w].doc], organized[work[w].doc].copy}
        /\ organized'[work[w].doc].parsed = organized[work[w].doc].parsed
    BY <1>2, <2>1 DEF OnlyCopy
  <2>5. Fresh(w)'
    BY <1>2, <2>1, <2>3, <2>4 DEF Works, Fresh, Stored, OfJob, Owns
  <2> QED
    BY <1>1, <2>1, <2>2, <2>5, FreshStep DEF Works
<1>5. ASSUME CrawlAborts(w) PROVE FreshInv'
  BY <1>1, <1>5, FailFresh DEF CrawlAborts
<1>6. ASSUME NEW d \in Docs, Reset(w, d) PROVE FreshInv'
  <2>1. /\ Works(w, "crawl", work[w].todo, {Of(d, 0)}, work[w].bad)
        /\ OnlyCopy(d) /\ organized'[d].copy = 0 /\ organized'[d].parsed = 0
    BY <1>6, ResetDoes DEF Reset
  <2>2. Renewed(w)' => Renewed(w) \/ d = work[w].doc
    BY <1>6, <2>1 DEF Works, Renewed, Reset, Of
  <2>3. \/ organized'[work[w].doc] = organized[work[w].doc] /\ d # work[w].doc
        \/ organized'[work[w].doc].copy = 0 /\ organized'[work[w].doc].parsed = 0
    BY <1>2, <2>1 DEF OnlyCopy
  <2>4. Fresh(w)'
    BY <1>2, <2>1, <2>2, <2>3 DEF Works, Fresh, Stored, OfJob
  <2> QED
    BY <1>1, <2>1, <2>4, FreshStep DEF Works
<1>7. ASSUME NEW d \in Docs, Locked(w, d) PROVE FALSE
  BY <1>7 DEF Locked
<1> QED
  BY <1>3, <1>4, <1>5, <1>6, <1>7 DEF CrawlStage

LEMMA ParseFresh ==
  ASSUME Typed, Owned, FreshInv, NEW w \in Workers, ParseStage(w)
  PROVE FreshInv'
<1>1. UNCHANGED <<source, index>> /\ work[w].at # "idle"
  BY DEF ParseStage, StartParse, ReadLater, WriteParsed, ParseFails, Read, InTree
<1>2. work[w].doc \in Docs /\ Owns(w) /\ Fresh(w)
  BY <1>1, HasDoc DEF Owned, FreshInv
<1>3. ASSUME Renewed(w), UNCHANGED organized, NEW todo, Works(w, "parse", todo, {}, work[w].bad)
      PROVE FreshInv'
  <2>1. Fresh(w)'
    BY <1>2, <1>3 DEF Works, Fresh, Stored, OfJob
  <2> QED
    BY <1>1, <1>3, <2>1, FreshStep DEF Works
<1>4. ASSUME StartParse(w) PROVE FreshInv'
  <2>1. Renewed(w)
    BY <1>4 DEF Renewed, StartParse
  <2> QED
    BY <1>3, <1>4, <2>1, StartParseDoes DEF StartParse
<1>5. ASSUME WriteParsed(w) PROVE FreshInv'
  <2>1. PICK n \in work[w].held :
          /\ Works(w, "parse", work[w].todo \ {n.doc}, {}, work[w].bad)
          /\ OnlyCopy(n.doc)
          /\ organized'[n.doc].copy = organized[n.doc].copy
          /\ organized'[n.doc].parsed \in {n.text, organized[n.doc].parsed}
    BY <1>5, WriteParsedDoes DEF WriteParsed
  <2>2. n.doc = work[w].doc /\ n.text = work[w].seen /\ Renewed(w)
    BY <1>2, <1>5, <2>1 DEF WriteParsed, Owns, Fresh, Renewed
  <2>3. Fresh(w)'
    BY <1>2, <2>1, <2>2 DEF Works, Fresh, Stored, OfJob
  <2> QED
    BY <1>1, <1>2, <2>1, <2>2, <2>3, FreshStep DEF Works
<1>6. ASSUME ParseFails(w) PROVE FreshInv'
  <2>1. PICK n \in work[w].held : Works(w, "parse", work[w].todo \ {n.doc}, {}, work[w].bad)
    BY <1>6, ParseFailsDoes DEF ParseFails
  <2> QED
    BY <1>3, <1>6, <2>1 DEF Renewed, ParseFails
<1>7. ASSUME NEW d \in Docs, Read(w, d) PROVE FreshInv'
  <2>1. work[w].at = "parse" /\ Renewed(w) /\ UNCHANGED organized /\ d = work[w].doc
    BY <1>2, <1>7 DEF Read, Renewed, Owns
  <2>2. CASE Works(w, work[w].at, work[w].todo \ {d}, {}, work[w].bad)
    BY <1>3, <2>1, <2>2
  <2>3. CASE /\ organized[d].copy # 0
             /\ Works(w, work[w].at, work[w].todo, {Of(d, organized[d].copy)}, work[w].bad)
    <3>1. organized[d].copy = work[w].seen
      BY <1>2, <2>1, <2>3 DEF Fresh, OfJob
    <3>2. \A n \in work'[w].held : n.text = work[w].seen
      BY <2>3, <3>1 DEF Works, Of
    <3>3. Fresh(w)'
      BY <1>2, <2>1, <2>3, <3>2 DEF Works, Fresh, Stored, OfJob
    <3> QED
      BY <1>1, <2>1, <2>3, <3>3, FreshStep DEF Works
  <2> QED
    BY <1>7, <2>2, <2>3, ReadDoes
<1>8. ASSUME ReadLater(w) PROVE FreshInv'
  <2>1. PICK n \in work[w].held, m \in Note :
          /\ m.text = IF organized[n.doc].copy = 0 THEN n.text ELSE organized[n.doc].copy
          /\ Works(w, "parse", work[w].todo, {m}, work[w].bad)
    BY <1>8, ReadLaterDoes DEF ReadLater
  <2>2. n.doc = work[w].doc /\ n.text = work[w].seen /\ Renewed(w) /\ UNCHANGED organized
    BY <1>2, <1>8, <2>1 DEF ReadLater, Owns, Fresh, Renewed
  <2>3. m.text = work[w].seen
    BY <1>2, <2>1, <2>2 DEF Fresh, OfJob
  <2>4. Fresh(w)'
    BY <1>2, <2>1, <2>2, <2>3 DEF Works, Fresh, Stored, OfJob
  <2> QED
    BY <1>1, <2>1, <2>2, <2>4, FreshStep DEF Works
<1> QED
  BY <1>4, <1>5, <1>6, <1>7, <1>8 DEF ParseStage

LEMMA IndexFresh ==
  ASSUME Overlaps = {}, Typed, Owned, FreshInv, NEW w \in Workers, IndexStage(w)
  PROVE FreshInv'
<1>1. UNCHANGED <<source, organized>>
  BY DEF IndexStage, StartLoad, InTree, NothingToLoad, Fail, EndLoad, InIndex, SelectUnembedded,
     Embed, EmbedFails, Reactivate, IngestedNothing, Load, LoadFails
<1>2. work[w].at \in {"parse", "load", "embed", "store"}
  BY DEF IndexStage, StartLoad, NothingToLoad, EndLoad, SelectUnembedded,
     Embed, EmbedFails, Reactivate, IngestedNothing, Load, LoadFails
<1>3. work[w].doc \in Docs /\ Owns(w) /\ Fresh(w) /\ Renewed(w)
  BY <1>2, HasDoc DEF Owned, FreshInv, Renewed
<1>4. ASSUME NEW stage \in {"load", "embed", "store"}, NEW todo, NEW held, NEW bad,
             Works(w, stage, todo, held, bad), UNCHANGED index \/ VectorsOnly,
             Stored(w)' => Stored(w)
      PROVE FreshInv'
  <2>1. LET d == work[w].doc IN
        /\ index'[d].row = index[d].row /\ index'[d].text = index[d].text
        /\ index'[d].active = index[d].active /\ index'[d].unread = index[d].unread
    BY <1>3, <1>4 DEF VectorsOnly
  <2>2. Fresh(w)'
    BY <1>1, <1>3, <1>4, <2>1 DEF Works, Fresh, OfJob, Loads
  <2> QED
    BY <1>1, <1>2, <1>4, <2>2, FreshStep DEF Works
<1>5. ASSUME StartLoad(w) PROVE FreshInv'
  <2>1. Parsed(w) = {work[w].doc}
    BY <1>3, <1>5, SliceAlone DEF StartLoad, Parsed
  <2>2. Works(w, "load", {work[w].doc}, {}, work[w].bad)
    BY <1>5, <2>1, StartLoadDoes
  <2>3. ~Stored(w)'
    BY <2>2 DEF Works, Stored
  <2> QED
    BY <1>4, <1>5, <2>2, <2>3 DEF StartLoad, InTree
<1>6. ASSUME NothingToLoad(w) \/ IngestedNothing(w) PROVE FreshInv'
  BY <1>2, <1>6, FailFresh DEF NothingToLoad, IngestedNothing
<1>7. ASSUME EndLoad(w) PROVE FreshInv'
  <2>1. CASE Fail(w)
    BY <1>2, <2>1, FailFresh
  <2>2. CASE ~work[w].bad /\ Works(w, "embed", {}, {}, work[w].bad) /\ UNCHANGED index
    <3>1. Stored(w)
      BY <1>7, <2>2 DEF EndLoad, Stored
    <3> QED
      BY <1>4, <2>2, <3>1
  <2> QED
    BY <1>7, <2>1, <2>2, EndLoadDoes
<1>8. ASSUME SelectUnembedded(w) PROVE FreshInv'
  <2>1. Stored(w) /\ UNCHANGED index
    BY <1>8 DEF SelectUnembedded, Stored
  <2>2. PICK stage \in {"embed", "store"}, held \in SUBSET Note :
          Works(w, stage, IF stage = "store" THEN {} ELSE work[w].todo, held, work[w].bad)
    BY <1>8, SelectDoes
  <2> QED
    BY <1>4, <2>1, <2>2
<1>9. ASSUME Embed(w) PROVE FreshInv'
  <2>1. Stored(w)
    BY <1>9 DEF Embed, Stored
  <2> QED
    BY <1>4, <1>9, <2>1, EmbedDoes
<1>10. ASSUME EmbedFails(w) PROVE FreshInv'
  BY <1>1, <1>2, <1>10, EmbedFailsDoes, EndsFresh
<1>11. ASSUME Reactivate(w) PROVE FreshInv'
  BY <1>1, <1>2, <1>11, ReactivateDoes, EndsFresh
<1>12. ASSUME NEW d \in Docs, LoadFails(w, d) PROVE FreshInv'
  <2>1. Works(w, "load", work[w].todo \ {d}, work[w].held, TRUE) /\ UNCHANGED index
    BY <1>12, LoadFailsDoes DEF LoadFails
  <2>2. ~Stored(w)'
    BY <2>1 DEF Works, Stored
  <2> QED
    BY <1>4, <2>1, <2>2
<1>13. ASSUME NEW d \in Docs, Load(w, d) PROVE FreshInv'
  <2>1. /\ Works(w, "load", work[w].todo \ {d}, {}, work[w].bad) /\ OnlyRow(d)
        /\ organized[d].parsed # 0 /\ d = work[w].doc
    BY <1>3, <1>13, LoadDoes DEF Load, Owns
  <2>2. Loads(w, index[d])'
    <3>1. work'[w].seen = work[w].seen
      BY <2>1 DEF Works
    <3>2. CASE index'[d].text = organized[d].parsed
      BY <1>3, <2>1, <3>1, <3>2 DEF Fresh, OfJob, Loads
    <3>3. CASE index'[d].unread = Unread(index[d])
      <4>1. index[d].row \in BOOLEAN /\ index[d].active \in BOOLEAN
        BY RowTyped
      <4>2. index'[d].active = (index[d].row => index[d].active)
        BY <1>13, LoadDoes
      <4> QED
        BY <3>3, <4>1, <4>2 DEF Unread, Loads
    <3> QED
      BY <1>13, <3>2, <3>3, LoadDoes
  <2>3. Fresh(w)'
    BY <1>1, <1>3, <2>1, <2>2 DEF Works, Fresh, OfJob
  <2> QED
    BY <1>1, <1>2, <2>1, <2>3, FreshStep DEF Works
<1> QED
  BY <1>5, <1>6, <1>7, <1>8, <1>9, <1>10, <1>11, <1>12, <1>13 DEF IndexStage

LEMMA InitFresh == Init => FreshInv
BY DEF Init, FreshInv, Idle

LEMMA NextFresh ==
  ASSUME Overlaps = {}, "locks" \notin Upsets, DeletesApart, Typed, Owned, FreshInv, [Next]_vars
  PROVE FreshInv'
<1>1. ASSUME UNCHANGED <<work, organized>>,
             \/ UNCHANGED index
             \/ \A d \in Docs : index'[d] = index[d] \/ ~index'[d].row
      PROVE FreshInv'
  <2> SUFFICES ASSUME NEW w \in Workers, work'[w].at # "idle" PROVE Fresh(w)'
    BY DEF FreshInv
  <2>1. work[w].doc \in Docs /\ work'[w] = work[w]
    BY <1>1, HasDoc
  <2> QED
    BY <1>1, <2>1, StaysFresh
<1>2. CASE UNCHANGED vars
  BY <1>1, <1>2 DEF vars
<1>3. ASSUME NEW d \in Docs, Write(d) \/ Remove(d) \/ Notice(d) PROVE FreshInv'
  BY <1>1, <1>3 DEF Write, Remove, Change, Notice
<1>4. ASSUME NEW w \in Workers, NEW d \in Docs, Take(w, d) PROVE FreshInv'
  <2>1. OnlyWorker(w) /\ work'[w].at = IF source[d] # 0 THEN "walk" ELSE "retire"
    BY <1>4, TakeDoes
  <2>2. UNCHANGED <<organized, index>>
    BY <1>4 DEF Take
  <2>3. Fresh(w)'
    BY <2>1 DEF Fresh, Renewed, Stored
  <2>4. ASSUME NEW v \in Workers, v # w, work'[v].at # "idle" PROVE Fresh(v)'
    BY <2>1, <2>2, <2>4, StaysFresh DEF OnlyWorker
  <2> QED
    BY <2>3, <2>4 DEF FreshInv
<1>5. ASSUME NEW w \in Workers, SoftDelete(w) \/ Crash(w) PROVE FreshInv'
  BY <1>5, SoftDeleteDoes, CrashDoes, EndsFresh DEF SoftDelete, Crash
<1>6. ASSUME NEW w \in Workers, Upsert(w) PROVE FreshInv'
  BY <1>6, CrawlFresh, ParseFresh, IndexFresh DEF Upsert
<1>7. ASSUME Purge PROVE FreshInv'
  BY <1>1, <1>7, ConfirmPurgeDoes DEF Purge, ListPurge, AbortPurge, ConfirmPurge, OutsidePurge
<1>8. ASSUME HardDelete PROVE FreshInv'
  <2> SUFFICES ASSUME NEW w \in Workers, work'[w].at # "idle" PROVE Fresh(w)'
    BY DEF FreshInv
  <2>1. work' = work
    BY <1>8, DeleteDoes
  <2>2. Fresh(w)
    BY <2>1 DEF FreshInv
  <2>3. UNCHANGED <<organized[work[w].doc], index[work[w].doc], work[w]>>
    BY <1>8, <2>1, DeletesOther
  <2> QED
    BY <2>2, <2>3 DEF Fresh, Renewed, Stored, OfJob, Loads
<1> QED
  BY <1>2, <1>3, <1>4, <1>5, <1>6, <1>7, <1>8 DEF Next

(* If moreover no output folder is locked, a job that ends well leaves the  *)
(* content that was there when it was claimed searchable, though documents  *)
(* fail, workers die, rows are purged, other folders are deleted by hand    *)
(* and crawls reset each other's copies: the one exception is a record      *)
(* whose answer another crawl removed before it was read, and where one     *)
(* worker runs there is none (OneWorkerReadsAll).                           *)
THEOREM DoneJobsAreIndexed ==
  Overlaps = {} /\ "locks" \notin Upsets => (Spec /\ []DeletesApart => DoneIsIndexed)
<1> SUFFICES ASSUME Overlaps = {}, "locks" \notin Upsets
             PROVE  Spec /\ []DeletesApart => DoneIsIndexed
  OBVIOUS
<1>1. Init => Typed /\ Owned /\ FreshInv
  BY InitTyped, InitOwn, InitFresh
<1>2. DeletesApart /\ Typed /\ Owned /\ FreshInv /\ [Next]_vars => (Typed /\ Owned /\ FreshInv)'
  BY NextTyped, NextOwn, NextFresh
<1>3. Typed /\ Owned /\ FreshInv
        => \A w \in Workers : Reactivate(w) =>
             LET r == index'[work[w].doc] IN r.text >= work[w].seen \/ r.unread # "no"
  <2> SUFFICES ASSUME Typed, FreshInv, NEW w \in Workers, Reactivate(w)
               PROVE  LET r == index'[work[w].doc] IN r.text >= work[w].seen \/ r.unread # "no"
    OBVIOUS
  <2>1. /\ index'[work[w].doc].text = index[work[w].doc].text
        /\ index'[work[w].doc].unread = index[work[w].doc].unread
    BY ReactivateDoes
  <2>2. index[work[w].doc].text = work[w].seen \/ index[work[w].doc].unread # "no"
    BY DEF Reactivate, FreshInv, Fresh, Stored, Loads
  <2>3. work[w].seen \in Nat
    BY WorkTyped, VersionsAreNumbers
  <2> QED
    BY <2>1, <2>2, <2>3
<1> QED
  BY <1>1, <1>2, <1>3, PTL DEF Spec, DoneIsIndexed

-----------------------------------------------------------------------------
(* What changes the index.                                                  *)

(* A step that changes no text and no flag, and ends no job well.           *)
IndexStays ==
  /\ UNCHANGED index \/ VectorsOnly
  /\ \A d \in Docs : job'[d].by = "none" => job[d].by = "none"

LEMMA FailStays ==
  ASSUME Typed, NEW w \in Workers, Fail(w)
  PROVE  IndexStays /\ UNCHANGED <<source, noticed, admin, purge>>
<1>1. PICK by \in {"failed", "pending"} : Ends(w, by)
  BY FailDoes
<1> QED
  BY <1>1 DEF Fail, Ends, IndexStays

LEMMA WorkerIndexes ==
  ASSUME Typed, NEW w \in Workers, SoftDelete(w) \/ Upsert(w) \/ Crash(w)
  PROVE  /\ work[w].at # "idle" /\ UNCHANGED <<source, noticed, admin, purge>>
         /\ IndexStays \/ SoftDelete(w) \/ Reactivate(w) \/ \E d \in Docs : Load(w, d)
<1>1. CASE SoftDelete(w)
  BY <1>1 DEF SoftDelete
<1>2. CASE Crash(w)
  BY <1>2, CrashDoes DEF Crash, Ends, IndexStays
<1>3. CASE CrawlStage(w)
  <2>1. work[w].at # "idle"
    BY <1>3 DEF CrawlStage, Walk, Copy, CrawlAborts, Reset, Locked
  <2>2. CASE CrawlAborts(w)
    BY <2>1, <2>2, FailStays DEF CrawlAborts
  <2>3. CASE ~CrawlAborts(w)
    BY <1>3, <2>1, <2>3 DEF CrawlStage, Walk, Copy, Reset, Locked, InTree, IndexStays
  <2> QED
    BY <2>2, <2>3
<1>4. CASE ParseStage(w)
  BY <1>4 DEF ParseStage, StartParse, ReadLater, WriteParsed, ParseFails, Read, InTree, IndexStays
<1>5. CASE IndexStage(w)
  <2>1. work[w].at # "idle"
    BY <1>5 DEF IndexStage, StartLoad, NothingToLoad, EndLoad, SelectUnembedded, Embed, EmbedFails,
       Reactivate, IngestedNothing, Load, LoadFails
  <2>2. CASE Fail(w)
    BY <2>1, <2>2, FailStays
  <2>3. CASE StartLoad(w) \/ SelectUnembedded(w) \/ (EndLoad(w) /\ ~Fail(w))
    BY <2>1, <2>3 DEF StartLoad, SelectUnembedded, EndLoad, InTree, InIndex, IndexStays
  <2>4. CASE Embed(w)
    BY <2>1, <2>4, EmbedDoes DEF Embed, InIndex, IndexStays
  <2>5. CASE EmbedFails(w)
    <3>1. PICK by \in {"failed", "pending"} : Ends(w, by)
      BY <2>5, EmbedFailsDoes
    <3> QED
      BY <2>1, <2>5, <3>1, EmbedFailsDoes DEF EmbedFails, Ends, IndexStays
  <2>6. ASSUME NEW d \in Docs, LoadFails(w, d)
        PROVE  IndexStays /\ UNCHANGED <<source, noticed, admin, purge>>
    BY <2>6 DEF LoadFails, InIndex, IndexStays
  <2>7. CASE Reactivate(w) \/ \E d \in Docs : Load(w, d)
    BY <2>1, <2>7 DEF Reactivate, Load, InIndex
  <2> QED
    BY <1>5, <2>1, <2>2, <2>3, <2>4, <2>5, <2>6, <2>7 DEF IndexStage, NothingToLoad, IngestedNothing
<1> QED
  BY <1>1, <1>2, <1>3, <1>4, <1>5 DEF Upsert

(* What a worker does to the flags of the rows: it touches its own document *)
(* alone, and brings up or leaves up none whose folder is gone.             *)
LEMMA WorkerShows ==
  ASSUME Typed, Owned, NEW w \in Workers, SoftDelete(w) \/ Upsert(w) \/ Crash(w), NEW d \in Docs
  PROVE  /\ d # work[w].doc => /\ index'[d].row = index[d].row
                               /\ index'[d].active = index[d].active
         /\ index'[d].active => index'[d].row \/ ~index[d].row
         /\ index'[d].row = index[d].row \/ index'[d].row
         /\ index'[d].active => index[d].active \/ (index'[d].row /\ source[d] # 0)
         /\ job'[d].by = "none" => job[d].by = "none" \/ ~index'[d].active \/ source[d] # 0
<1>1. CASE IndexStays
  BY <1>1 DEF IndexStays, VectorsOnly
<1>2. CASE SoftDelete(w)
  <2>1. /\ Ends(w, "none") /\ OnlyRow(work[w].doc) /\ ~index'[work[w].doc].active
        /\ index'[work[w].doc].row = index[work[w].doc].row
    BY <1>2, SoftDeleteDoes
  <2>2. d # work[w].doc => job'[d] = job[d] /\ index'[d] = index[d]
    BY <2>1 DEF Ends, OnlyRow
  <2> QED
    BY <2>1, <2>2
<1>3. CASE Reactivate(w)
  <2>1. /\ Ends(w, "none") /\ OnlyRow(work[w].doc) /\ index'[work[w].doc].row
        /\ index[work[w].doc].row
    BY <1>3, ReactivateDoes DEF Reactivate
  <2>2. d # work[w].doc => job'[d] = job[d] /\ index'[d] = index[d]
    BY <2>1 DEF Ends, OnlyRow
  <2>3. source[work[w].doc] # 0
    BY <1>3 DEF Reactivate, Owned, Owns
  <2> QED
    BY <2>1, <2>2, <2>3
<1>4. ASSUME NEW e \in Docs, Load(w, e)
      PROVE  /\ d # work[w].doc => index'[d] = index[d]
             /\ d = work[w].doc => index'[d].row /\ source[d] # 0
             /\ UNCHANGED job
  <2>1. e = work[w].doc /\ source[e] # 0
    BY <1>4 DEF Load, Owned, Owns
  <2>2. OnlyRow(e) /\ index'[e].row /\ UNCHANGED job
    BY <1>4, LoadDoes DEF Load, InIndex
  <2> QED
    BY <2>1, <2>2 DEF OnlyRow
<1> QED
  BY <1>1, <1>2, <1>3, <1>4, WorkerIndexes

-----------------------------------------------------------------------------
(* What is deleted by hand, or listed for the purge, stays hidden.          *)

(* Where a hard delete has got to.                                          *)
DeletedInv ==
  /\ \A d \in Docs : index[d].active => index[d].row
  /\ admin.at \in {"organized", "source", "queue"} => ~index[admin.doc].active
  /\ admin.at = "queue" => source[admin.doc] = 0

LEMMA InitDeleted == Init => DeletedInv
BY DEF Init, DeletedInv, NoRow, NoDelete

LEMMA NextDeleted ==
  ASSUME DeletesApart, Typed, Owned, DeletedInv, [Next]_vars
  PROVE  DeletedInv'
<1>a. admin.at # "none" => admin.doc \in Docs
  BY DEF Typed, DeletesDoc
<1>b. index \in [Docs -> RowState]
  BY DEF Typed
<1>1. ASSUME UNCHANGED <<source, admin, index>> PROVE DeletedInv'
  BY <1>1 DEF DeletedInv
<1>2. ASSUME NEW d \in Docs, Write(d) \/ Remove(d) PROVE DeletedInv'
  <2>1. UNCHANGED <<admin, index>> /\ d # admin.doc /\ \A e \in Docs : e # d => source'[e] = source[e]
    BY <1>2 DEF Write, Remove, Change, Busy, Typed
  <2> QED
    BY <1>a, <2>1 DEF DeletedInv
<1>3. ASSUME NEW w \in Workers, SoftDelete(w) \/ Upsert(w) \/ Crash(w) PROVE DeletedInv'
  <2>1. work[w].at # "idle" /\ UNCHANGED <<source, admin>>
    BY <1>3, WorkerIndexes
  <2>2. admin.at # "none" => index'[admin.doc].active = index[admin.doc].active
    BY <1>3, <1>a, <2>1, WorkerShows DEF DeletesApart
  <2>3. ASSUME NEW d \in Docs PROVE index'[d].active => index'[d].row
    BY <1>3, WorkerShows DEF DeletedInv
  <2> QED
    BY <2>1, <2>2, <2>3 DEF DeletedInv
<1>4. CASE Purge
  <2>1. \A d \in Docs : index'[d] = index[d] \/ index'[d] = NoRow
    BY <1>4, <1>b DEF Purge, ListPurge, ConfirmPurge, AbortPurge
  <2>2. ~NoRow.active
    BY DEF NoRow
  <2>3. UNCHANGED <<source, admin>>
    BY <1>4 DEF Purge, ListPurge, ConfirmPurge, AbortPurge, OutsidePurge
  <2> QED
    BY <1>a, <2>1, <2>2, <2>3 DEF DeletedInv
<1>5. CASE HardDelete
  <2>1. CASE DeleteChildren
    <3>1. admin.at = "rows" /\ admin'.at = "diary"
      BY <2>1 DEF DeleteChildren, Step, Typed, DeleteState
    <3>2. ASSUME NEW d \in Docs PROVE index'[d].row = index[d].row /\ index'[d].active = index[d].active
      <4> DEFINE next == [index[admin.doc] EXCEPT !.text = 0, !.vector = 0]
      <4>1. index' = [index EXCEPT ![admin.doc] = next]
        BY <2>1, Zenon DEF DeleteChildren
      <4>2. index[d] \in RowState
        BY <1>b
      <4>3. admin.doc = d => next.row = index[d].row /\ next.active = index[d].active
        BY <4>2 DEF RowState
      <4> HIDE DEF next
      <4> QED
        BY <1>b, <4>1, <4>3
    <3> QED
      BY <3>1, <3>2 DEF DeletedInv
  <2>2. CASE DeleteDiary
    <3>1. admin.at = "diary" /\ admin'.at = "organized" /\ admin'.doc = admin.doc
      BY <2>2 DEF DeleteDiary, Step, Typed, DeleteState
    <3>2. \A d \in Docs : index'[d] = IF d = admin.doc THEN NoRow ELSE index[d]
      BY <1>b, <2>2 DEF DeleteDiary
    <3> QED
      BY <1>a, <3>1, <3>2 DEF DeletedInv, NoRow
  <2>3. CASE RemoveOrganized \/ RemoveSource
    <3>1. UNCHANGED index /\ admin'.doc = admin.doc /\ admin.at \in {"organized", "source"}
          /\ (admin'.at = "queue" => RemoveSource)
      BY <2>3 DEF RemoveOrganized, RemoveSource, Step, Typed, DeleteState
    <3>2. admin'.at = "queue" => source'[admin.doc] = 0
      BY <1>a, <3>1 DEF RemoveSource, Typed
    <3> QED
      BY <3>1, <3>2 DEF DeletedInv
  <2>4. CASE CancelJobs \/ DeleteFails
    BY <2>4 DEF CancelJobs, DeleteFails, NoDelete, DeletedInv
  <2>5. ASSUME NEW d \in Docs, BeginDelete(d) PROVE DeletedInv'
    <3>1. UNCHANGED index /\ admin'.doc = d /\ admin'.at = IF index[d].row THEN "rows" ELSE "source"
      BY <2>5 DEF BeginDelete
    <3> QED
      BY <3>1 DEF DeletedInv
  <2> QED
    BY <1>5, <2>1, <2>2, <2>3, <2>4, <2>5 DEF HardDelete
<1>6. ASSUME NEW d \in Docs, Notice(d) \/ \E w \in Workers : Take(w, d) PROVE DeletedInv'
  BY <1>1, <1>6 DEF Notice, Take
<1>7. CASE UNCHANGED vars
  BY <1>1, <1>7 DEF vars
<1> QED
  BY <1>2, <1>3, <1>4, <1>5, <1>6, <1>7 DEF Next

(* Whoever is gone and still shown is being taken care of.                  *)
GoneInv ==
  \A d \in Docs : source[d] = 0 /\ index[d].active => d \in noticed \/ job[d].by # "none"

LEMMA NextGone ==
  ASSUME Typed, Owned, DeletedInv, GoneInv, [Next]_vars
  PROVE  GoneInv'
<1>1. ASSUME NEW d \in Docs, Write(d) \/ Remove(d) PROVE GoneInv'
  <2>1. /\ noticed' = noticed \cup {d} /\ UNCHANGED <<job, index>>
        /\ \A e \in Docs : e # d => source'[e] = source[e]
    BY <1>1 DEF Write, Remove, Change, Typed
  <2> QED
    BY <2>1 DEF GoneInv
<1>2. ASSUME NEW d \in Docs, Notice(d) PROVE GoneInv'
  <2>1. /\ noticed' = noticed \ {d} /\ UNCHANGED <<source, index>>
        /\ job'[d].by # "none" /\ \A e \in Docs : e # d => job'[e] = job[e]
    BY <1>2 DEF Notice, Typed
  <2> QED
    BY <2>1 DEF GoneInv
<1>3. ASSUME NEW w \in Workers, NEW d \in Docs, Take(w, d) PROVE GoneInv'
  <2>1. job'[d].by # "none" /\ \A e \in Docs : e # d => job'[e] = job[e]
    BY <1>3, TakeDoes, CorpusAssumption
  <2> QED
    BY <1>3, <2>1 DEF Take, GoneInv
<1>4. ASSUME NEW w \in Workers, SoftDelete(w) \/ Upsert(w) \/ Crash(w) PROVE GoneInv'
  <2>1. UNCHANGED <<source, noticed>>
    BY <1>4, WorkerIndexes
  <2> SUFFICES ASSUME NEW d \in Docs, source[d] = 0, index'[d].active, d \notin noticed
               PROVE  job'[d].by # "none"
    BY <2>1 DEF GoneInv
  <2>2. index[d].active
    BY <1>4, WorkerShows
  <2>3. job[d].by # "none"
    BY <2>2 DEF GoneInv
  <2> QED
    BY <1>4, <2>3, WorkerShows
<1>5. CASE Purge
  <2>1. \A d \in Docs : index'[d] = index[d] \/ index'[d] = NoRow
    BY <1>5 DEF Purge, ListPurge, ConfirmPurge, AbortPurge
  <2>2. ~NoRow.active
    BY DEF NoRow
  <2>3. UNCHANGED <<source, noticed, job>>
    BY <1>5 DEF Purge, ListPurge, ConfirmPurge, AbortPurge, OutsidePurge
  <2> QED
    BY <2>1, <2>2, <2>3 DEF GoneInv
<1>6. CASE HardDelete
  <2> SUFFICES ASSUME NEW d \in Docs, source'[d] = 0, index'[d].active, d \notin noticed'
               PROVE  job'[d].by # "none"
    BY DEF GoneInv
  <2>1. index[d].active /\ d \notin noticed /\ source[d] = 0
    BY <1>6, DeleteTakes
  <2>2. ~(admin.at = "queue" /\ admin.doc = d)
    BY <2>1 DEF DeletedInv
  <2>3. job'[d] = job[d]
    BY <1>6, <2>2, DeleteTakes
  <2> QED
    BY <2>1, <2>3 DEF GoneInv
<1>7. CASE UNCHANGED vars
  BY <1>7 DEF vars, GoneInv
<1> QED
  BY <1>1, <1>2, <1>3, <1>4, <1>5, <1>6, <1>7 DEF Next

(* Once all is quiet nothing that is gone can be found, though output       *)
(* folders are locked, documents fail, deletes fail half-way, workers die   *)
(* and rows are purged: a token that matches another document, or a hard    *)
(* delete beside the job of its own folder, is the only way to bring a      *)
(* deleted document back (process_delete, delete_path).                     *)
THEOREM NothingRises ==
  Overlaps = {} => (Spec /\ []DeletesApart => []GoneIsUnsearchable)
<1> SUFFICES ASSUME Overlaps = {}
             PROVE  Spec /\ []DeletesApart => []GoneIsUnsearchable
  OBVIOUS
<1>1. Init => Typed /\ Owned /\ DeletedInv /\ GoneInv
  BY InitTyped, InitOwn, InitDeleted DEF Init, GoneInv, NoRow
<1>2. DeletesApart /\ Typed /\ Owned /\ DeletedInv /\ GoneInv /\ [Next]_vars
        => (Typed /\ Owned /\ DeletedInv /\ GoneInv)'
  BY NextTyped, NextOwn, NextDeleted, NextGone
<1>3. GoneInv => GoneIsUnsearchable
  BY DEF GoneInv, GoneIsUnsearchable, Quiet
<1> QED
  BY <1>1, <1>2, <1>3, PTL DEF Spec

(* Where tokens match one document each, a worker loads its own.            *)
LoadsOwn == \A w \in Workers : work[w].at = "load" => work[w].todo \subseteq {work[w].doc}

LEMMA OwnedLoadsOwn == Owned => LoadsOwn
BY DEF Owned, Owns, LoadsOwn

LEMMA WorkerLoads ==
  ASSUME Overlaps = {}, Typed, LoadsOwn, NEW w \in Workers, SoftDelete(w) \/ Upsert(w) \/ Crash(w)
  PROVE  LoadsOwn'
<1>1. ASSUME OnlyWorker(w), work'[w].at = "load" => work'[w].todo \subseteq {work'[w].doc}
      PROVE  LoadsOwn'
  BY <1>1 DEF OnlyWorker, LoadsOwn
<1>2. ASSUME NEW by, Ends(w, by) PROVE LoadsOwn'
  BY <1>1, <1>2 DEF Ends, Idle
<1>3. ASSUME NEW stage, stage # "load", NEW todo, NEW held, NEW bad, Works(w, stage, todo, held, bad)
      PROVE  LoadsOwn'
  BY <1>1, <1>3 DEF Works
<1>4. ASSUME Fail(w) PROVE LoadsOwn'
  BY <1>2, <1>4, FailDoes
<1>5. CASE SoftDelete(w) \/ Crash(w)
  BY <1>2, <1>5, SoftDeleteDoes, CrashDoes
<1>6. CASE CrawlStage(w)
  <2>1. ASSUME Walk(w) PROVE LoadsOwn'
    <3>1. Works(w, "crawl", {d \in Docs : source[d] # 0}, {}, work[w].bad)
      BY <2>1, GotoDoes, StageNames DEF Walk
    <3> QED
      BY <1>3, <3>1
  <2>2. ASSUME Copy(w) PROVE LoadsOwn'
    BY <1>3, <2>2, CopyDoes DEF Copy
  <2>3. ASSUME CrawlAborts(w) PROVE LoadsOwn'
    BY <1>4, <2>3 DEF CrawlAborts
  <2>4. ASSUME NEW d \in Docs, Reset(w, d) PROVE LoadsOwn'
    BY <1>3, <2>4, ResetDoes DEF Reset
  <2>5. ASSUME NEW d \in Docs, Locked(w, d) PROVE LoadsOwn'
    BY <1>3, <2>5, LockedDoes DEF Locked
  <2> QED
    BY <1>6, <2>1, <2>2, <2>3, <2>4, <2>5 DEF CrawlStage
<1>7. CASE ParseStage(w)
  <2>1. ASSUME StartParse(w) PROVE LoadsOwn'
    BY <1>3, <2>1, StartParseDoes
  <2>2. ASSUME WriteParsed(w) \/ ParseFails(w) PROVE LoadsOwn'
    <3>1. PICK n \in work[w].held : Works(w, work[w].at, work[w].todo \ {n.doc}, {}, work[w].bad)
      BY <2>2, WriteParsedDoes, ParseFailsDoes
    <3>2. work[w].at = "parse"
      BY <2>2 DEF WriteParsed, ParseFails
    <3> QED
      BY <1>3, <3>1, <3>2
  <2>3. ASSUME NEW d \in Docs, Read(w, d) PROVE LoadsOwn'
    <3>1. work[w].at = "parse"
      BY <2>3 DEF Read
    <3> QED
      BY <1>3, <2>3, <3>1, ReadDoes
  <2>4. ASSUME ReadLater(w) PROVE LoadsOwn'
    BY <1>3, <2>4, ReadLaterDoes DEF ReadLater
  <2> QED
    BY <1>7, <2>1, <2>2, <2>3, <2>4 DEF ParseStage
<1>8. CASE IndexStage(w)
  <2>1. ASSUME StartLoad(w) PROVE LoadsOwn'
    <3>1. Works(w, "load", Parsed(w), {}, work[w].bad)
      BY <2>1, StartLoadDoes
    <3>2. Parsed(w) \subseteq {work[w].doc}
      BY <2>1, HasDoc, SliceAlone DEF StartLoad, Parsed
    <3> QED
      BY <1>1, <3>1, <3>2 DEF Works
  <2>2. ASSUME NEW d \in Docs, Load(w, d) \/ LoadFails(w, d) PROVE LoadsOwn'
    <3>1. work[w].at = "load" /\ work[w].todo \ {d} \subseteq {work[w].doc}
      BY <2>2 DEF Load, LoadFails, LoadsOwn
    <3>2. OnlyWorker(w) /\ work'[w].doc = work[w].doc /\ work'[w].todo = work[w].todo \ {d}
      BY <2>2, LoadDoes, LoadFailsDoes DEF Works
    <3> QED
      BY <1>1, <3>1, <3>2
  <2>3. ASSUME EndLoad(w) PROVE LoadsOwn'
    BY <1>3, <1>4, <2>3, EndLoadDoes
  <2>4. ASSUME SelectUnembedded(w) \/ Embed(w) PROVE LoadsOwn'
    <3>1. \E stage \in {"embed", "store"} : \E todo, held : Works(w, stage, todo, held, work[w].bad)
      BY <2>4, SelectDoes, EmbedDoes
    <3> QED
      BY <1>3, <3>1
  <2>5. ASSUME EmbedFails(w) \/ Reactivate(w) PROVE LoadsOwn'
    BY <1>2, <2>5, EmbedFailsDoes, ReactivateDoes
  <2>6. ASSUME NothingToLoad(w) \/ IngestedNothing(w) PROVE LoadsOwn'
    BY <1>4, <2>6 DEF NothingToLoad, IngestedNothing
  <2> QED
    BY <1>8, <2>1, <2>2, <2>3, <2>4, <2>5, <2>6 DEF IndexStage
<1> QED
  BY <1>5, <1>6, <1>7, <1>8 DEF Upsert

LEMMA NextLoadsOwn ==
  ASSUME Overlaps = {}, Typed, LoadsOwn, [Next]_vars
  PROVE  LoadsOwn'
<1>1. ASSUME UNCHANGED work PROVE LoadsOwn'
  BY <1>1 DEF LoadsOwn
<1>2. ASSUME NEW w \in Workers, NEW d \in Docs, Take(w, d) PROVE LoadsOwn'
  <2>1. OnlyWorker(w) /\ work'[w].at \in {"walk", "retire"}
    BY <1>2, TakeDoes
  <2> QED
    BY <2>1 DEF OnlyWorker, LoadsOwn
<1>3. ASSUME NEW d \in Docs, Write(d) \/ Remove(d) \/ Notice(d) PROVE LoadsOwn'
  BY <1>1, <1>3 DEF Write, Remove, Change, Notice
<1>4. CASE Purge
  BY <1>1, <1>4 DEF Purge, ListPurge, ConfirmPurge, AbortPurge, OutsidePurge
<1>5. CASE HardDelete
  BY <1>1, <1>5, DeleteDoes
<1>6. CASE UNCHANGED vars
  BY <1>1, <1>6 DEF vars
<1> QED
  BY <1>2, <1>3, <1>4, <1>5, <1>6, WorkerLoads DEF Next

(* What a purge has listed.                                                 *)
ListedInv == \A d \in purge : ~index[d].active

LEMMA NextListed ==
  ASSUME PurgesApart, Typed, LoadsOwn, ListedInv, [Next]_vars
  PROVE  ListedInv'
<1>a. purge \in SUBSET Docs
  BY DEF Typed
<1>1. ASSUME NEW w \in Workers, SoftDelete(w) \/ Upsert(w) \/ Crash(w) PROVE ListedInv'
  <2>1. work[w].doc \notin purge /\ UNCHANGED purge
    BY <1>1, WorkerIndexes DEF PurgesApart
  <2>2. CASE IndexStays
    BY <1>a, <2>1, <2>2 DEF IndexStays, VectorsOnly, ListedInv
  <2>3. CASE OnlyRow(work[w].doc)
    BY <1>a, <2>1, <2>3 DEF OnlyRow, ListedInv
  <2>4. ASSUME NEW d \in Docs, Load(w, d) PROVE OnlyRow(work[w].doc)
    BY <2>4, LoadDoes DEF Load, LoadsOwn
  <2> QED
    BY <1>1, <2>2, <2>3, <2>4, WorkerIndexes, SoftDeleteDoes, ReactivateDoes
<1>2. CASE Purge
  BY <1>2 DEF Purge, ListPurge, ConfirmPurge, AbortPurge, ListedInv
<1>3. CASE HardDelete
  <2>1. \A d \in purge : index'[d].active => index[d].active
    BY <1>3, <1>a, DeleteTakes
  <2> QED
    BY <1>3, <2>1, DeleteDoes DEF ListedInv
<1>4. ASSUME UNCHANGED <<index, purge>> PROVE ListedInv'
  BY <1>4 DEF ListedInv
<1>5. ASSUME NEW d \in Docs, Write(d) \/ Remove(d) \/ Notice(d) \/ \E w \in Workers : Take(w, d)
      PROVE  ListedInv'
  BY <1>4, <1>5 DEF Write, Remove, Change, Notice, Take
<1>6. CASE UNCHANGED vars
  BY <1>4, <1>6 DEF vars
<1> QED
  BY <1>1, <1>2, <1>3, <1>5, <1>6 DEF Next

(* If nobody works on a folder between the list and the confirmation, a     *)
(* purge deletes soft-deleted records only (watcher/purge.py).              *)
THEOREM PurgesTheRetired ==
  Overlaps = {} => (Spec /\ []PurgesApart => PurgesRetiredOnly)
<1> SUFFICES ASSUME Overlaps = {}
             PROVE  Spec /\ []PurgesApart => PurgesRetiredOnly
  OBVIOUS
<1>1. Init => Typed /\ LoadsOwn /\ ListedInv
  BY InitTyped DEF Init, LoadsOwn, ListedInv, Idle
<1>2. PurgesApart /\ Typed /\ LoadsOwn /\ ListedInv /\ [Next]_vars
        => (Typed /\ LoadsOwn /\ ListedInv)'
  BY NextTyped, NextLoadsOwn, NextListed
<1>3. ListedInv => (ConfirmPurge => \A d \in purge : ~index[d].active)
  BY DEF ListedInv
<1> QED
  BY <1>1, <1>2, <1>3, PTL DEF Spec, PurgesRetiredOnly

(* A diary without its questions is one between the two DELETEs, or one     *)
(* whose record had no answer.                                              *)
Headless(r) == r.row /\ r.text = 0 /\ r.unread = "no"
WholeInv == \A d \in Docs : Headless(index[d]) => admin.at = "diary" /\ admin.doc = d

LEMMA NextWhole ==
  ASSUME Typed, WholeInv, [Next]_vars, [DeleteFails => admin.at # "diary"]_vars
  PROVE  WholeInv'
<1>b. index \in [Docs -> RowState]
  BY DEF Typed
<1>1. ASSUME UNCHANGED admin, \A d \in Docs : Headless(index'[d]) => Headless(index[d])
      PROVE  WholeInv'
  BY <1>1 DEF WholeInv
<1>2. ASSUME NEW w \in Workers, SoftDelete(w) \/ Upsert(w) \/ Crash(w) PROVE WholeInv'
  <2>1. UNCHANGED admin
    BY <1>2, WorkerIndexes
  <2>2. CASE IndexStays
    BY <1>1, <2>1, <2>2 DEF IndexStays, VectorsOnly, Headless
  <2>3. CASE SoftDelete(w) \/ Reactivate(w)
    <3>1. \A d \in Docs : /\ index'[d].row = index[d].row /\ index'[d].text = index[d].text
                          /\ index'[d].unread = index[d].unread
      BY <2>3, SoftDeleteDoes, ReactivateDoes DEF OnlyRow
    <3> QED
      BY <1>1, <2>1, <3>1 DEF Headless
  <2>4. ASSUME NEW d \in Docs, Load(w, d) PROVE WholeInv'
    <3>1. /\ OnlyRow(d) /\ organized[d].parsed # 0
          /\ \/ index'[d].text = organized[d].parsed
             \/ index'[d].unread = Unread(index[d])
      BY <2>4, LoadDoes DEF Load
    <3>2. ~Headless(index'[d])
      BY <3>1 DEF Unread, Headless
    <3> QED
      BY <1>1, <2>1, <3>1, <3>2 DEF OnlyRow
  <2> QED
    BY <1>2, <2>2, <2>3, <2>4, WorkerIndexes
<1>3. CASE Purge
  <2>1. \A d \in Docs : index'[d] = index[d] \/ ~index'[d].row
    BY <1>3, ConfirmPurgeDoes DEF Purge, ListPurge, AbortPurge
  <2>2. UNCHANGED admin
    BY <1>3 DEF Purge, ListPurge, ConfirmPurge, AbortPurge, OutsidePurge
  <2> QED
    BY <1>1, <2>1, <2>2 DEF Headless
<1>4. CASE HardDelete /\ vars' # vars
  <2>1. CASE DeleteChildren
    <3>1. admin.at = "rows" /\ admin'.at = "diary" /\ admin'.doc = admin.doc
      BY <2>1 DEF DeleteChildren, Step, Typed, DeleteState
    <3>2. \A d \in Docs : d # admin.doc => index'[d] = index[d]
      BY <1>b, <2>1, Zenon DEF DeleteChildren
    <3> QED
      BY <3>1, <3>2 DEF WholeInv
  <2>2. CASE DeleteDiary
    <3>1. admin.at = "diary"
      BY <2>2 DEF DeleteDiary, Step
    <3>2. \A d \in Docs : index'[d] = IF d = admin.doc THEN NoRow ELSE index[d]
      BY <1>b, <2>2 DEF DeleteDiary
    <3> QED
      BY <3>1, <3>2 DEF WholeInv, NoRow, Headless
  <2>3. CASE DeleteFails \/ RemoveOrganized \/ RemoveSource \/ CancelJobs \/ \E d \in Docs : BeginDelete(d)
    <3>1. UNCHANGED index /\ admin.at # "diary"
      BY <1>4, <2>3 DEF DeleteFails, RemoveOrganized, RemoveSource, CancelJobs, BeginDelete, Step
    <3> QED
      BY <3>1 DEF WholeInv
  <2> QED
    BY <1>4, <2>1, <2>2, <2>3 DEF HardDelete
<1>5. ASSUME NEW d \in Docs, Write(d) \/ Remove(d) \/ Notice(d) \/ \E w \in Workers : Take(w, d)
      PROVE  WholeInv'
  BY <1>1, <1>5 DEF Write, Remove, Change, Notice, Take
<1>6. CASE UNCHANGED vars
  BY <1>1, <1>6 DEF vars
<1> QED
  BY <1>2, <1>3, <1>4, <1>5, <1>6 DEF Next

(* If the second DELETE of a purge step does not fail, no document is left  *)
(* without its questions, whatever else fails beside it (delete_path).      *)
THEOREM DeletesWhole ==
  Spec /\ [][DeleteFails => admin.at # "diary"]_vars => []WholeOrGone
<1>1. Init => WholeInv
  BY DEF Init, WholeInv, NoRow, Headless
<1>2. Typed /\ WholeInv /\ [Next]_vars /\ [DeleteFails => admin.at # "diary"]_vars => WholeInv'
  BY NextWhole
<1>3. WholeInv => WholeOrGone
  BY DEF WholeInv, WholeOrGone, Headless
<1> QED
  BY <1>1, <1>2, <1>3, AlwaysTyped, PTL DEF Spec

-----------------------------------------------------------------------------
(* What is neither noticed nor queued is in sync.                           *)

InSyncAt(d) == IF source[d] = 0 THEN ~index[d].active ELSE Current(d)

(* A hard delete has begun to delete it.                                    *)
Deleting(d) == admin.doc = d /\ admin.at \notin {"none", "rows"}

SyncInv ==
  \A d \in Docs : d \in noticed \/ job[d].by # "none" \/ InSyncAt(d) \/ Deleting(d)

(* A hard delete whose database step fails has deleted nothing.             *)
FailsWhole == DeleteFails => admin.at = "rows"

(* A step that leaves the index, and ends no job well.                      *)
LEMMA StaysInSync ==
  ASSUME SyncInv, UNCHANGED <<source, noticed, admin>>,
         \A d \in Docs : index'[d].row = index[d].row /\ index'[d].text = index[d].text
                        /\ index'[d].active = index[d].active /\ index'[d].unread = index[d].unread,
         \A d \in Docs : job'[d].by = job[d].by \/ job'[d].by # "none"
  PROVE SyncInv'
BY DEF SyncInv, InSyncAt, Current, Deleting

LEMMA EndsInSync ==
  ASSUME Typed, SyncInv, NEW w \in Workers, NEW by \in {"failed", "pending"}, Ends(w, by),
         UNCHANGED <<source, noticed, admin>>, UNCHANGED index \/ VectorsOnly
  PROVE SyncInv'
<1>1. \A d \in Docs : job'[d].by = job[d].by \/ job'[d].by # "none"
  BY DEF Ends
<1> QED
  BY <1>1, StaysInSync DEF VectorsOnly

(* The job ends well, and its document is in sync.                          *)
LEMMA DoneInSync ==
  ASSUME Typed, SyncInv, NEW w \in Workers, NEW mine, mine = work[w].doc,
         Ends(w, "none"), OnlyRow(mine), UNCHANGED <<source, noticed, admin>>, InSyncAt(mine)'
  PROVE SyncInv'
<1>1. ASSUME NEW d \in Docs, d # mine
      PROVE d \in noticed \/ job'[d].by # "none" \/ InSyncAt(d)' \/ Deleting(d)
  BY <1>1 DEF Ends, OnlyRow, SyncInv, InSyncAt, Current
<1> QED
  BY <1>1 DEF SyncInv, Deleting

LEMMA IndexInSync ==
  ASSUME Typed, Owned, FreshInv, SyncInv, NEW w \in Workers, IndexStage(w)
  PROVE SyncInv'
<1>1. UNCHANGED <<source, noticed, admin>>
  BY DEF IndexStage, StartLoad, InTree, NothingToLoad, Fail, EndLoad, InIndex, SelectUnembedded,
     Embed, EmbedFails, Reactivate, IngestedNothing, Load, LoadFails
<1>2. ASSUME UNCHANGED job, UNCHANGED index \/ VectorsOnly PROVE SyncInv'
  BY <1>1, <1>2, StaysInSync DEF VectorsOnly
<1>3. ASSUME Fail(w) PROVE SyncInv'
  BY <1>1, <1>3, FailDoes, EndsInSync DEF Fail
<1>4. ASSUME StartLoad(w) \/ SelectUnembedded(w) PROVE SyncInv'
  BY <1>2, <1>4 DEF StartLoad, SelectUnembedded, InTree, InIndex
<1>5. ASSUME NothingToLoad(w) \/ IngestedNothing(w) PROVE SyncInv'
  BY <1>3, <1>5 DEF NothingToLoad, IngestedNothing
<1>6. ASSUME EndLoad(w) PROVE SyncInv'
  BY <1>2, <1>3, <1>6 DEF EndLoad, InIndex
<1>7. ASSUME Embed(w) PROVE SyncInv'
  BY <1>2, <1>7, EmbedDoes DEF Embed, InIndex
<1>8. ASSUME EmbedFails(w) PROVE SyncInv'
  BY <1>1, <1>8, EmbedFailsDoes, EndsInSync
<1>9. ASSUME NEW d \in Docs, LoadFails(w, d) PROVE SyncInv'
  BY <1>2, <1>9 DEF LoadFails, InIndex
<1>10. ASSUME Reactivate(w) PROVE SyncInv'
  <2> PICK mine : mine = work[w].doc
    OBVIOUS
  <2>1. /\ index'[mine].row /\ index'[mine].active
        /\ index'[mine].text = index[mine].text /\ index'[mine].unread = index[mine].unread
    BY <1>10, ReactivateDoes DEF Reactivate
  <2>2. source[mine] = work[w].seen /\ work[w].seen # 0
    BY <1>10 DEF Reactivate, Owned, Owns
  <2>3. index[mine].text = work[w].seen \/ index[mine].unread # "no"
    BY <1>10 DEF Reactivate, FreshInv, Fresh, Stored, Loads
  <2>4. InSyncAt(mine)'
    BY <1>1, <2>1, <2>2, <2>3 DEF InSyncAt, Current
  <2> QED
    BY <1>1, <1>10, <2>4, ReactivateDoes, DoneInSync
<1>11. ASSUME NEW d \in Docs, Load(w, d) PROVE SyncInv'
  <2>1. OnlyRow(d) /\ UNCHANGED job
    BY <1>11, LoadDoes DEF Load, InIndex
  <2>2. job[d].by = w
    BY <1>11 DEF Load, Owned, Owns
  <2>3. w # "none"
    BY CorpusAssumption
  <2> QED
    BY <1>1, <2>1, <2>2, <2>3 DEF SyncInv, InSyncAt, Current, Deleting, OnlyRow
<1> QED
  BY <1>4, <1>5, <1>6, <1>7, <1>8, <1>9, <1>10, <1>11 DEF IndexStage

LEMMA InitSync == Init => SyncInv
<1> SUFFICES ASSUME Init, NEW d \in Docs PROVE InSyncAt(d)
  BY DEF SyncInv
<1>1. source[d] = 0 /\ ~index[d].active
  BY DEF Init, NoRow
<1> QED
  BY <1>1 DEF InSyncAt

LEMMA NextInSync ==
  ASSUME Typed, Owned, FreshInv, DeletedInv, ListedInv, SyncInv, [Next]_vars, [FailsWhole]_vars
  PROVE SyncInv'
<1>1. CASE UNCHANGED vars
  BY <1>1, StaysInSync DEF vars
<1>2. ASSUME NEW d \in Docs, Write(d) \/ Remove(d) PROVE SyncInv'
  <2>1. /\ noticed' = noticed \cup {d} /\ UNCHANGED <<job, index, admin>>
        /\ \A e \in Docs : e # d => source'[e] = source[e]
    BY <1>2 DEF Write, Remove, Change, Typed
  <2> QED
    BY <2>1 DEF SyncInv, InSyncAt, Current, Deleting
<1>3. ASSUME NEW d \in Docs, Notice(d) PROVE SyncInv'
  <2>1. /\ noticed' = noticed \ {d} /\ UNCHANGED <<source, index, admin>>
        /\ job'[d].by # "none" /\ \A e \in Docs : e # d => job'[e] = job[e]
    BY <1>3 DEF Notice, Typed
  <2> QED
    BY <2>1 DEF SyncInv, InSyncAt, Current, Deleting
<1>4. ASSUME NEW w \in Workers, NEW d \in Docs, Take(w, d) PROVE SyncInv'
  <2>1. job'[d].by # "none" /\ \A e \in Docs : e # d => job'[e] = job[e]
    BY <1>4, TakeDoes, CorpusAssumption
  <2> QED
    BY <1>4, <2>1, StaysInSync DEF Take
<1>5. ASSUME NEW w \in Workers, Crash(w) PROVE SyncInv'
  BY <1>5, CrashDoes, EndsInSync DEF Crash
<1>6. ASSUME NEW w \in Workers, SoftDelete(w) PROVE SyncInv'
  <2> PICK mine : mine = work[w].doc
    OBVIOUS
  <2>1. source[mine] = 0
    BY <1>6 DEF SoftDelete, Owned, Owns
  <2>2. InSyncAt(mine)'
    BY <1>6, <2>1, SoftDeleteDoes DEF InSyncAt, SoftDelete
  <2> QED
    BY <1>6, <2>2, SoftDeleteDoes, DoneInSync DEF SoftDelete
<1>7. ASSUME NEW w \in Workers, CrawlStage(w) PROVE SyncInv'
  <2>1. ASSUME CrawlAborts(w) PROVE SyncInv'
    BY <2>1, FailDoes, EndsInSync DEF CrawlAborts, Fail
  <2>2. ASSUME ~CrawlAborts(w) PROVE UNCHANGED <<source, noticed, admin, job, index>>
    BY <1>7, <2>2 DEF CrawlStage, Walk, Copy, Reset, Locked, InTree
  <2> QED
    BY <2>1, <2>2, StaysInSync
<1>8. ASSUME NEW w \in Workers, ParseStage(w) PROVE SyncInv'
  BY <1>8, StaysInSync DEF ParseStage, StartParse, ReadLater, WriteParsed, ParseFails, Read, InTree
<1>9. CASE Purge
  <2>1. UNCHANGED <<source, noticed, admin, job>>
    BY <1>9 DEF Purge, ListPurge, ConfirmPurge, AbortPurge, OutsidePurge
  <2>2. ASSUME NEW d \in Docs PROVE index'[d] = index[d] \/ (~index[d].active /\ index'[d] = NoRow)
    BY <1>9 DEF Purge, ListPurge, ConfirmPurge, AbortPurge, ListedInv
  <2>3. \A d \in Docs : InSyncAt(d) => InSyncAt(d)'
    BY <2>1, <2>2 DEF InSyncAt, Current, NoRow
  <2> QED
    BY <2>1, <2>3 DEF SyncInv, Deleting
<1>10. CASE HardDelete /\ vars' # vars
  <2> SUFFICES ASSUME NEW d \in Docs, d \notin noticed', job'[d].by = "none", ~Deleting(d)'
               PROVE  InSyncAt(d)'
    BY DEF SyncInv
  <2>1. CASE admin.at = "none" \/ d # admin.doc
    <3>1. UNCHANGED <<source[d], job[d], index[d]>> /\ d \notin noticed
      BY <1>10, <2>1, DeleteTakes
    <3> QED
      BY <2>1, <3>1 DEF SyncInv, InSyncAt, Current, Deleting
  <2>2. CASE admin.at # "none" /\ d = admin.doc
    <3>1. ~(DeleteChildren \/ DeleteDiary \/ RemoveOrganized \/ RemoveSource \/ \E e \in Docs : BeginDelete(e))
      BY <2>2 DEF DeleteChildren, DeleteDiary, RemoveOrganized, RemoveSource, BeginDelete, Step,
         Deleting, Typed, DeleteState
    <3>2. CASE CancelJobs
      BY <2>2, <3>2 DEF CancelJobs, DeletedInv, InSyncAt
    <3>3. CASE DeleteFails
      <4>1. admin.at = "rows" /\ UNCHANGED <<source, noticed, job, index>>
        BY <1>10, <3>3 DEF FailsWhole, DeleteFails
      <4> QED
        BY <4>1 DEF SyncInv, InSyncAt, Current, Deleting
    <3> QED
      BY <1>10, <3>1, <3>2, <3>3 DEF HardDelete
  <2> QED
    BY <2>1, <2>2
<1> QED
  BY <1>1, <1>2, <1>3, <1>4, <1>5, <1>6, <1>7, <1>8, <1>9, <1>10, IndexInSync DEF Next, Upsert

(* Once all is quiet search offers the present folders in their current     *)
(* content, where its answer was read, and no others, for any number of     *)
(* workers, documents and changes, though documents fail, workers die, rows are purged and folders deleted: *)
(* what it takes is that no token matches another document, no output       *)
(* folder is locked, nobody purges or deletes a folder that is worked on,   *)
(* and a delete that fails has deleted nothing.                             *)
THEOREM QuietIsInSync ==
  Overlaps = {} /\ "locks" \notin Upsets
    => (Spec /\ []DeletesApart /\ []PurgesApart /\ [][FailsWhole]_vars => []SettledInSync)
<1> SUFFICES ASSUME Overlaps = {}, "locks" \notin Upsets
             PROVE  Spec /\ []DeletesApart /\ []PurgesApart /\ [][FailsWhole]_vars => []SettledInSync
  OBVIOUS
<1> DEFINE Inv == Typed /\ Owned /\ FreshInv /\ DeletedInv /\ ListedInv /\ SyncInv
<1>1. Init => Inv
  BY InitTyped, InitOwn, InitFresh, InitDeleted, InitSync DEF Init, ListedInv
<1>2. DeletesApart /\ PurgesApart /\ Inv /\ [Next]_vars /\ [FailsWhole]_vars => Inv'
  BY NextTyped, NextOwn, NextFresh, NextDeleted, OwnedLoadsOwn, NextListed, NextInSync
<1>3. Inv => SettledInSync
  BY DEF SyncInv, SettledInSync, Quiet, InSync, InSyncAt, Deleting
<1> QED
  BY <1>1, <1>2, <1>3, PTL DEF Spec

-----------------------------------------------------------------------------
(* What a search shows, row by row.                                         *)
ShownOf(row) == IF row.row /\ row.active /\ row.unread # "hidden" THEN row.text ELSE 0

LEMMA ShownRows == Shown = [d \in Docs |-> ShownOf(index[d])]
BY DEF Shown, ShownOf

LEMMA ShownRowsNext == Shown' = [d \in Docs |-> ShownOf(index'[d])]
BY DEF Shown, ShownOf

(* One document may come to show what its folder holds.                     *)
MirrorStep == MT!Next \/ UNCHANGED <<source, Shown>>

LEMMA RefreshesOne ==
  ASSUME UNCHANGED source, NEW d \in Docs,
         \A e \in Docs : e # d => ShownOf(index'[e]) = ShownOf(index[e]),
         ShownOf(index'[d]) \in {ShownOf(index[d]), source[d]}
  PROVE  MirrorStep
<1>1. CASE ShownOf(index'[d]) = ShownOf(index[d])
  <2>1. Shown' = Shown
    BY <1>1, ShownRows, ShownRowsNext
  <2> QED BY <2>1 DEF MirrorStep
<1>2. CASE ShownOf(index'[d]) = source[d]
  <2>1. Shown' = [Shown EXCEPT ![d] = source[d]]
    BY <1>2, ShownRows, ShownRowsNext
  <2>2. MT!Refresh(d)
    BY <2>1 DEF MT!Refresh
  <2> QED BY <2>2 DEF MirrorStep, MT!Next
<1> QED BY <1>1, <1>2

LEMMA ShowsSame ==
  ASSUME UNCHANGED source, UNCHANGED index \/ VectorsOnly
  PROVE  MirrorStep
<1>1. \A d \in Docs : ShownOf(index'[d]) = ShownOf(index[d])
  BY DEF VectorsOnly, ShownOf
<1>2. Shown' = Shown
  BY <1>1, ShownRows, ShownRowsNext
<1> QED BY <1>2 DEF MirrorStep

LEMMA EditMirrors ==
  ASSUME Typed', UNCHANGED index
  PROVE  MirrorStep
<1>1. source' \in [Docs -> Nat]
  BY VersionsAreNumbers DEF Typed, Version
<1>2. Shown' = Shown
  BY ShownRows, ShownRowsNext
<1> QED BY <1>1, <1>2 DEF MirrorStep, MT!Next, MT!Edit

(* Where there is no row there is no text.                                  *)
NoText == \A d \in Docs : ~index[d].row => index[d].text = 0

LEMMA NextNoText ==
  ASSUME Typed, NoText, ~HardDelete, [Next]_vars
  PROVE  NoText'
<1>1. ASSUME UNCHANGED index \/ VectorsOnly PROVE NoText'
  BY <1>1 DEF VectorsOnly, NoText
<1>2. ASSUME NEW w \in Workers, SoftDelete(w) \/ Reactivate(w) PROVE NoText'
  BY <1>2, SoftDeleteDoes, ReactivateDoes DEF OnlyRow, NoText
<1>3. ASSUME NEW w \in Workers, NEW d \in Docs, Load(w, d) PROVE NoText'
  BY <1>3, LoadDoes DEF OnlyRow, NoText
<1>4. ASSUME NEW w \in Workers, SoftDelete(w) \/ Upsert(w) \/ Crash(w) PROVE NoText'
  BY <1>1, <1>2, <1>3, <1>4, WorkerIndexes DEF IndexStays
<1>5. CASE Purge
  BY <1>1, <1>5, ConfirmPurgeDoes DEF Purge, ListPurge, AbortPurge, NoText
<1>6. ASSUME NEW d \in Docs, Write(d) \/ Remove(d) \/ Notice(d) \/ \E w \in Workers : Take(w, d)
      PROVE  NoText'
  BY <1>1, <1>6 DEF Write, Remove, Change, Notice, Take
<1> QED
  BY <1>1, <1>4, <1>5, <1>6 DEF Next, vars

LEMMA IndexMirrors ==
  ASSUME Typed, Owned, FreshInv, NoText, NEW w \in Workers, IndexStage(w)
  PROVE  MirrorStep
<1>1. UNCHANGED source
  BY DEF IndexStage, StartLoad, InTree, NothingToLoad, Fail, EndLoad, InIndex, SelectUnembedded,
     Embed, EmbedFails, Reactivate, IngestedNothing, Load, LoadFails
<1>2. ASSUME StartLoad(w) \/ SelectUnembedded(w) \/ NothingToLoad(w) \/ IngestedNothing(w) \/ EndLoad(w)
      PROVE  MirrorStep
  <2>1. UNCHANGED index
    BY <1>2 DEF StartLoad, SelectUnembedded, NothingToLoad, IngestedNothing, EndLoad, Fail, InTree, InIndex
  <2> QED BY <1>1, <2>1, ShowsSame
<1>3. ASSUME Embed(w) \/ EmbedFails(w) PROVE MirrorStep
  BY <1>1, <1>3, EmbedDoes, EmbedFailsDoes, ShowsSame
<1>4. ASSUME NEW d \in Docs, LoadFails(w, d) PROVE MirrorStep
  BY <1>1, <1>4, ShowsSame DEF LoadFails
<1>5. ASSUME NEW d \in Docs, Load(w, d) PROVE MirrorStep
  <2>1. /\ OnlyRow(d) /\ organized[d].parsed # 0 /\ d = work[w].doc
        /\ index'[d].row /\ index'[d].active = (index[d].row => index[d].active)
    BY <1>5, LoadDoes DEF Load, Owned, Owns
  <2>2. organized[d].parsed = source[d]
    BY <1>5, <2>1 DEF Load, Owned, Owns, FreshInv, Fresh, Renewed, OfJob
  <2>3. index[d].row \in BOOLEAN /\ index[d].active \in BOOLEAN
    BY RowTyped
  <2>4. ShownOf(index'[d]) \in {ShownOf(index[d]), source[d]}
    <3>1. CASE index'[d].text = organized[d].parsed /\ index'[d].unread = "no"
      BY <2>1, <2>2, <2>3, <3>1 DEF ShownOf
    <3>2. CASE index'[d].text = index[d].text /\ index'[d].unread = Unread(index[d])
      BY <2>1, <2>3, <3>2 DEF ShownOf, Unread, NoText
    <3> QED
      BY <1>5, <3>1, <3>2, LoadDoes
  <2> QED BY <1>1, <2>1, <2>4, RefreshesOne DEF OnlyRow
<1>6. ASSUME Reactivate(w) PROVE MirrorStep
  <2> PICK mine \in Docs : mine = work[w].doc
    BY <1>6, HasDoc DEF Reactivate
  <2>1. /\ OnlyRow(mine) /\ index'[mine].text = index[mine].text /\ index'[mine].active
        /\ index'[mine].row /\ index[mine].row /\ index'[mine].unread = index[mine].unread
    BY <1>6, ReactivateDoes DEF Reactivate
  <2>2. \/ index[mine].text = source[mine]
        \/ index[mine].unread = "hidden"
        \/ index[mine].active
    BY <1>6 DEF Reactivate, Owned, Owns, FreshInv, Fresh, Stored, Loads
  <2>3. ShownOf(index'[mine]) \in {ShownOf(index[mine]), source[mine]}
    BY <2>1, <2>2 DEF ShownOf
  <2> QED BY <1>1, <2>1, <2>3, RefreshesOne DEF OnlyRow
<1> QED
  BY <1>2, <1>3, <1>4, <1>5, <1>6 DEF IndexStage

LEMMA NextMirrors ==
  ASSUME Typed, Typed', Owned, FreshInv, ListedInv, NoText, ~HardDelete, [Next]_vars
  PROVE  MirrorStep
<1>1. ASSUME NEW d \in Docs, Write(d) \/ Remove(d) PROVE MirrorStep
  BY <1>1, EditMirrors DEF Write, Remove, Change
<1>2. ASSUME NEW w \in Workers, Crash(w) \/ \E d \in Docs : Take(w, d) PROVE MirrorStep
  BY <1>2, ShowsSame DEF Take, Crash
<1>3. CASE UNCHANGED vars
  BY <1>3, ShowsSame DEF vars
<1>4. ASSUME NEW w \in Workers, SoftDelete(w) PROVE MirrorStep
  <2> PICK mine \in Docs : mine = work[w].doc
    BY <1>4, HasDoc DEF SoftDelete
  <2>1. source[mine] = 0 /\ UNCHANGED source
    BY <1>4 DEF SoftDelete, Owned, Owns
  <2>2. OnlyRow(mine) /\ ShownOf(index'[mine]) = 0
    BY <1>4, SoftDeleteDoes DEF ShownOf
  <2> QED BY <2>1, <2>2, RefreshesOne DEF OnlyRow
<1>5. ASSUME NEW w \in Workers, CrawlStage(w) \/ ParseStage(w) PROVE MirrorStep
  <2>1. UNCHANGED <<source, index>>
    BY <1>5 DEF CrawlStage, Walk, Copy, CrawlAborts, Fail, Reset, Locked, ParseStage, StartParse, ReadLater,
       WriteParsed, ParseFails, Read, InTree
  <2> QED BY <2>1, ShowsSame
<1>6. CASE Purge
  <2>1. \A d \in Docs : index'[d] = index[d] \/ (~index[d].active /\ index'[d] = NoRow)
    BY <1>6 DEF Purge, ListPurge, ConfirmPurge, AbortPurge, ListedInv
  <2>2. \A d \in Docs : ShownOf(index'[d]) = ShownOf(index[d])
    BY <2>1 DEF ShownOf, NoRow
  <2>3. Shown' = Shown
    BY <2>2, ShownRows, ShownRowsNext
  <2>4. UNCHANGED source
    BY <1>6 DEF Purge, ListPurge, ConfirmPurge, AbortPurge, OutsidePurge
  <2> QED BY <2>3, <2>4 DEF MirrorStep
<1>8. ASSUME NEW d \in Docs, Notice(d) PROVE MirrorStep
  BY <1>8, ShowsSame DEF Notice
<1> QED
  BY <1>1, <1>2, <1>3, <1>4, <1>5, <1>6, <1>8, IndexMirrors DEF Next, Upsert

(* Nobody deletes by hand.                                                  *)
LEMMA NeverDeleting ==
  ASSUME "deletes" \notin Upsets
  PROVE  Spec => [](admin.at = "none")
<1>1. Init => admin.at = "none"
  BY DEF Init, NoDelete
<1>2. Typed /\ admin.at = "none" /\ [Next]_vars => (admin.at = "none")'
  <2> SUFFICES ASSUME Typed, admin.at = "none", [Next]_vars PROVE admin' = admin
    OBVIOUS
  <2>1. ~HardDelete
    BY DeleteDoes
  <2>2. ASSUME NEW w \in Workers, SoftDelete(w) \/ Upsert(w) \/ Crash(w) PROVE admin' = admin
    BY <2>2, WorkerIndexes
  <2> QED
    BY <2>1, <2>2 DEF Next, Write, Remove, Change, Notice, Take, Purge, ListPurge, ConfirmPurge,
       AbortPurge, OutsidePurge, vars
<1> QED
  BY <1>1, <1>2, AlwaysTyped, PTL DEF Spec

(* The stages, the copies and the workers together show of a folder only    *)
(* what it holds: a load, a reactivation and a soft delete bring what a     *)
(* search shows to the folder's content at that moment, and nothing else    *)
(* changes it (process_upsert, process_delete); a purge that does not meet  *)
(* a folder worked on is not to be seen.  The old text that a record        *)
(* without an answer brings back is not compared (Shown).                   *)
THEOREM CorpusMirrors ==
  Overlaps = {} /\ {"locks", "deletes"} \cap Upsets = {}
    => (Spec /\ []PurgesApart => ImplementsMirror)
<1> SUFFICES ASSUME Overlaps = {}, {"locks", "deletes"} \cap Upsets = {}
             PROVE  Spec /\ []PurgesApart => ImplementsMirror
  OBVIOUS
<1> DEFINE Inv == Typed /\ Owned /\ FreshInv /\ ListedInv /\ NoText
<1>1. Init => Inv
  BY InitTyped, InitOwn, InitFresh DEF Init, ListedInv, NoText, NoRow
<1>2. admin.at = "none" => DeletesApart
  BY DEF DeletesApart
<1>3. admin.at = "none" /\ PurgesApart /\ Inv /\ [Next]_vars => Inv'
  BY <1>2, NextTyped, NextOwn, NextFresh, OwnedLoadsOwn, NextListed, NextNoText, DeleteDoes
<1>4. Spec => [](admin.at = "none")
  BY NeverDeleting
<1>5. Init => MT!Init
  BY DEF Init, MT!Init, Shown, NoRow
<1>6. Inv /\ Inv' /\ admin.at = "none" /\ [Next]_vars => MT!Next \/ UNCHANGED <<source, Shown>>
  BY NextMirrors, DeleteDoes DEF MirrorStep
<1> QED
  BY <1>1, <1>2, <1>3, <1>4, <1>5, <1>6, PTL DEF Spec, ImplementsMirror, MT!Spec

-----------------------------------------------------------------------------
(* The rows are the leases of folders.                                      *)
LeaseStep == FL!Next \/ UNCHANGED Leases

LeaseOf(row) ==
  IF row.by \in {"none", "failed"} THEN "clear" ELSE IF row.by = "pending" THEN "waiting" ELSE row.by

LEMMA LeaseRows ==
  /\ Leases = [d \in Docs |-> LeaseOf(job[d])]
  /\ Leases' = [d \in Docs |-> LeaseOf(job'[d])]
BY DEF Leases, LeaseOf

LEMMA RowsStay ==
  ASSUME UNCHANGED job
  PROVE  LeaseStep
BY LeaseRows DEF LeaseStep

LEMMA OneRow ==
  ASSUME NEW d \in Docs, \A e \in Docs : e # d => job'[e] = job[e]
  PROVE  Leases' = [Leases EXCEPT ![d] = LeaseOf(job'[d])]
BY LeaseRows

(* A row is held by the worker that works on its folder.                    *)
HeldInv ==
  /\ admin.at = "none"
  /\ \A w \in Workers, d \in Docs : job[d].by = w <=> work[w].at # "idle" /\ work[w].doc = d

LEMMA EndsLease ==
  ASSUME Typed, HeldInv, NEW w \in Workers, work[w].at # "idle",
         NEW by \in {"none", "failed", "pending"}, Ends(w, by)
  PROVE  LeaseStep
<1> PICK d \in Docs : d = work[w].doc
  BY HasDoc
<1>1. job[d].by = w
  BY DEF HeldInv
<1>2. job'[d].by = by /\ \A e \in Docs : e # d => job'[e] = job[e]
  BY <1>1 DEF Ends
<1>3. Leases[d] = w
  BY <1>1, LeaseRows, CorpusAssumption DEF LeaseOf
<1>4. Leases' = [Leases EXCEPT ![d] = LeaseOf(job'[d])]
  BY <1>2, OneRow
<1>5. FL!Finish(w, d) \/ FL!GiveBack(w, d)
  BY <1>2, <1>3, <1>4 DEF LeaseOf, FL!Finish, FL!GiveBack
<1> QED BY <1>5 DEF LeaseStep, FL!Next

LEMMA HolderGoesOn ==
  ASSUME HeldInv, NEW w \in Workers, OnlyWorker(w), UNCHANGED <<job, admin>>,
         work[w].at # "idle", work'[w].at # "idle", work'[w].doc = work[w].doc
  PROVE  HeldInv'
BY DEF HeldInv, OnlyWorker

LEMMA HolderEnds ==
  ASSUME Typed, HeldInv, NEW w \in Workers, NEW by \in {"none", "failed", "pending"}, Ends(w, by), UNCHANGED admin
  PROVE  HeldInv'
<1>1. work'[w].at = "idle" /\ \A v \in Workers : v # w => work'[v] = work[v]
  BY DEF Ends, OnlyWorker, Idle
<1>2. \A d \in Docs : job[d].by = w => job'[d].by = by
  BY DEF Ends, HeldInv
<1>3. \A d \in Docs : job[d].by # w => job'[d] = job[d]
  BY DEF Ends
<1>4. by \notin Workers
  BY CorpusAssumption
<1> QED BY <1>1, <1>2, <1>3, <1>4 DEF HeldInv

(* A worker's step goes on with its job, or ends it.                        *)
GoesOn_(w) == OnlyWorker(w) /\ work'[w].at # "idle" /\ work'[w].doc = work[w].doc /\ UNCHANGED job
Ends_(w) == \E by \in {"none", "failed", "pending"} : Ends(w, by)

LEMMA WorksGoesOn ==
  ASSUME NEW w, NEW stage, NEW todo, NEW held, NEW bad, Works(w, stage, todo, held, bad), stage # "idle", UNCHANGED job
  PROVE  GoesOn_(w)
BY DEF Works, GoesOn_

LEMMA FailEnds ==
  ASSUME Typed, NEW w \in Workers, Fail(w)
  PROVE  Ends_(w)
BY FailDoes DEF Ends_

LEMMA CrawlSteps ==
  ASSUME Typed, NEW w \in Workers, CrawlStage(w)
  PROVE  work[w].at # "idle" /\ (GoesOn_(w) \/ Ends_(w))
<1>1. CASE Walk(w)
  <2>1. {d \in Docs : source[d] # 0} \in SUBSET Docs
    OBVIOUS
  <2>2. Works(w, "crawl", {d \in Docs : source[d] # 0}, {}, work[w].bad)
    BY <1>1, <2>1, GotoDoes, StageNames DEF Walk
  <2>3. work[w].at = "walk" /\ UNCHANGED job
    BY <1>1 DEF Walk, InTree
  <2> QED BY <2>2, <2>3, WorksGoesOn
<1>2. CASE Copy(w)
  <2>1. PICK n \in work[w].held : Works(w, work[w].at, work[w].todo \ {n.doc}, {}, work[w].bad)
    BY <1>2, CopyDoes
  <2>2. work[w].at = "crawl" /\ UNCHANGED job
    BY <1>2 DEF Copy, InTree
  <2> QED BY <2>1, <2>2, WorksGoesOn
<1>3. CASE CrawlAborts(w)
  BY <1>3, FailEnds DEF CrawlAborts
<1>4. ASSUME NEW d \in Docs, Reset(w, d) \/ Locked(w, d)
      PROVE  work[w].at # "idle" /\ GoesOn_(w)
  <2>1. work[w].at = "crawl" /\ UNCHANGED job
    BY <1>4 DEF Reset, Locked, InTree
  <2>2. \E todo, held : Works(w, work[w].at, todo, held, work[w].bad)
    BY <1>4, ResetDoes, LockedDoes
  <2> QED BY <2>1, <2>2, WorksGoesOn
<1> QED BY <1>1, <1>2, <1>3, <1>4 DEF CrawlStage

LEMMA ParseSteps ==
  ASSUME Typed, NEW w \in Workers, ParseStage(w)
  PROVE  work[w].at # "idle" /\ GoesOn_(w)
<1>1. work[w].at \in {"crawl", "parse"} /\ UNCHANGED job
  BY DEF ParseStage, StartParse, ReadLater, WriteParsed, ParseFails, Read, InTree
<1>2. \E stage \in {"parse", work[w].at} : \E todo, held : Works(w, stage, todo, held, work[w].bad)
  BY StartParseDoes, WriteParsedDoes, ParseFailsDoes, ReadDoes, ReadLaterDoes DEF ParseStage
<1> QED BY <1>1, <1>2, WorksGoesOn

LEMMA IndexSteps ==
  ASSUME Typed, NEW w \in Workers, IndexStage(w)
  PROVE  work[w].at # "idle" /\ (GoesOn_(w) \/ Ends_(w))
<1>1. work[w].at \in {"parse", "load", "embed", "store"}
  BY DEF IndexStage, StartLoad, NothingToLoad, EndLoad, SelectUnembedded,
     Embed, EmbedFails, Reactivate, IngestedNothing, Load, LoadFails
<1>2. CASE Fail(w)
  BY <1>1, <1>2, FailEnds
<1>3. CASE Reactivate(w) \/ EmbedFails(w)
  BY <1>1, <1>3, ReactivateDoes, EmbedFailsDoes DEF Ends_
<1>4. CASE StartLoad(w) \/ Embed(w) \/ SelectUnembedded(w) \/ (EndLoad(w) /\ ~Fail(w))
  <2>1. UNCHANGED job
    BY <1>4, EndLoadDoes DEF StartLoad, Embed, SelectUnembedded, InTree, InIndex
  <2>2. \E stage \in {"load", "store", "embed"} : \E todo, held : Works(w, stage, todo, held, work[w].bad)
    BY <1>4, StartLoadDoes, EmbedDoes, SelectDoes, EndLoadDoes
  <2> QED BY <1>1, <2>1, <2>2, WorksGoesOn
<1>5. ASSUME NEW d \in Docs, Load(w, d) \/ LoadFails(w, d)
      PROVE  GoesOn_(w)
  <2>1. work[w].at = "load" /\ UNCHANGED job
    BY <1>5 DEF Load, LoadFails, InIndex
  <2>2. \E todo, held, bad : Works(w, "load", todo, held, bad)
    <3>1. CASE Load(w, d)
      <4>1. Works(w, "load", work[w].todo \ {d}, {}, work[w].bad)
        BY <2>1, <3>1, LoadDoes
      <4> QED BY <4>1
    <3>2. CASE LoadFails(w, d)
      <4>1. Works(w, "load", work[w].todo \ {d}, work[w].held, TRUE)
        BY <2>1, <3>2, LoadFailsDoes
      <4> QED BY <4>1
    <3> QED BY <1>5, <3>1, <3>2
  <2> QED BY <2>1, <2>2, WorksGoesOn
<1> QED BY <1>1, <1>2, <1>3, <1>4, <1>5 DEF IndexStage, NothingToLoad, IngestedNothing

LEMMA WorkerSteps ==
  ASSUME Typed, NEW w \in Workers, SoftDelete(w) \/ Upsert(w) \/ Crash(w)
  PROVE  work[w].at # "idle" /\ (GoesOn_(w) \/ Ends_(w))
<1>1. CASE SoftDelete(w)
  BY <1>1, SoftDeleteDoes DEF SoftDelete, Ends_
<1>2. CASE Crash(w)
  BY <1>2, CrashDoes DEF Crash, Ends_
<1> QED BY <1>1, <1>2, CrawlSteps, ParseSteps, IndexSteps DEF Upsert

LEMMA WorkerOutside ==
  ASSUME NEW w \in Workers, SoftDelete(w) \/ Upsert(w) \/ Crash(w)
  PROVE  UNCHANGED admin
<1>1. ASSUME CrawlStage(w) PROVE UNCHANGED admin
  BY <1>1 DEF CrawlStage, Walk, Copy, CrawlAborts, Fail, Reset, Locked, InTree
<1>2. ASSUME ParseStage(w) PROVE UNCHANGED admin
  BY <1>2 DEF ParseStage, StartParse, ReadLater, WriteParsed, ParseFails, Read, InTree
<1>3. ASSUME IndexStage(w) PROVE UNCHANGED admin
  BY <1>3 DEF IndexStage, StartLoad, InTree, NothingToLoad, Fail, EndLoad, InIndex, SelectUnembedded,
     Embed, EmbedFails, Reactivate, IngestedNothing, Load, LoadFails
<1> QED BY <1>1, <1>2, <1>3 DEF SoftDelete, Crash, Upsert

LEMMA NextHeld ==
  ASSUME "deletes" \notin Upsets, Typed, HeldInv, [Next]_vars
  PROVE  HeldInv'
<1>1. ASSUME NEW d \in Docs, Write(d) \/ Remove(d) PROVE HeldInv'
  BY <1>1 DEF Write, Remove, Change, HeldInv
<1>2. ASSUME NEW d \in Docs, Notice(d) PROVE HeldInv'
  <2>1. /\ UNCHANGED <<work, admin>>
        /\ \A e \in Docs : job'[e] = job[e] \/ (job[e].by \in {"none", "failed"} /\ job'[e].by = "pending")
    BY <1>2 DEF Notice, Typed
  <2> QED BY <2>1, CorpusAssumption DEF HeldInv
<1>3. ASSUME NEW d \in Docs, NEW w \in Workers, Take(w, d) PROVE HeldInv'
  <2>1. OnlyWorker(w) /\ work'[w].at # "idle" /\ work'[w].doc = d
    BY <1>3, TakeDoes
  <2>2. job'[d].by = w /\ \A e \in Docs : e # d => job'[e] = job[e]
    BY <1>3, TakeDoes
  <2>3. \A e \in Docs : job[e].by # w
    BY <1>3 DEF Take, HeldInv
  <2>4. admin' = admin /\ work[w].at = "idle" /\ job[d].by \notin Workers
    BY <1>3, CorpusAssumption DEF Take
  <2> QED BY <2>1, <2>2, <2>3, <2>4 DEF HeldInv, OnlyWorker
<1>4. ASSUME NEW w \in Workers, SoftDelete(w) \/ Upsert(w) \/ Crash(w) PROVE HeldInv'
  <2>1. UNCHANGED admin
    BY <1>4, WorkerOutside
  <2> QED BY <1>4, <2>1, WorkerSteps, HolderGoesOn, HolderEnds DEF GoesOn_, Ends_
<1>5. CASE Purge \/ UNCHANGED vars
  BY <1>5 DEF Purge, ListPurge, ConfirmPurge, AbortPurge, OutsidePurge, vars, HeldInv
<1>6. ~HardDelete
  BY DeleteDoes DEF HeldInv
<1> QED BY <1>1, <1>2, <1>3, <1>4, <1>5, <1>6 DEF Next

LEMMA NextLease ==
  ASSUME "deletes" \notin Upsets, Typed, HeldInv, [Next]_vars
  PROVE  LeaseStep
<1>1. ASSUME NEW d \in Docs, Write(d) \/ Remove(d) PROVE LeaseStep
  BY <1>1, RowsStay DEF Write, Remove, Change
<1>2. ASSUME NEW d \in Docs, Notice(d) PROVE LeaseStep
  <2>1. /\ \A e \in Docs : e # d => job'[e] = job[e]
        /\ job'[d] = (IF job[d].by \in {"none", "failed"} THEN [by |-> "pending", tries |-> 0] ELSE job[d])
    BY <1>2 DEF Notice, Typed
  <2>2. CASE job[d].by \in {"none", "failed"}
    <3>1. Leases[d] = "clear" /\ LeaseOf(job'[d]) = "waiting"
      BY <2>1, <2>2, LeaseRows DEF LeaseOf
    <3>2. Leases' = [Leases EXCEPT ![d] = "waiting"]
      BY <2>1, <3>1, OneRow
    <3>3. FL!Request(d)
      BY <3>1, <3>2 DEF FL!Request
    <3> QED BY <3>3 DEF LeaseStep, FL!Next
  <2>3. CASE job[d].by \notin {"none", "failed"}
    BY <2>1, <2>3, LeaseRows DEF LeaseStep
  <2> QED BY <2>2, <2>3
<1>3. ASSUME NEW d \in Docs, NEW w \in Workers, Take(w, d) PROVE LeaseStep
  <2>1. job'[d].by = w /\ \A e \in Docs : e # d => job'[e] = job[e]
    BY <1>3, TakeDoes
  <2>2. w \notin {"none", "failed", "pending", "clear", "waiting"}
    BY CorpusAssumption
  <2>3. LeaseOf(job'[d]) = w /\ Leases[d] = "waiting"
    BY <1>3, <2>1, <2>2, LeaseRows DEF LeaseOf, Take
  <2>4. FL!Idle(w)
    BY <1>3, <2>2, LeaseRows DEF FL!Idle, LeaseOf, Take, HeldInv
  <2>5. FL!Take(w, d)
    BY <2>1, <2>3, <2>4, OneRow DEF FL!Take
  <2> QED BY <2>5 DEF LeaseStep, FL!Next
<1>4. ASSUME NEW w \in Workers, SoftDelete(w) \/ Upsert(w) \/ Crash(w) PROVE LeaseStep
  BY <1>4, WorkerSteps, EndsLease, RowsStay DEF GoesOn_, Ends_
<1>5. CASE Purge \/ UNCHANGED vars
  BY <1>5, RowsStay DEF Purge, ListPurge, ConfirmPurge, AbortPurge, OutsidePurge, vars
<1>6. ~HardDelete
  BY DeleteDoes DEF HeldInv
<1> QED BY <1>1, <1>2, <1>3, <1>4, <1>5, <1>6 DEF Next

(* The queue of this module is one: a folder is worked on by the worker     *)
(* that claimed it, until that worker ends the job or dies, for any number  *)
(* of workers, tokens and disturbances but hard deletes, which withdraw     *)
(* rows (claim_ready, complete, fail, recover_stale).                       *)
THEOREM CorpusLeases ==
  "deletes" \notin Upsets => (Spec => ImplementsLease)
<1> SUFFICES ASSUME "deletes" \notin Upsets
             PROVE  Spec => ImplementsLease
  OBVIOUS
<1>1. Init => Typed /\ HeldInv
  BY InitTyped, CorpusAssumption DEF Init, HeldInv, Idle, NoDelete
<1>2. Typed /\ HeldInv /\ [Next]_vars => (Typed /\ HeldInv)'
  BY NextTyped, NextHeld
<1>3. Init => FL!Init
  BY DEF Init, FL!Init, Leases
<1>4. Typed /\ HeldInv /\ [Next]_vars => FL!Next \/ UNCHANGED Leases
  BY NextLease DEF LeaseStep
<1> QED
  BY <1>1, <1>2, <1>3, <1>4, PTL DEF Spec, ImplementsLease, FL!Spec
=============================================================================
