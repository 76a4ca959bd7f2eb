--------------------------- MODULE ReplyIngestProofs ---------------------------
(***************************************************************************)
(* Theorems about ReplyIngest, for any files, folders and texts, any       *)
(* proposals of the model and any settings: what the repair of a proposal  *)
(* hands on and what is shared of it, the home of a table, and from the     *)
(* doubts of a parse to its review.                                         *)
(***************************************************************************)
EXTENDS ReplyIngest, FiniteSetTheorems, SequenceTheorems, WellFoundedInduction, TLAPS

LEMMA SmallestOf ==
  ASSUME NEW S \in SUBSET Nat, S # {}
  PROVE  \E m \in S : \A n \in S : m <= n
<1>1. PICK m \in S : \A n \in S : ~(<<n, m>> \in OpToRel(<, Nat))
  BY WFMin, NatLessThanWellFounded, Zenon
<1>2. \A n \in S : ~(n < m)
  BY <1>1 DEF OpToRel
<1> QED BY <1>2

-----------------------------------------------------------------------------
(* What the repair of a proposal hands on: pairs that begin at different    *)
(* lines, whose words are those of their span, and whose spans reach every  *)
(* answer marker.                                                           *)
Located(t, pairs_) ==
  /\ pairs_ # {}
  /\ \A p \in pairs_ : p.at \in Nat /\ p.words = Words(t, p.span)
  /\ \A p, q \in pairs_ : p.at = q.at => p = q
  /\ \A m \in MarksOf(t) : \E p \in pairs_ : m \in LinesOf(p.span)

LEMMA MarksAreLines ==
  ASSUME NEW t \in Seq(STRING)
  PROVE  MarksOf(t) \subseteq Nat /\ DOMAIN t \subseteq Nat
BY DEF MarksOf

LEMMA MinOfSet ==
  ASSUME NEW S \in SUBSET Nat, S # {}
  PROVE  Min(S) \in S
BY SmallestOf DEF Min

(* A question has a first line.                                             *)
LEMMA QuestionHasLine ==
  ASSUME NEW t \in Seq(STRING), NEW question \in Questions(t)
  PROVE  question[1] \in Nat /\ question[1] \in LinesOf(question)
<1>1. PICK s \in Spans(t) : question = CutQuestion(t, s) /\ UsableQuestion(t, question)
  BY DEF Questions
<1>2. s \in Nat \X Nat
  BY <1>1, MarksAreLines DEF Spans
<1>3. question[1] \in Nat /\ question[2] \in Int
  <2>1. CASE Within(t, s) = {}
    BY <1>1, <1>2, <2>1 DEF CutQuestion
  <2>2. CASE Within(t, s) # {}
    <3>1. Within(t, s) \in SUBSET Nat
      BY MarksAreLines DEF Within
    <3>2. Min(Within(t, s)) \in Nat
      BY <2>2, <3>1, MinOfSet
    <3>3. question = <<s[1], Min(Within(t, s)) - 1>>
      BY <1>1, <2>2 DEF CutQuestion
    <3> QED BY <1>2, <3>2, <3>3
  <2> QED BY <2>1, <2>2
<1>4. PICK i \in LinesOf(question) : TRUE
  BY <1>1 DEF UsableQuestion, Solid
<1> QED BY <1>3, <1>4 DEF LinesOf

LEMMA SpansLocated ==
  ASSUME NEW t \in Seq(STRING), NEW labels, NEW tables, NEW answers, NEW parts \in SUBSET Parts(t, labels, tables),
         Accepted(t, Resolved(t, parts))
  PROVE  Located(t, SpanPairs(t, Resolved(t, parts), tables, answers))
<1> DEFINE all == Resolved(t, parts)
           pair(p) == [at |-> p.question[1], label |-> Label(t, all, p), span |-> p.answer, words |-> Words(t, p.answer),
                       tables |-> IF NamesAll(t, all, tables) THEN Reconciled(t, all, p) ELSE Offered(p, tables, answers)]
           found == SpanPairs(t, all, tables, answers)
<1>1. found = {pair(p) : p \in all}
  BY DEF SpanPairs
<1>2. \A p \in all : p.question \in Questions(t)
  BY DEF Resolved, Parts
<1>3. all # {} /\ (\A p, q \in all : p # q => LinesOf(p.question) \cap LinesOf(q.question) = {})
        /\ MarksOf(t) \subseteq Claimed(t, all)
  BY DEF Accepted, Missed
<1>4. \A p \in all : pair(p).at = p.question[1] /\ pair(p).span = p.answer /\ pair(p).words = Words(t, p.answer)
  OBVIOUS
<1> HIDE DEF all, pair, found
<1>5. \A p, q \in all : p.question[1] = q.question[1] => p = q
  BY <1>2, <1>3, QuestionHasLine
<1>6. found # {}
  BY <1>1, <1>3
<1>7. \A x \in found : x.at \in Nat /\ x.words = Words(t, x.span)
  BY <1>1, <1>2, <1>4, QuestionHasLine
<1>8. \A x, y \in found : x.at = y.at => x = y
  BY <1>1, <1>4, <1>5
<1>9. \A m \in MarksOf(t) : \E x \in found : m \in LinesOf(x.span)
  <2> SUFFICES ASSUME NEW m \in MarksOf(t) PROVE \E x \in found : m \in LinesOf(x.span)
    OBVIOUS
  <2>1. PICK p \in all : m \in LinesOf(p.answer)
    BY <1>3 DEF Claimed, Within
  <2> QED BY <1>1, <1>4, <2>1
<1> QED BY <1>6, <1>7, <1>8, <1>9 DEF Located, found, all

-----------------------------------------------------------------------------
(* Sharing is a matter of place, and the groups are its classes.            *)
SamePlace(p, q) == p = q \/ (p.span # None /\ p.span = q.span)

LEMMA SharingIsPlace ==
  ASSUME NEW t, NEW P, Located(t, P), NEW p \in P, NEW q \in P
  PROVE  SameAnswer(t, P, p, q) <=> SamePlace(p, q)
<1>1. Words(t, None) = {}
  BY DEF Words, Solid, LinesOf, None
<1>2. p.span = None => p.words = {}
  BY <1>1 DEF Located
<1> QED BY <1>2 DEF SameAnswer, SamePlace, SameWords

LEMMA GroupsArePlaces ==
  ASSUME NEW t, NEW P, Located(t, P), NEW p \in P
  PROVE  /\ Members(P, GroupOf(t, P, p)) = {q \in P : SamePlace(p, q)}
         /\ \A q \in P : GroupOf(t, P, p) = GroupOf(t, P, q) <=> SamePlace(p, q)
<1>1. \A x \in P : GroupOf(t, P, x) = {q.at : q \in {r \in P : SamePlace(x, r)}}
  BY SharingIsPlace DEF GroupOf
<1>2. \A x, q \in P : q.at \in GroupOf(t, P, x) <=> SamePlace(x, q)
  BY <1>1 DEF Located
<1>3. Members(P, GroupOf(t, P, p)) = {q \in P : SamePlace(p, q)}
  BY <1>2 DEF Members
<1>4. ASSUME NEW q \in P
      PROVE  GroupOf(t, P, p) = GroupOf(t, P, q) <=> SamePlace(p, q)
  <2>1. CASE SamePlace(p, q)
    <3>1. \A r \in P : SamePlace(p, r) <=> SamePlace(q, r)
      BY <2>1 DEF SamePlace
    <3>2. {r \in P : SamePlace(p, r)} = {r \in P : SamePlace(q, r)}
      BY <3>1
    <3> QED BY <1>1, <2>1, <3>2
  <2>2. CASE ~SamePlace(p, q)
    <3>1. q.at \in GroupOf(t, P, q)
      BY <1>2 DEF SamePlace
    <3> QED BY <1>2, <2>2, <3>1
  <2> QED BY <2>1, <2>2
<1> QED BY <1>3, <1>4

(* The words of a group are those of each of its pairs.                     *)
LEMMA GroupHasWords ==
  ASSUME NEW t, NEW P, Located(t, P), NEW p \in P, p.span # None
  PROVE  GroupWords(P, GroupOf(t, P, p)) = Words(t, p.span)
<1> DEFINE M == Members(P, GroupOf(t, P, p))
           first == CHOOSE x \in M : \A y \in M : x.at <= y.at
<1>1. M = {q \in P : SamePlace(p, q)}
  BY GroupsArePlaces
<1>2. p \in M
  BY <1>1 DEF SamePlace
<1> HIDE DEF M
<1>3. {q.at : q \in M} \in SUBSET Nat /\ {q.at : q \in M} # {}
  BY <1>1, <1>2 DEF Located
<1>4. PICK m \in {q.at : q \in M} : \A n \in {q.at : q \in M} : m <= n
  BY <1>3, SmallestOf
<1>5. \E x \in M : \A y \in M : x.at <= y.at
  BY <1>4
<1>6. first \in M
  BY <1>5
<1>7. GroupWords(P, GroupOf(t, P, p)) = first.words
  BY DEF GroupWords, M
<1> HIDE DEF first
<1>8. first \in P /\ SamePlace(p, first)
  BY <1>1, <1>6
<1>9. first.words = Words(t, first.span) /\ first.span = p.span
  BY <1>8 DEF Located, SamePlace
<1> QED BY <1>7, <1>9

(* With a label of its own a part is led to the group it belongs to.        *)
LEMMA LabelFinds ==
  ASSUME NEW t, NEW P, Located(t, P), NEW p \in P, \A q, r \in P : q.label = r.label => q = r
  PROVE  Found(t, P, p) = GroupOf(t, P, p)
<1>1. LastOf(P, p.label) = p
  BY DEF LastOf, Located
<1> QED BY <1>1 DEF Found

-----------------------------------------------------------------------------
(* What is known of the state.  The text read is a sequence of lines; while *)
(* it is read nothing was located; what a model located stays located, and  *)
(* the record is made of it.                                                *)
DocInv ==
  /\ organised.latest \subseteq Files /\ organised.versions \subseteq Files
  /\ doc \in [file: SUBSET Files, page: Nat, text: Seq(STRING), tables: SUBSET Nat]
  /\ stage = "read" => doc.file # {}

SubsOf(t, P) == {[at |-> p.at, label |-> p.label, span |-> p.span, group |-> Found(t, P, p)] : p \in P}
GroupsWithWords(t, P) == {[id |-> g, words |-> GroupWords(P, g)] : g \in Groups(t, P)}

LocatedInv ==
  /\ stage \in {"crawl", "pick", "read"} => ~Spanned
  /\ Spanned => Located(doc.text, pairs)
  /\ Done /\ Spanned => /\ record.subs = SubsOf(doc.text, pairs)
                        /\ record.groups = GroupsWithWords(doc.text, pairs)

IInv == DocInv /\ LocatedInv

(* The latest replies are candidates.                                       *)
LEMMA SelectsCandidates ==
  ASSUME NEW all
  PROVE  SelectLatest(all) \subseteq all
<1>1. \A S : PreferPdf(S) \subseteq S
  BY DEF PreferPdf, FirstListed
<1>2. Best(all) \subseteq all
  BY DEF Best
<1>3. CASE all = {}
  BY <1>3 DEF SelectLatest
<1>4. CASE all # {} /\ Ambiguous(all)
  BY <1>2, <1>4 DEF SelectLatest
<1>5. CASE all # {} /\ ~Ambiguous(all)
  <2> DEFINE group == IF Cardinality(Best(all)) > 1 THEN Best(all)
                      ELSE {c \in all : \E b \in Best(all) : Stem(c) = Stem(b)}
  <2>1. SelectLatest(all) = PreferPdf(group)
    BY <1>5 DEF SelectLatest
  <2>2. group \subseteq all
    BY <1>2
  <2> HIDE DEF group
  <2> QED BY <1>1, <2>1, <2>2
<1> QED BY <1>3, <1>4, <1>5

LEMMA OrganisedFiles ==
  ASSUME NEW tree \in Trees, NEW q
  PROVE  Organised(q, tree).latest \subseteq Files /\ Organised(q, tree).versions \subseteq Files
<1> DEFINE all == CandidatesOf(q, tree)
<1>1. \A d \in DOMAIN tree : ReplyFiles(tree[d]) \subseteq Files
  BY IngestAssumption DEF ReplyFiles
<1>2. \A c \in all : c.file \in Files
  BY <1>1 DEF CandidatesOf, Candidates, Group
<1>3. SelectLatest(all) \subseteq all
  BY SelectsCandidates
<1>4. Organised(q, tree).latest = {c.file : c \in SelectLatest(all)}
  BY DEF Organised
<1>5. Organised(q, tree).versions = UNION {ReplyFiles(tree[d]) : d \in Group(q, tree)}
  BY DEF Organised
<1>6. Group(q, tree) \subseteq DOMAIN tree
  BY DEF Group
<1> HIDE DEF all
<1> QED BY <1>1, <1>2, <1>3, <1>4, <1>5, <1>6

(* A file is named first among others.                                      *)
LEMMA PickedFiles ==
  ASSUME DocInv
  PROVE  Picked.file \subseteq Files
<1>1. \A S : FirstNamed(S) \subseteq S
  BY DEF FirstNamed
<1>2. Readable \subseteq Files
  BY DEF Readable, DocInv
<1> QED BY <1>1, <1>2 DEF Picked, DocInv

LEMMA DocGrows ==
  ASSUME NEW d \in [file: SUBSET Files, page: Nat, text: Seq(STRING), tables: SUBSET Nat],
         NEW page \in Nat, NEW text \in Seq(STRING), NEW tables \in SUBSET Nat
  PROVE  LET grown == [d EXCEPT !.page = page, !.text = text, !.tables = tables] IN
         /\ grown \in [file: SUBSET Files, page: Nat, text: Seq(STRING), tables: SUBSET Nat]
         /\ grown.file = d.file
OBVIOUS

(* A page read adds lines to a sequence of lines.                           *)
LEMMA PagesRead ==
  ASSUME DocInv, NEW lines \in Seq(STRING), NEW tables \in SUBSET Nat, NextPage(lines, tables)
  PROVE  doc' \in [file: SUBSET Files, page: Nat, text: Seq(STRING), tables: SUBSET Nat] /\ doc'.file = doc.file
<1>1. doc.text \o lines \in Seq(STRING)
  BY ConcatProperties DEF DocInv
<1>2. doc.page \in Nat /\ doc.tables \subseteq Nat
  BY DEF DocInv
<1>3. doc.page + 1 \in Nat
  BY <1>2
<1>4. (doc.tables \cup tables) \subseteq Nat
  BY <1>2
<1>5. doc' = [doc EXCEPT !.page = doc.page + 1, !.text = doc.text \o lines, !.tables = doc.tables \cup tables]
  BY Zenon DEF NextPage
<1>6. doc \in [file: SUBSET Files, page: Nat, text: Seq(STRING), tables: SUBSET Nat]
  BY DEF DocInv
<1> QED BY <1>1, <1>3, <1>4, <1>5, <1>6, DocGrows

LEMMA PageTyped ==
  ASSUME DocInv, stage = "read"
  PROVE  /\ Pages \in Seq([type: {"digital", "scanned", "image"}, lines: Seq(STRING), tables: SUBSET Nat])
         /\ Reading => Page.lines \in Seq(STRING) /\ Page.tables \subseteq Nat
         /\ Ext \in {"docx", "doc", "xlsx", "txt", "rtf"} => Pages[1].lines \in Seq(STRING) /\ Pages[1].tables \subseteq Nat
<1> DEFINE f == The(doc.file)
           R == [type: {"digital", "scanned", "image"}, lines: Seq(STRING), tables: SUBSET Nat]
<1>1. f \in Files
  BY DEF The, DocInv
<1>2. Pages = Content[f].pages /\ Ext = Says[f].ext
  BY DEF Pages, Ext
<1>3. Content[f] \in FileContent
  BY <1>1, IngestAssumption
<1>4. Pages \in Seq(R)
  BY <1>2, <1>3 DEF FileContent
<1>5. Ext \in {"docx", "doc", "xlsx", "txt", "rtf"} => Len(Pages) = 1
  BY <1>1, <1>2, IngestAssumption
<1> HIDE DEF f, R
<1>6. \A i \in 1 .. Len(Pages) : Pages[i] \in R
  BY <1>4
<1>7. \A r \in R : r.lines \in Seq(STRING) /\ r.tables \subseteq Nat
  BY DEF R
<1>8. Reading => doc.page + 1 \in 1 .. Len(Pages)
  <2>1. doc.page \in Nat /\ Len(Pages) \in Nat
    BY <1>4 DEF DocInv
  <2> QED BY <2>1 DEF Reading
<1>9. Reading => Page \in R
  BY <1>6, <1>8 DEF Page
<1> QED BY <1>4, <1>5, <1>6, <1>7, <1>9 DEF R

-----------------------------------------------------------------------------
LEMMA InitIInv == Init => IInv
BY EmptySeq DEF Init, IInv, DocInv, LocatedInv, NoFolder, NoDoc, Spanned, Done

(* Steps that neither locate anything nor end with a record.                *)
LEMMA LocatedKept ==
  ASSUME LocatedInv, UNCHANGED <<pairs, via>>, stage' # "done", ~Spanned \/ UNCHANGED doc,
         stage' \in {"crawl", "pick", "read"} => stage \in {"crawl", "pick", "read"}
  PROVE  LocatedInv'
BY DEF LocatedInv, Spanned, Done

LEMMA DocKept ==
  ASSUME DocInv, UNCHANGED <<organised, doc>>, stage' = "read" => stage = "read"
  PROVE  DocInv'
BY DEF DocInv

(* What is found otherwise than by the line ranges of a model.              *)
LEMMA ExtractedUnlocated ==
  ASSUME NEW found, NEW how, how \notin {"spans", "spans, tables"}, Extracted(found, how), DocInv,
         UNCHANGED <<organised, doc>>
  PROVE  IInv'
<1>1. via' = how /\ stage' \in {"asking", "fields"}
  BY DEF Extracted, Goto
<1> QED BY <1>1 DEF IInv, DocInv, LocatedInv, Spanned, Done

LEMMA NextIInv ==
  ASSUME IInv, [Next]_vars
  PROVE  IInv'
<1> USE DEF At, Goto
<1>1. ASSUME NEW tree \in Trees, NEW q \in DOMAIN tree, Crawl(q, tree)
      PROVE  IInv'
  <2>1. DocInv'
    BY <1>1, OrganisedFiles DEF IInv, DocInv, Crawl
  <2>2. LocatedInv'
    BY <1>1, LocatedKept DEF IInv, LocatedInv, Crawl
  <2> QED BY <2>1, <2>2 DEF IInv
<1>2. CASE Pick
  <2>1. DocInv'
    <3>1. doc' = [NoDoc EXCEPT !.file = Picked.file] /\ organised' = NoFolder
      BY <1>2 DEF Pick
    <3>2. Picked.file \subseteq Files
      BY PickedFiles DEF IInv
    <3>3. doc' \in [file: SUBSET Files, page: Nat, text: Seq(STRING), tables: SUBSET Nat] /\ doc'.file = Picked.file
      BY <3>1, <3>2, EmptySeq DEF NoDoc
    <3>4. stage' = "read" => doc'.file # {}
      BY <1>2, <3>3 DEF Pick
    <3> QED BY <3>1, <3>3, <3>4 DEF DocInv, NoFolder
  <2>2. LocatedInv'
    BY <1>2 DEF IInv, LocatedInv, Pick, Spanned, Done
  <2> QED BY <2>1, <2>2 DEF IInv
<1>3. ASSUME Reading, NEW S \in {{}, Page.tables}, ReadDigital(S)
      PROVE  IInv'
  <2>1. stage = "read" /\ stage' = "read" /\ NextPage(Page.lines, S) /\ UNCHANGED <<organised, pairs, via>>
    BY <1>3 DEF Reading, ReadDigital
  <2>2. Page.lines \in Seq(STRING) /\ S \in SUBSET Nat
    BY <1>3, <2>1, PageTyped DEF IInv
  <2>3. DocInv'
    BY <2>1, <2>2, PagesRead DEF IInv, DocInv
  <2>4. LocatedInv'
    BY <2>1, LocatedKept DEF IInv, LocatedInv
  <2> QED BY <2>3, <2>4 DEF IInv
<1>4. ASSUME Reading, NEW S \in {{}, Page.tables}, NEW outcome \in Outcomes, ReadPicture(outcome, S)
      PROVE  IInv'
  <2>1. stage = "read" /\ stage' = "read" /\ UNCHANGED <<organised, pairs, via>>
    BY <1>4 DEF Reading, ReadPicture
  <2>2. Page.lines \in Seq(STRING) /\ S \in SUBSET Nat
    BY <1>4, <2>1, PageTyped DEF IInv
  <2>3. \/ doc' = doc
        \/ \E lines \in {Page.lines, <<>>} : NextPage(lines, S)
    BY <1>4 DEF ReadPicture
  <2>4. DocInv'
    <3>1. CASE doc' = doc
      BY <2>1, <3>1 DEF IInv, DocInv
    <3>2. ASSUME NEW lines \in {Page.lines, <<>>}, NextPage(lines, S)
          PROVE  DocInv'
      <4>1. lines \in Seq(STRING)
        BY <2>2, EmptySeq
      <4> QED BY <2>1, <2>2, <3>2, <4>1, PagesRead DEF IInv, DocInv
    <3> QED BY <2>3, <3>1, <3>2
  <2>5. LocatedInv'
    BY <2>1, LocatedKept DEF IInv, LocatedInv
  <2> QED BY <2>4, <2>5 DEF IInv
<1>5. ASSUME NEW converted \in BOOLEAN, NEW raw \in BOOLEAN, ReadOther(converted, raw)
      PROVE  IInv'
  <2>1. stage = "read" /\ stage' = "read" /\ UNCHANGED <<organised, pairs, via>>
    BY <1>5 DEF ReadOther
  <2>2. \/ Ext \in {"docx", "doc", "xlsx", "txt", "rtf"} /\ NextPage(Pages[1].lines, Pages[1].tables)
        \/ \E lines \in {RawLines, <<>>} : NextPage(lines, {})
    BY <1>5 DEF ReadOther, Legacy
  <2>3. DocInv'
    <3>1. CASE Ext \in {"docx", "doc", "xlsx", "txt", "rtf"} /\ NextPage(Pages[1].lines, Pages[1].tables)
      <4>1. Pages[1].lines \in Seq(STRING) /\ Pages[1].tables \in SUBSET Nat
        BY <2>1, <3>1, PageTyped DEF IInv
      <4> QED BY <2>1, <3>1, <4>1, PagesRead DEF IInv, DocInv
    <3>2. ASSUME NEW lines \in {RawLines, <<>>}, NextPage(lines, {})
          PROVE  DocInv'
      <4>1. lines \in Seq(STRING)
        BY EmptySeq, IngestAssumption
      <4> QED BY <2>1, <3>2, <4>1, PagesRead DEF IInv, DocInv
    <3> QED BY <2>2, <3>1, <3>2
  <2>4. LocatedInv'
    BY <2>1, LocatedKept DEF IInv, LocatedInv
  <2> QED BY <2>3, <2>4 DEF IInv
<1>6. CASE Unreadable
  <2>1. DocInv'
    BY <1>6, DocKept DEF IInv, Unreadable, Blank
  <2>2. LocatedInv'
    BY <1>6 DEF IInv, LocatedInv, Unreadable, Blank, Spanned, Done
  <2> QED BY <2>1, <2>2 DEF IInv
<1>19. CASE ReadFails
  <2>1. /\ stage = "read" /\ stage' = "read" /\ doc' = [doc EXCEPT !.page = LastPage]
        /\ UNCHANGED <<organised, pairs, via>>
    BY <1>19 DEF ReadFails
  <2>2. LastPage \in Nat
    BY <2>1, PageTyped DEF IInv, LastPage
  <2>3. DocInv'
    BY <2>1, <2>2 DEF IInv, DocInv
  <2>4. LocatedInv'
    BY <2>1, LocatedKept DEF IInv, LocatedInv
  <2> QED BY <2>3, <2>4 DEF IInv
<1>20. ASSUME Blank, NEW n \in DOMAIN Pages, NEW S \in {{}, Pages[n].tables}, KeepBase(n, S)
       PROVE  IInv'
  <2>1. /\ stage = "read" /\ stage' = "read" /\ doc' = [doc EXCEPT !.text = Pages[n].lines, !.tables = S]
        /\ UNCHANGED <<organised, pairs, via>>
    BY <1>20 DEF KeepBase, Blank
  <2>2. Pages[n] \in [type: {"digital", "scanned", "image"}, lines: Seq(STRING), tables: SUBSET Nat]
    <3> DEFINE R == [type: {"digital", "scanned", "image"}, lines: Seq(STRING), tables: SUBSET Nat]
    <3>1. Pages \in Seq(R)
      BY <2>1, PageTyped DEF IInv
    <3> HIDE DEF R
    <3>2. n \in 1 .. Len(Pages)
      BY <3>1
    <3>3. Pages[n] \in R
      BY <3>1, <3>2
    <3> QED BY <3>3 DEF R
  <2>3. Pages[n].lines \in Seq(STRING) /\ S \in SUBSET Nat
    BY <2>2
  <2>4. DocInv'
    BY <2>1, <2>3 DEF IInv, DocInv
  <2>5. LocatedInv'
    BY <2>1, LocatedKept DEF IInv, LocatedInv
  <2> QED BY <2>4, <2>5 DEF IInv
<1>7. ASSUME NEW client \in Clients, Laid(client)
      PROVE  IInv'
  <2>1. stage = "read" /\ stage' \in {"fields", "rules", "asking"} /\ UNCHANGED <<organised, doc>>
    BY <1>7 DEF Laid
  <2>2. via' = "rows" \/ via' = via
    BY <1>7 DEF Laid
  <2>3. DocInv'
    BY <2>1, DocKept DEF IInv
  <2>4. LocatedInv'
    BY <2>1, <2>2 DEF IInv, LocatedInv, Spanned, Done
  <2> QED BY <2>3, <2>4 DEF IInv
<1>8. ASSUME stage' \in {"asking", "judging", "fields", "rules"}, UNCHANGED <<organised, doc, pairs, via>>
      PROVE  IInv'
  BY <1>8, DocKept, LocatedKept DEF IInv
<1>9. ASSUME NEW outcome \in Outcomes, Ask(outcome)
      PROVE  IInv'
  BY <1>8, <1>9 DEF Ask, GiveUp
<1>10. CASE Refuse
  BY <1>8, <1>10 DEF Refuse, GiveUp
<1>11. ASSUME NEW parts \in SomeParts(doc.text), AcceptSpans(parts)
       PROVE  IInv'
  <2> DEFINE t == doc.text
             all == Resolved(t, parts)
             found == SpanPairs(t, all, doc.tables, AnswerTables)
  <2>1. parts \in SUBSET Parts(t, PartLabels, doc.tables)
    BY DEF SomeParts
  <2>2. Accepted(t, all) /\ UNCHANGED <<organised, doc>>
    BY <1>11 DEF AcceptSpans
  <2>3. pairs' = found /\ stage' \in {"asking", "fields"}
    BY <1>11 DEF AcceptSpans, Extracted
  <2>4. t \in Seq(STRING)
    BY DEF IInv, DocInv
  <2>5. Located(t, found)
    BY <2>1, <2>2, <2>4, SpansLocated
  <2>6. DocInv'
    BY <2>2, <2>3, DocKept DEF IInv
  <2> HIDE DEF all, found
  <2>7. LocatedInv'
    BY <2>2, <2>3, <2>5 DEF LocatedInv, Done
  <2> QED BY <2>6, <2>7 DEF IInv
<1>12. ASSUME NEW chosen, AcceptProse(chosen)
       PROVE  IInv'
  <2>1. \E found : Extracted(found, "prose")
    BY <1>12 DEF AcceptProse
  <2>2. UNCHANGED <<organised, doc>>
    BY <1>12 DEF AcceptProse
  <2> QED BY <2>1, <2>2, ExtractedUnlocated DEF IInv
<1>13. CASE Split
  <2>1. \E found : Extracted(found, "rules")
    BY <1>13 DEF Split
  <2>2. UNCHANGED <<organised, doc>>
    BY <1>13 DEF Split
  <2> QED BY <2>1, <2>2, ExtractedUnlocated DEF IInv
<1>14. CASE AskOnceMore
  BY <1>8, <1>14 DEF AskOnceMore
<1>15. CASE TakeWhole
  <2>1. \E found : Extracted(found, "whole")
    BY <1>15 DEF TakeWhole
  <2>2. UNCHANGED <<organised, doc>>
    BY <1>15 DEF TakeWhole
  <2> QED BY <2>1, <2>2, ExtractedUnlocated DEF IInv
<1>16. ASSUME NEW n \in 0 .. 4, CrossCheck(n)
       PROVE  IInv'
  <2>1. stage' = "fields" /\ UNCHANGED <<organised, doc, pairs, via>>
    BY <1>16 DEF CrossCheck
  <2> QED BY <1>8, <2>1
<1>17. CASE Fields
  <2>1. stage' = "done" /\ UNCHANGED <<organised, doc, pairs, via>>
    BY <1>17 DEF Fields
  <2>2. DocInv'
    BY <2>1, DocKept DEF IInv
  <2>3. ASSUME Spanned
        PROVE  record'.subs = SubsOf(doc.text, pairs) /\ record'.groups = GroupsWithWords(doc.text, pairs)
    <3>1. Located(doc.text, pairs)
      BY <2>3 DEF IInv, LocatedInv
    <3>2. Parted = pairs
      BY <2>3, <3>1 DEF Parted, Modelled, Spanned, Located
    <3>3. PICK assigned, review :
            record' = [Record(doc.text, pairs, assigned, doc.tables) EXCEPT !.review = review]
      BY <1>17, <3>2 DEF Fields
    <3> QED BY <3>3 DEF Record, SubsOf, GroupsWithWords
  <2>4. Spanned' <=> Spanned
    BY <2>1 DEF Spanned
  <2>5. LocatedInv'
    BY <2>1, <2>3, <2>4 DEF IInv, LocatedInv
  <2> QED BY <2>2, <2>5 DEF IInv
<1>18. CASE UNCHANGED vars
  BY <1>18 DEF vars, IInv, DocInv, LocatedInv, Spanned, Done
<1> QED
  BY <1>1, <1>2, <1>3, <1>4, <1>5, <1>6, <1>7, <1>9, <1>10, <1>11, <1>12, <1>13, <1>14, <1>15, <1>16, <1>17, <1>18,
     <1>19, <1>20
  DEF Next

THEOREM IngestInvariant == Spec => []IInv
<1>1. IInv /\ [Next]_vars => IInv'
  BY NextIInv
<1> QED BY InitIInv, <1>1, PTL DEF Spec

-----------------------------------------------------------------------------
(* When the labels of the record differ, those of the pairs do.             *)
LEMMA LabelsDiffer ==
  ASSUME IInv, Done, Spanned, IdsAreUnique
  PROVE  \A q, r \in pairs : q.label = r.label => q = r
<1> DEFINE sub(p) == [at |-> p.at, label |-> p.label, span |-> p.span, group |-> Found(doc.text, pairs, p)]
<1>1. \A p \in pairs : sub(p) \in record.subs
  BY DEF IInv, LocatedInv, SubsOf
<1>2. \A p \in pairs : sub(p).at = p.at /\ sub(p).label = p.label
  OBVIOUS
<1> HIDE DEF sub
<1>3. \A q, r \in pairs : q.label = r.label => sub(q) = sub(r)
  BY <1>1, <1>2 DEF IdsAreUnique
<1> QED BY <1>2, <1>3 DEF IInv, LocatedInv, Located

(* Every answer block of a reply stands in the answer of the group that     *)
(* some sub-question is led to.                                             *)
LEMMA BlocksReach ==
  ASSUME IInv, IdsAreUnique
  PROVE  EveryBlockReaches
<1> DEFINE t == doc.text
           P == pairs
<1> SUFFICES ASSUME Done, Spanned, NEW m \in MarksOf(t)
             PROVE  \E s \in record.subs : \E g \in record.groups :
                      /\ m \in LinesOf(s.span) /\ s.group = g.id
                      /\ t[m] # "bare" => m \in g.words
  BY DEF EveryBlockReaches
<1>1. Located(t, P) /\ record.subs = SubsOf(t, P) /\ record.groups = GroupsWithWords(t, P)
  BY DEF IInv, LocatedInv
<1>2. PICK p \in P : m \in LinesOf(p.span)
  BY <1>1 DEF Located
<1>3. Found(t, P, p) = GroupOf(t, P, p)
  BY <1>1, LabelsDiffer, LabelFinds
<1>4. GroupWords(P, GroupOf(t, P, p)) = Words(t, p.span)
  <2>1. p.span # None
    BY <1>2 DEF LinesOf, None
  <2> QED BY <1>1, <2>1, GroupHasWords
<1>5. t[m] # "bare" => m \in Words(t, p.span)
  <2>1. t[m] # "blank"
    BY DEF MarksOf, Marks
  <2> QED BY <1>2, <2>1 DEF Words, Solid
<1> DEFINE s == [at |-> p.at, label |-> p.label, span |-> p.span, group |-> Found(t, P, p)]
           g == [id |-> GroupOf(t, P, p), words |-> GroupWords(P, GroupOf(t, P, p))]
<1>6. s \in record.subs
  BY <1>1 DEF SubsOf
<1>7. g \in record.groups
  BY <1>1 DEF GroupsWithWords, Groups
<1>8. s.span = p.span /\ s.group = Found(t, P, p) /\ g.id = GroupOf(t, P, p)
        /\ g.words = GroupWords(P, GroupOf(t, P, p))
  OBVIOUS
<1> HIDE DEF s, g
<1> QED BY <1>2, <1>3, <1>4, <1>5, <1>6, <1>7, <1>8

(* Sub-questions are led to one group exactly when their answers stand in   *)
(* one place.                                                               *)
LEMMA SharedBySpan ==
  ASSUME IInv, IdsAreUnique
  PROVE  SharedIffSameSpan
<1> DEFINE t == doc.text
           P == pairs
           sub(p) == [at |-> p.at, label |-> p.label, span |-> p.span, group |-> Found(t, P, p)]
<1> SUFFICES ASSUME Done, Spanned, NEW s \in record.subs, NEW u \in record.subs, s # u
             PROVE  s.group = u.group <=> (s.span = u.span /\ s.span # None)
  BY DEF SharedIffSameSpan
<1>1. Located(t, P) /\ record.subs = {sub(p) : p \in P}
  BY DEF IInv, LocatedInv, SubsOf
<1>2. \A p \in P : sub(p).span = p.span /\ sub(p).group = Found(t, P, p)
  OBVIOUS
<1> HIDE DEF sub
<1>3. PICK p \in P : s = sub(p)
  BY <1>1
<1>4. PICK q \in P : u = sub(q)
  BY <1>1
<1>5. \A x \in P : Found(t, P, x) = GroupOf(t, P, x)
  BY <1>1, LabelsDiffer, LabelFinds
<1>6. GroupOf(t, P, p) = GroupOf(t, P, q) <=> SamePlace(p, q)
  BY <1>1, GroupsArePlaces
<1>7. p # q
  BY <1>3, <1>4
<1> QED BY <1>2, <1>3, <1>4, <1>5, <1>6, <1>7 DEF SamePlace

(* A record whose sub-questions have labels of their own loses no answer    *)
(* block of its reply.                                                      *)
THEOREM BlocksAreKept == Spec => [](IdsAreUnique => EveryBlockReaches)
<1>1. IInv => (IdsAreUnique => EveryBlockReaches)
  BY BlocksReach
<1> QED BY IngestInvariant, <1>1, PTL

(* In such a record an answer is shared exactly where the model found two   *)
(* answers in one place.                                                    *)
THEOREM PlaceDecides == Spec => [](IdsAreUnique => SharedIffSameSpan)
<1>1. IInv => (IdsAreUnique => SharedIffSameSpan)
  BY SharedBySpan
<1> QED BY IngestInvariant, <1>1, PTL

-----------------------------------------------------------------------------
(* What every way of finding pairs hands on: they begin at different lines, *)
(* and where two have one span they have one wording.                       *)
WellPlaced(P) ==
  /\ \A p \in P : p.at \in Nat
  /\ \A p, q \in P : p.at = q.at => p = q
  /\ \A p, q \in P : p.span # None /\ p.span = q.span => p.words = q.words

LEMMA LocatedPlaced ==
  ASSUME NEW t, NEW P, Located(t, P)
  PROVE  WellPlaced(P)
BY DEF Located, WellPlaced

LEMMA ProsePlaced ==
  ASSUME NEW t \in Seq(STRING), NEW chosen \in SomePairs(t), NEW tables, NEW answers
  PROVE  WellPlaced(ProsePairs(t, chosen, tables, answers))
<1> DEFINE pair(p) == [at |-> p.at, label |-> IF Own(t[p.at]) # 0 THEN Own(t[p.at]) ELSE Nth(chosen, p),
                       span |-> None, words |-> Recovered(t, chosen, p), tables |-> Offered(p, tables, answers)]
<1>1. ProsePairs(t, chosen, tables, answers) = {pair(p) : p \in chosen}
  BY DEF ProsePairs
<1>2. \A p \in chosen : pair(p).at = p.at /\ pair(p).span = None
  OBVIOUS
<1> HIDE DEF pair
<1>3. (\A p \in chosen : p.at \in Prose(t)) /\ (\A p, q \in chosen : p.at = q.at => p = q)
  BY DEF SomePairs
<1>4. Prose(t) \subseteq Nat
  BY MarksAreLines DEF Prose
<1> QED BY <1>1, <1>2, <1>3, <1>4 DEF WellPlaced

LEMMA SplitPlaced ==
  ASSUME NEW t \in Seq(STRING), NEW tables
  PROVE  WellPlaced(SplitPairs(t, tables))
<1> DEFINE pair(i) == [at |-> i, label |-> 1 + Cardinality({q \in SplitQuestions(t) : q < i}), span |-> None,
                       words |-> SplitWords(t, i), tables |-> tables]
<1>1. SplitPairs(t, tables) = {pair(i) : i \in SplitQuestions(t)}
  BY DEF SplitPairs
<1>2. \A i : pair(i).at = i /\ pair(i).span = None
  OBVIOUS
<1> HIDE DEF pair
<1>3. Prose(t) \subseteq Nat /\ LabelLines(t) \subseteq Nat
  BY MarksAreLines DEF Prose, LabelLines
<1>4. SplitQuestions(t) \subseteq Nat
  <2> DEFINE head == {i \in Prose(t) : i < Min(LabelLines(t))}
  <2>1. head \in SUBSET Nat
    BY <1>3
  <2>2. head # {} => Min(head) \in Nat
    BY <2>1, MinOfSet
  <2> QED BY <1>3, <2>2 DEF SplitQuestions
<1> QED BY <1>1, <1>2, <1>4 DEF WellPlaced

LEMMA WholePlaced ==
  ASSUME NEW t, NEW tables
  PROVE  WellPlaced(WholePair(t, tables))
BY DEF WholePair, WellPlaced

LEMMA RowsPlaced ==
  ASSUME NEW t \in Seq(STRING), NEW tables
  PROVE  WellPlaced(RowPairs(t, tables))
<1> DEFINE pair(i) == [at |-> i, label |-> 1 + Cardinality({j \in Rows(t) : j < i}), span |-> None,
                       words |-> i .. Min({j - 1 : j \in {k \in Rows(t) : k > i}} \cup {Len(t)}), tables |-> tables]
<1>1. RowPairs(t, tables) = {pair(i) : i \in Rows(t)}
  BY DEF RowPairs
<1>2. \A i : pair(i).at = i /\ pair(i).span = None
  OBVIOUS
<1> HIDE DEF pair
<1>3. Rows(t) \subseteq Nat
  BY MarksAreLines DEF Rows
<1> QED BY <1>1, <1>2, <1>3 DEF WellPlaced

LEMMA PartedPlaced ==
  ASSUME doc.text \in Seq(STRING), WellPlaced(pairs)
  PROVE  WellPlaced(Parted)
BY SplitPlaced, WholePlaced DEF Parted

(* A part without words is a group without words: nothing it could share    *)
(* has any.                                                                 *)
LEMMA EmptyIsLowConfidence ==
  ASSUME NEW t, NEW P, WellPlaced(P), NEW p \in P, p.words = {}
  PROVE  \E g \in Groups(t, P) : GroupWords(P, g) = {}
<1> DEFINE g == GroupOf(t, P, p)
           M == Members(P, g)
           first == CHOOSE x \in M : \A y \in M : x.at <= y.at
<1>1. \A q \in P : q.at \in g <=> SameAnswer(t, P, p, q)
  BY DEF GroupOf, WellPlaced
<1>2. M = {q \in P : SameAnswer(t, P, p, q)}
  BY <1>1 DEF Members
<1>3. \A q \in P : SameAnswer(t, P, p, q) => q.words = {}
  BY DEF SameAnswer, SameWords, WellPlaced
<1>4. p \in M
  BY <1>2 DEF SameAnswer
<1>5. g \in Groups(t, P)
  BY DEF Groups
<1>6. GroupWords(P, g) = first.words
  BY DEF GroupWords
<1> HIDE DEF g, M
<1>7. {q.at : q \in M} \in SUBSET Nat /\ {q.at : q \in M} # {}
  BY <1>2, <1>4 DEF WellPlaced
<1>8. PICK m \in {q.at : q \in M} : \A n \in {q.at : q \in M} : m <= n
  BY <1>7, SmallestOf
<1>9. \E x \in M : \A y \in M : x.at <= y.at
  BY <1>8
<1>10. first \in M
  BY <1>9
<1> HIDE DEF first
<1> QED BY <1>2, <1>3, <1>5, <1>6, <1>10

-----------------------------------------------------------------------------
(* A table that parts have is given to one group.                           *)
LEMMA PlacedOnce ==
  ASSUME NEW t, NEW P, WellPlaced(P), NEW x
  PROVE  Cardinality(Placed(t, P, x)) <= 1 /\ (x \in Tables(P) => Placed(t, P, x) # {})
<1> DEFINE having == {q \in P : x \in q.tables}
           firsts == {q \in having : \A r \in having : q.at <= r.at}
<1>1. Placed(t, P, x) = {HomeOfLabel(t, P, p.label) : p \in firsts}
  BY DEF Placed
<1>2. \A p, q \in firsts : p = q
  BY DEF WellPlaced
<1>3. having \subseteq P
  OBVIOUS
<1>4. x \in Tables(P) => having # {}
  BY DEF Tables
<1>5. having # {} => firsts # {}
  <2> SUFFICES ASSUME having # {} PROVE firsts # {}
    OBVIOUS
  <2>1. {q.at : q \in having} \in SUBSET Nat /\ {q.at : q \in having} # {}
    BY DEF WellPlaced
  <2>2. PICK m \in {q.at : q \in having} : \A n \in {q.at : q \in having} : m <= n
    BY <2>1, SmallestOf
  <2>3. PICK q \in having : q.at = m
    BY <2>2
  <2>4. q \in firsts
    BY <2>2, <2>3
  <2> QED BY <2>4
<1> HIDE DEF having, firsts
<1>6. Placed(t, P, x) = {} \/ \E g : Placed(t, P, x) = {g}
  BY <1>1, <1>2
<1>7. Cardinality(Placed(t, P, x)) <= 1
  BY <1>6, FS_EmptySet, FS_Singleton
<1>8. firsts # {} => Placed(t, P, x) # {}
  BY <1>1
<1> QED BY <1>4, <1>5, <1>7, <1>8

LEMMA DealtOnce ==
  ASSUME NEW t, NEW P, NEW x
  PROVE  Cardinality(Dealt(t, P, x)) = 1
<1>1. (Cardinality(Groups(t, P)) = 1 /\ Dealt(t, P, x) = Groups(t, P)) \/ \E g : Dealt(t, P, x) = {g}
  BY DEF Dealt
<1> QED BY <1>1, FS_Singleton

LEMMA HomesOnce ==
  ASSUME NEW t, NEW P, WellPlaced(P), NEW assigned \in BOOLEAN, NEW x
  PROVE  /\ Cardinality(Homes(t, P, assigned, x)) <= 1
         /\ x \in Tables(P) => Homes(t, P, assigned, x) # {}
<1>1. Cardinality(Dealt(t, P, x)) = 1 /\ Dealt(t, P, x) # {} /\ Cardinality({}) = 0
  BY DealtOnce, FS_EmptySet
<1>2. Cardinality(Placed(t, P, x)) <= 1 /\ (x \in Tables(P) => Placed(t, P, x) # {})
  BY PlacedOnce
<1> QED BY <1>1, <1>2 DEF Homes

-----------------------------------------------------------------------------
(* The steps by what they do to the pairs.                                  *)
Passes ==
  /\ stage' # "done" /\ UNCHANGED <<pairs, via>>
  /\ UNCHANGED doc \/ stage \in {"crawl", "pick", "read"}
Ends ==
  /\ stage \in {"pick", "read"} /\ stage' = "done" /\ UNCHANGED <<pairs, via>>
  /\ record'.homes = <<>> /\ record'.review
FindsRows ==
  /\ stage = "read" /\ stage' = "fields" /\ UNCHANGED doc
  /\ pairs' = RowPairs(doc.text, doc.tables) /\ via' = "rows"

LEMMA StepKinds ==
  ASSUME [Next]_vars
  PROVE  \/ Passes \/ Ends \/ FindsRows \/ Split \/ TakeWhole \/ Fields \/ UNCHANGED vars
         \/ \E parts \in SomeParts(doc.text) : AcceptSpans(parts)
         \/ \E chosen \in SomePairs(doc.text) : AcceptProse(chosen)
<1> USE DEF At, Goto
<1>1. ASSUME NEW tree \in Trees, NEW q \in DOMAIN tree, Crawl(q, tree) PROVE Passes
  BY <1>1 DEF Crawl, Passes
<1>2. CASE Pick
  <2>1. [NoRecord EXCEPT !.review = (Picked.file = {})].homes = <<>>
        /\ [NoRecord EXCEPT !.review = (Picked.file = {})].review = (Picked.file = {})
    BY DEF NoRecord
  <2> QED BY <1>2, <2>1 DEF Pick, Passes, Ends
<1>3. ASSUME NEW S, ReadDigital(S) PROVE Passes
  BY <1>3 DEF ReadDigital, Reading, Passes
<1>4. ASSUME NEW S, NEW outcome, ReadPicture(outcome, S) PROVE Passes
  BY <1>4 DEF ReadPicture, Reading, Passes
<1>5. ASSUME NEW converted, NEW raw, ReadOther(converted, raw) PROVE Passes
  BY <1>5 DEF ReadOther, Passes
<1>12. CASE ReadFails
  BY <1>12 DEF ReadFails, Passes
<1>13. ASSUME NEW n, NEW S, KeepBase(n, S) PROVE Passes
  BY <1>13 DEF KeepBase, Blank, Passes
<1>6. CASE Unreadable
  <2>1. [NoRecord EXCEPT !.review = TRUE].homes = <<>> /\ [NoRecord EXCEPT !.review = TRUE].review
    BY DEF NoRecord
  <2> QED BY <1>6, <2>1 DEF Unreadable, Blank, Ends
<1>7. ASSUME NEW client, Laid(client) PROVE Passes \/ FindsRows
  BY <1>7 DEF Laid, Passes, FindsRows
<1>8. ASSUME NEW outcome, Ask(outcome) PROVE Passes
  BY <1>8 DEF Ask, GiveUp, Passes
<1>9. CASE Refuse
  BY <1>9 DEF Refuse, GiveUp, Passes
<1>10. CASE AskOnceMore
  BY <1>10 DEF AskOnceMore, Passes
<1>11. ASSUME NEW n, CrossCheck(n) PROVE Passes
  BY <1>11 DEF CrossCheck, Passes
<1> QED BY <1>1, <1>2, <1>3, <1>4, <1>5, <1>6, <1>7, <1>8, <1>9, <1>10, <1>11, <1>12, <1>13 DEF Next

(* Where the pairs are, and which tables they have.                         *)
TablesHeld ==
  /\ via = "spans, tables" => Tables(pairs) = doc.tables
  /\ via = "spans" => \A x \in doc.tables : AnswerTables = {} \/ x \in AnswerTables => x \in Tables(pairs)
HomeInv == WellPlaced(pairs) /\ TablesHeld /\ OneHome

LEMMA InitHomes == Init => HomeInv
BY DEF Init, HomeInv, WellPlaced, TablesHeld, OneHome, Done

(* Where the parts name every table, the parts have them all; otherwise     *)
(* every part is offered those that look like an answer.                    *)
LEMMA SpansHoldTables ==
  ASSUME NEW t, NEW parts, parts # {}, NEW tables, NEW answers
  PROVE  LET found == SpanPairs(t, parts, tables, answers) IN
         /\ NamesAll(t, parts, tables) => Tables(found) = tables
         /\ ~NamesAll(t, parts, tables) =>
              \A x \in tables : answers = {} \/ x \in answers => x \in Tables(found)
<1> DEFINE assigned == NamesAll(t, parts, tables)
           own(p) == IF assigned THEN Reconciled(t, parts, p) ELSE Offered(p, tables, answers)
           pair(p) == [at |-> p.question[1], label |-> Label(t, parts, p), span |-> p.answer,
                       words |-> Words(t, p.answer), tables |-> own(p)]
           found == SpanPairs(t, parts, tables, answers)
<1>1. found = {pair(p) : p \in parts}
  BY DEF SpanPairs
<1>2. \A p : pair(p).tables = own(p)
  OBVIOUS
<1> HIDE DEF pair
<1>3. Tables(found) = UNION {own(p) : p \in parts}
  BY <1>1, <1>2 DEF Tables
<1>4. assigned => UNION {own(p) : p \in parts} = tables
  <2> SUFFICES ASSUME assigned PROVE UNION {own(p) : p \in parts} = tables
    OBVIOUS
  <2>1. {own(p) : p \in parts} = {Reconciled(t, parts, p) : p \in parts}
    OBVIOUS
  <2> QED BY <2>1 DEF NamesAll
<1>5. ~assigned => \A x \in tables : answers = {} \/ x \in answers => \A p \in parts : x \in own(p)
  BY DEF Offered
<1> HIDE DEF assigned, own, found
<1>6. ~assigned => \A x \in tables : answers = {} \/ x \in answers => x \in Tables(found)
  BY <1>3, <1>5
<1> QED BY <1>3, <1>4, <1>6 DEF assigned, found

LEMMA NotSpannedHolds ==
  ASSUME ~Spanned
  PROVE  TablesHeld
BY DEF Spanned, TablesHeld

LEMMA NextHomes ==
  ASSUME IInv, HomeInv, [Next]_vars
  PROVE  HomeInv'
<1> USE DEF At, Goto
<1>1. doc.text \in Seq(STRING) /\ (stage \in {"crawl", "pick", "read"} => ~Spanned)
  BY DEF IInv, DocInv, LocatedInv
<1>2. CASE Passes
  <2>1. TablesHeld'
    BY <1>1, <1>2, NotSpannedHolds DEF HomeInv, TablesHeld, Passes, Spanned, AnswerTables
  <2> QED BY <1>2, <2>1 DEF HomeInv, Passes, OneHome, Done
<1>3. CASE Ends
  <2>1. ~Spanned'
    BY <1>1, <1>3 DEF Ends, Spanned
  <2>2. TablesHeld'
    BY <2>1 DEF Spanned, TablesHeld
  <2>3. OneHome'
    <3>1. DOMAIN record'.homes = {}
      BY <1>3 DEF Ends
    <3> QED BY <3>1 DEF OneHome
  <2> QED BY <1>3, <2>2, <2>3 DEF HomeInv, Ends
<1>4. CASE FindsRows
  <2>1. WellPlaced(pairs')
    BY <1>1, <1>4, RowsPlaced DEF FindsRows
  <2> QED BY <1>4, <2>1 DEF HomeInv, FindsRows, TablesHeld, OneHome, Done, WellPlaced
<1>5. ASSUME WellPlaced(pairs'), via' \notin {"spans", "spans, tables"}, stage' # "done"
      PROVE  HomeInv'
  BY <1>5 DEF HomeInv, TablesHeld, OneHome, Done, WellPlaced
<1>6. ASSUME NEW parts \in SomeParts(doc.text), AcceptSpans(parts)
      PROVE  HomeInv'
  <2> DEFINE all == Resolved(doc.text, parts)
             found == SpanPairs(doc.text, all, doc.tables, AnswerTables)
             named == NamesAll(doc.text, all, doc.tables)
  <2>1. parts \in SUBSET Parts(doc.text, PartLabels, doc.tables)
    BY DEF SomeParts
  <2>2. Accepted(doc.text, all) /\ UNCHANGED doc /\ all # {}
    BY <1>6 DEF AcceptSpans, Accepted
  <2>3. pairs' = found /\ via' = (IF named THEN "spans, tables" ELSE "spans") /\ stage' \in {"asking", "fields"}
    BY <1>6 DEF AcceptSpans, Extracted
  <2>4. WellPlaced(found)
    BY <1>1, <2>1, <2>2, SpansLocated, LocatedPlaced
  <2>5. /\ named => Tables(found) = doc.tables
        /\ ~named => \A x \in doc.tables : AnswerTables = {} \/ x \in AnswerTables => x \in Tables(found)
    BY <2>2, SpansHoldTables
  <2> HIDE DEF all, found, named
  <2>6. TablesHeld'
    BY <2>2, <2>3, <2>5 DEF TablesHeld, AnswerTables
  <2>7. WellPlaced(pairs)'
    BY <2>3, <2>4 DEF WellPlaced
  <2> QED BY <2>3, <2>6, <2>7 DEF HomeInv, OneHome, Done
<1>7. ASSUME NEW chosen \in SomePairs(doc.text), AcceptProse(chosen)
      PROVE  HomeInv'
  <2>1. /\ pairs' = ProsePairs(doc.text, chosen, doc.tables, AnswerTables) /\ via' = "prose"
        /\ stage' \in {"asking", "fields"}
    BY <1>7 DEF AcceptProse, Extracted
  <2>2. WellPlaced(pairs')
    BY <1>1, <2>1, ProsePlaced
  <2> QED BY <1>5, <2>1, <2>2
<1>8. CASE Split
  <2>1. pairs' = SplitPairs(doc.text, doc.tables) /\ via' = "rules" /\ stage' \in {"asking", "fields"}
    BY <1>8 DEF Split, Extracted
  <2>2. WellPlaced(pairs')
    BY <1>1, <2>1, SplitPlaced
  <2> QED BY <1>5, <2>1, <2>2
<1>9. CASE TakeWhole
  <2>1. pairs' = WholePair(doc.text, doc.tables) /\ via' = "whole" /\ stage' \in {"asking", "fields"}
    BY <1>9 DEF TakeWhole, Extracted
  <2>2. WellPlaced(pairs')
    BY <2>1, WholePlaced
  <2> QED BY <1>5, <2>1, <2>2
<1>10. CASE Fields
  <2> DEFINE assigned == via = "spans, tables"
  <2>1. UNCHANGED <<doc, pairs, via>>
    BY <1>10 DEF Fields
  <2>2. PICK review : record' = [Record(doc.text, Parted, assigned, doc.tables) EXCEPT !.review = review]
    BY <1>10 DEF Fields
  <2>3. assigned \in BOOLEAN /\ record'.homes = [x \in doc.tables |-> Homes(doc.text, Parted, assigned, x)]
    BY <2>2 DEF Record
  <2>4. WellPlaced(Parted)
    BY <1>1, PartedPlaced DEF HomeInv
  <2>5. Spanned => Parted = pairs
    BY DEF IInv, LocatedInv, Located, Parted, Modelled, Spanned
  <2> HIDE DEF assigned
  <2>6. \A x \in doc.tables : /\ Cardinality(record'.homes[x]) <= 1
                              /\ x \in Tables(Parted) => record'.homes[x] # {}
    BY <2>3, <2>4, HomesOnce
  <2>7. OneHome'
    BY <2>1, <2>3, <2>5, <2>6 DEF OneHome, HomeInv, TablesHeld, Spanned, AnswerTables
  <2>8. WellPlaced(pairs)' /\ TablesHeld'
    BY <2>1 DEF HomeInv, TablesHeld, AnswerTables
  <2> QED BY <2>7, <2>8 DEF HomeInv
<1>11. CASE UNCHANGED vars
  BY <1>11 DEF vars, HomeInv, TablesHeld, OneHome, Done, Spanned, AnswerTables
<1> QED BY <1>2, <1>3, <1>4, <1>6, <1>7, <1>8, <1>9, <1>10, <1>11, StepKinds

(* A table is in one answer, whoever claimed it, and one that was read is    *)
(* not left out where the model located the parts, unless the document has  *)
(* answer tables and it is none of them (_attach_tables_to_groups).         *)
THEOREM TablesHaveOneHome == Spec => []OneHome
<1>1. IInv /\ HomeInv /\ [Next]_vars => HomeInv'
  BY NextHomes
<1>2. HomeInv => OneHome
  BY DEF HomeInv
<1> QED BY IngestInvariant, InitHomes, <1>1, <1>2, PTL DEF Spec

-----------------------------------------------------------------------------
(* From its doubts to the review of a record.                               *)
TellsReplies ==
  \A tree \in Trees : \A d \in DOMAIN tree : \A f \in Candidates(tree[d]) : Content[f].isReply

DoubtInv ==
  /\ stage = "crawl" => doubt = {}
  /\ stage = "pick" => /\ doubt # {} => organised.status = "needs_review"
                       /\ \A f \in organised.latest : Content[f].isReply
  /\ stage \notin {"crawl", "pick", "done"} => (doubt # {} => flags \cap Triggers # {})
  /\ DoubtIsReviewed

LEMMA InitDoubts == Init => DoubtInv
BY DEF Init, DoubtInv, DoubtIsReviewed, Done

Grows ==
  /\ stage \notin {"crawl", "pick", "done"} /\ stage' \notin {"crawl", "pick", "done"}
  /\ flags \subseteq flags'
  /\ doubt' = doubt \/ "ocr_used" \in flags' \/ "format_conversion_unavailable" \in flags'

LEMMA GrowingDoubts ==
  ASSUME DoubtInv, Grows
  PROVE  DoubtInv'
<1>1. "ocr_used" \in Triggers /\ "format_conversion_unavailable" \in Triggers
  BY DEF Triggers
<1> QED BY <1>1 DEF DoubtInv, Grows, DoubtIsReviewed, Done

LEMMA PicksLatest ==
  ASSUME NEW S
  PROVE  FirstNamed(S) \subseteq S
BY DEF FirstNamed

LEMMA LatestAreReplies ==
  ASSUME TellsReplies, NEW tree \in Trees, NEW q
  PROVE  \A f \in Organised(q, tree).latest : Content[f].isReply
<1> DEFINE all == CandidatesOf(q, tree)
<1>1. \A c \in all : Content[c.file].isReply
  BY DEF TellsReplies, CandidatesOf, Group
<1>2. SelectLatest(all) \subseteq all
  BY SelectsCandidates
<1>3. Organised(q, tree).latest = {c.file : c \in SelectLatest(all)}
  BY DEF Organised
<1> HIDE DEF all
<1> QED BY <1>1, <1>2, <1>3

LEMMA NextDoubts ==
  ASSUME TellsReplies, IInv, HomeInv, DoubtInv, [Next]_vars
  PROVE  DoubtInv'
<1> USE DEF At, Goto
<1>1. ASSUME NEW tree \in Trees, NEW q \in DOMAIN tree, Crawl(q, tree) PROVE DoubtInv'
  <2>1. stage' = "pick" /\ organised' = Organised(q, tree)
    BY <1>1 DEF Crawl
  <2>2. doubt' # {} => Ambiguous(CandidatesOf(q, tree))
    BY <1>1 DEF Crawl
  <2>3. Ambiguous(CandidatesOf(q, tree)) => Flags(q, tree) # {}
    BY DEF Flags
  <2>4. Flags(q, tree) # {} => Organised(q, tree).status = "needs_review"
    BY DEF Organised
  <2> QED BY <2>1, <2>2, <2>3, <2>4, LatestAreReplies DEF DoubtInv, DoubtIsReviewed, Done
<1>2. CASE Pick
  <2>1. /\ stage = "pick" /\ stage' = (IF Picked.file = {} THEN "done" ELSE "read")
        /\ flags' = Phase1 \cup Picked.flags
        /\ record' = [NoRecord EXCEPT !.review = (Picked.file = {})]
        /\ doubt' = doubt \cup (IF \E f \in Picked.file : ~Content[f].isReply THEN {"question read"} ELSE {})
    BY <1>2 DEF Pick
  <2>2. CASE Picked.file = {}
    <3>1. record'.review
      BY <2>1, <2>2 DEF NoRecord
    <3> QED BY <2>1, <2>2, <3>1 DEF DoubtInv, DoubtIsReviewed
  <2>3. CASE Picked.file # {}
    <3>1. doubt # {} => "phase1_flagged" \in flags'
      BY <2>1 DEF DoubtInv, Phase1
    <3>2. (\E f \in Picked.file : ~Content[f].isReply) => "answer_from_all_versions_fallback" \in flags'
      <4>1. CASE organised.latest # {}
        <5>1. Picked.file \subseteq organised.latest
          BY <4>1, PicksLatest DEF Picked
        <5> QED BY <2>1, <5>1 DEF DoubtInv
      <4>2. CASE organised.latest = {}
        <5>1. Cardinality(organised.latest) # 1
          BY <4>2, FS_EmptySet
        <5>2. Picked.flags = {"answer_from_all_versions_fallback"}
          BY <2>3, <4>2, <5>1 DEF Picked
        <5> QED BY <2>1, <5>2
      <4> QED BY <4>1, <4>2
    <3>3. {"phase1_flagged", "answer_from_all_versions_fallback"} \subseteq Triggers
      BY DEF Triggers
    <3>4. doubt' # {} => flags' \cap Triggers # {}
      BY <2>1, <3>1, <3>2, <3>3
    <3> QED BY <2>1, <2>3, <3>4 DEF DoubtInv, DoubtIsReviewed, Done
  <2> QED BY <2>2, <2>3
<1>3. ASSUME NEW S, ReadDigital(S) PROVE Grows
  BY <1>3 DEF ReadDigital, Reading, Grows
<1>4. ASSUME NEW S, NEW outcome, ReadPicture(outcome, S) PROVE Grows
  BY <1>4 DEF ReadPicture, Reading, Grows
<1>5. ASSUME NEW converted, NEW raw, ReadOther(converted, raw) PROVE Grows
  BY <1>5 DEF ReadOther, Grows
<1>17. CASE ReadFails
  <2>1. Grows
    BY <1>17 DEF ReadFails, Grows
  <2> QED BY <2>1, GrowingDoubts
<1>18. ASSUME NEW n, NEW S, KeepBase(n, S) PROVE Grows
  BY <1>18 DEF KeepBase, Blank, Grows
<1>6. CASE Unreadable
  <2>1. stage' = "done" /\ record' = [NoRecord EXCEPT !.review = TRUE]
    BY <1>6 DEF Unreadable
  <2> QED BY <2>1 DEF NoRecord, DoubtInv, DoubtIsReviewed
<1>7. ASSUME NEW client, Laid(client) PROVE Grows
  BY <1>7 DEF Laid, Grows
<1>8. ASSUME NEW outcome, Ask(outcome) PROVE Grows
  BY <1>8 DEF Ask, GiveUp, Grows
<1>9. CASE Refuse
  <2>1. Grows
    BY <1>9 DEF Refuse, GiveUp, Grows
  <2> QED BY <2>1, GrowingDoubts
<1>10. CASE AskOnceMore
  <2>1. Grows
    BY <1>10 DEF AskOnceMore, Grows
  <2> QED BY <2>1, GrowingDoubts
<1>11. ASSUME NEW n, CrossCheck(n) PROVE Grows
  BY <1>11 DEF CrossCheck, Grows
<1>12. ASSUME NEW parts, AcceptSpans(parts) PROVE Grows
  BY <1>12 DEF AcceptSpans, Extracted, Grows
<1>13. ASSUME NEW chosen, AcceptProse(chosen) PROVE Grows
  BY <1>13 DEF AcceptProse, Extracted, Grows
<1>14. CASE Split \/ TakeWhole
  <2>1. Grows
    BY <1>14 DEF Split, TakeWhole, Extracted, Grows
  <2> QED BY <2>1, GrowingDoubts
<1>15. CASE Fields
  <2> DEFINE assigned == via = "spans, tables"
             all == flags \cup FieldFlags(doc.text, Parted, assigned)
  <2>1. /\ stage = "fields" /\ stage' = "done"
        /\ record' = [Record(doc.text, Parted, assigned, doc.tables) EXCEPT !.review = (all \cap Triggers # {})]
        /\ doubt' = doubt \cup (IF Empty(doc.text, Parted) # {} THEN {"no answer found"} ELSE {})
    BY <1>15 DEF Fields
  <2>2. record'.review = (all \cap Triggers # {})
    BY <2>1 DEF Record
  <2>3. doubt # {} => all \cap Triggers # {}
    BY <2>1 DEF DoubtInv
  <2>4. Empty(doc.text, Parted) # {} => "low_confidence_pair" \in all
    <3> SUFFICES ASSUME NEW p \in Parted, p.words = {} PROVE "low_confidence_pair" \in all
      BY DEF Empty
    <3>1. WellPlaced(Parted)
      BY PartedPlaced DEF IInv, DocInv, HomeInv
    <3> QED BY <3>1, EmptyIsLowConfidence DEF FieldFlags
  <2>5. "low_confidence_pair" \in Triggers
    BY DEF Triggers
  <2> HIDE DEF all
  <2>6. doubt' # {} => record'.review
    BY <2>1, <2>2, <2>3, <2>4, <2>5
  <2> QED BY <2>1, <2>6 DEF DoubtInv, DoubtIsReviewed
<1>16. CASE UNCHANGED vars
  BY <1>16 DEF vars, DoubtInv, DoubtIsReviewed, Done
<1> QED
  BY <1>1, <1>2, <1>3, <1>4, <1>5, <1>6, <1>7, <1>8, <1>9, <1>10, <1>11, <1>12, <1>13, <1>14, <1>15, <1>16,
     <1>17, <1>18, GrowingDoubts DEF Next

(* A record that rests on a guess is put before a human, if the crawler     *)
(* takes no question for a reply (parse_one).                               *)
THEOREM DoubtsAreReviewed ==
  ASSUME TellsReplies
  PROVE  Spec => []DoubtIsReviewed
<1>1. IInv /\ HomeInv /\ [Next]_vars => HomeInv'
  BY NextHomes
<1>2. IInv /\ HomeInv /\ DoubtInv /\ [Next]_vars => DoubtInv'
  BY NextDoubts
<1>3. DoubtInv => DoubtIsReviewed
  BY DEF DoubtInv
<1> QED BY IngestInvariant, InitHomes, InitDoubts, <1>1, <1>2, <1>3, PTL DEF Spec
==============================================================================
