------------------------------ MODULE ReplyIngest ------------------------------
(***************************************************************************)
(* A question on its way from the source tree to parsed.json: the crawler   *)
(* organises its folders, and parse_one picks a file, reads it page by     *)
(* page, has a model find the questions and their answers (or falls back),  *)
(* and builds the record.  What the walk itself may do to the copies is in  *)
(* Corpus; here the question is what becomes of the content.                *)
(* Of the flags of a record those are kept that make it one for review.     *)
(***************************************************************************)
EXTENDS CrawlSelect, AnswerSpans, ModelClient

CONSTANTS
  Trees,       \* source trees: functions from some folders to their files
  Content,     \* [Files -> what is in a file, see FileContent]
  RawLines,    \* the letters among the bytes of a file that was not converted
  Clients,     \* llm_backend: "none" (deterministic), "groq", "gemini", "local"
  MaxAttempts, \* llm_max_retries + 1
  CrossChecked,\* llm_crosscheck
  PartLabels   \* the labels a model gives

(* The pages of a file with their lines and tables; the tables that look    *)
(* like an answer; whether its layout is a question-and-answer table, whose *)
(* columns are known or not, or an e-mail; whether it bears a diary number;  *)
(* and what it really is.                                                   *)
FileContent ==
  [pages: Seq([type: {"digital", "scanned", "image"}, lines: Seq(STRING), tables: SUBSET Nat]),
   answers: SUBSET Nat, layout: {"prose", "email", "qa", "qa guessed"}, diary: BOOLEAN, isReply: BOOLEAN]

ASSUME IngestAssumption ==
  /\ \A f \in Files : Content[f] \in FileContent
  /\ \A f \in Files : Says[f].ext \in {"docx", "doc", "xlsx", "txt", "rtf"} => Len(Content[f].pages) = 1
  /\ \A tree \in Trees : \A d \in DOMAIN tree : tree[d].top \subseteq Files /\ tree[d].reply \subseteq Files
  /\ RawLines \in Seq(STRING)
  /\ Clients \subseteq {"none", "groq", "gemini", "local"}
  /\ MaxAttempts \in Nat \ {0} /\ CrossChecked \in BOOLEAN /\ PartLabels \subseteq Nat

VARIABLES
  stage,       \* where the question is
  organised,   \* its organised folder and metadata.json
  doc,         \* the document read: file, page, text, tables
  call,        \* the request to the model: client, purpose, attempt, tries
  pairs,       \* what extraction found
  via,         \* how: "spans", "prose", "rules", "whole", "rows"
  flags,       \* extraction_flags
  record,      \* parsed.json
  doubt        \* for the properties: what there is to doubt about the record

vars == <<stage, organised, doc, call, pairs, via, flags, record, doubt>>

NoFolder == [latest |-> {}, versions |-> {}, questions |-> {}, status |-> "ok"]
NoDoc == [file |-> {}, page |-> 0, text |-> <<>>, tables |-> {}]
NoCall == [client |-> "none", for |-> "none", attempt |-> 0, tries |-> 0]
NoRecord == [subs |-> {}, groups |-> {}, homes |-> <<>>, review |-> FALSE]

Policy(client) == CASE client = "groq" -> Groq [] client = "gemini" -> Gemini [] OTHER -> Local
The(S) == CHOOSE x \in S : TRUE

(* Mutant: groups without an answer are not looked for.                     *)
Triggers_Few ==
  {"phase1_flagged", "ambiguous_latest_reply", "answer_from_all_versions_fallback", "no_answer_file",
   "empty_or_unreadable", "ocr_used", "format_converted", "format_conversion_unavailable"}

Triggers ==
  {"phase1_flagged", "ambiguous_latest_reply", "answer_from_all_versions_fallback", "no_answer_file",
   "empty_or_unreadable", "ocr_used", "format_converted", "format_conversion_unavailable",
   "email_wrapper_reply_may_be_attachment", "qa_table_columns_inferred", "qa_table_row_stitched",
   "empty_answer_after_recovery", "no_diary_number_found", "qa_count_mismatch", "table_group_uncertain",
   "llm_crosscheck_disagree", "low_confidence_pair"}

Init ==
  /\ stage = "crawl" /\ organised = NoFolder /\ doc = NoDoc /\ call = NoCall
  /\ pairs = {} /\ via = "none" /\ flags = {} /\ record = NoRecord /\ doubt = {}

At(s) == stage = s
Goto(s) == stage' = s

-----------------------------------------------------------------------------
Crawl(q, tree) ==
  /\ At("crawl") /\ Group(q, tree) # {} /\ Goto("pick")
  /\ organised' = Organised(q, tree)
  /\ doubt' = IF Ambiguous(CandidatesOf(q, tree)) THEN {"several latest"} ELSE {}
  /\ UNCHANGED <<doc, call, pairs, via, flags, record>>

FirstNamed(S) == {f \in S : \A g \in S : Says[f].order <= Says[g].order}
Readable == {f \in organised.versions : Says[f].ext \in {"pdf", "docx", "doc", "xlsx", "txt", "rtf"}}

(* The picked file and what is flagged with it.                             *)
Picked ==
  IF Cardinality(organised.latest) = 1 THEN [file |-> organised.latest, flags |-> {}]
  ELSE IF organised.latest # {} THEN [file |-> FirstNamed(organised.latest), flags |-> {"ambiguous_latest_reply"}]
  ELSE IF Readable # {} THEN [file |-> FirstNamed(Readable), flags |-> {"answer_from_all_versions_fallback"}]
  ELSE [file |-> {}, flags |-> {"no_answer_file"}]

Phase1 == IF organised.status = "needs_review" THEN {"phase1_flagged"} ELSE {}

Pick ==
  /\ At("pick") /\ Goto(IF Picked.file = {} THEN "done" ELSE "read")
  /\ flags' = Phase1 \cup Picked.flags
  /\ doc' = [NoDoc EXCEPT !.file = Picked.file]
  /\ organised' = NoFolder
  /\ record' = [NoRecord EXCEPT !.review = (Picked.file = {})]
  /\ doubt' = doubt \cup (IF \E f \in Picked.file : ~Content[f].isReply THEN {"question read"} ELSE {})
  /\ UNCHANGED <<call, pairs, via>>

-----------------------------------------------------------------------------
(* read_document.  Of a PDF every page is read as what it is; of anything   *)
(* else the text is there at once, is converted first, or is not there.     *)

Ext == Says[The(doc.file)].ext
Pages == Content[The(doc.file)].pages
Page == Pages[doc.page + 1]
Reading == At("read") /\ Ext = "pdf" /\ doc.page < Len(Pages)
NextPage(lines, tables) ==
  doc' = [doc EXCEPT !.page = @ + 1, !.text = @ \o lines, !.tables = @ \cup tables]

(* The tables of a page come from a service, which may fail for a page.     *)
ReadDigital(tables) ==
  /\ Reading /\ Page.type = "digital"
  /\ NextPage(Page.lines, tables)
  /\ UNCHANGED <<stage, organised, call, pairs, via, flags, record, doubt>>

(* A scanned page flags the document whatever comes of it; a page that is   *)
(* an image does not.                                                       *)
ReadPicture(outcome, tables) ==
  /\ Reading /\ Page.type # "digital"
  /\ flags' = flags \cup (IF Page.type = "scanned" THEN {"ocr_used"} ELSE {})
  /\ doubt' = doubt \cup (IF Page.type = "scanned" THEN {"page recognised"} ELSE {})
  /\ IF AsksAgain(Vision, Tried(call.tries), outcome)
     THEN call' = [call EXCEPT !.tries = Tried(@)] /\ doc' = doc
     ELSE /\ call' = NoCall
          /\ NextPage(IF Succeeds(Vision, outcome) THEN Page.lines ELSE <<>>, tables)
  /\ UNCHANGED <<stage, organised, pairs, via, record>>

(* What could not be converted is read as the letters among its bytes, if   *)
(* there are enough of them.                                                *)
Legacy == Ext \in {"doc", "rtf"}
ReadOther(converted, raw) ==
  /\ At("read") /\ Ext # "pdf" /\ doc.page = 0
  /\ flags' = flags \cup (IF ~Legacy THEN {}
                          ELSE IF converted THEN {"format_converted"} ELSE {"format_conversion_unavailable"})
  /\ IF Ext \in {"docx", "xlsx", "txt"} \/ (Legacy /\ converted)
     THEN NextPage(Pages[1].lines, Pages[1].tables)
     ELSE NextPage(IF Legacy /\ raw THEN RawLines ELSE <<>>, {})
  /\ doubt' = doubt \cup (IF Legacy /\ ~converted /\ raw THEN {"raw bytes read"} ELSE {})
  /\ UNCHANGED <<stage, organised, call, pairs, via, record>>

LastPage == IF Ext = "pdf" THEN Len(Pages) ELSE 1
ReadAll == doc.page = LastPage
Blank == At("read") /\ ReadAll /\ doc.text = <<>> /\ doc.tables = {}

(* read_document never raises: a file no parser opens has nothing in it.    *)
ReadFails ==
  /\ At("read") /\ doc.page = 0 /\ call = NoCall
  /\ doc' = [doc EXCEPT !.page = LastPage]
  /\ UNCHANGED <<stage, organised, call, pairs, via, flags, record, doubt>>

(* No page gave anything as what it is taken for: what the text parser saw  *)
(* on them is kept, if it saw anything.  Bound: it saw it on one page.      *)
KeepBase(n, tables) ==
  /\ Blank /\ Ext = "pdf" /\ (Pages[n].lines # <<>> \/ tables # {})
  /\ doc' = [doc EXCEPT !.text = Pages[n].lines, !.tables = tables]
  /\ UNCHANGED <<stage, organised, call, pairs, via, flags, record, doubt>>

(* Nothing to extract from.                                                 *)
Unreadable ==
  /\ Blank /\ Goto("done") /\ flags' = flags \cup {"empty_or_unreadable"}
  /\ record' = [NoRecord EXCEPT !.review = TRUE]
  /\ UNCHANGED <<organised, doc, call, pairs, via, doubt>>

-----------------------------------------------------------------------------
Layout == Content[The(doc.file)].layout
AnswerTables == Content[The(doc.file)].answers \cap doc.tables

Laid(client) ==
  /\ At("read") /\ ReadAll /\ (doc.text # <<>> \/ doc.tables # {})
  /\ flags' = flags \cup (CASE Layout = "email" -> {"email_wrapper_reply_may_be_attachment"}
                            [] Layout = "qa guessed" -> {"qa_table_columns_inferred"}
                            [] OTHER -> {})
                    \cup (IF Layout \in {"qa", "qa guessed"} /\ Stitched(doc.text) # {}
                          THEN {"qa_table_row_stitched"} ELSE {})
  /\ IF Layout \in {"qa", "qa guessed"}
     THEN Goto("fields") /\ pairs' = RowPairs(doc.text, doc.tables) /\ via' = "rows" /\ call' = NoCall
     ELSE /\ Goto(IF client = "none" THEN "rules" ELSE "asking")
          /\ call' = [NoCall EXCEPT !.client = client, !.attempt = IF client = "none" THEN 0 ELSE 1,
                                    !.for = IF client = "none" THEN "none"
                                            ELSE IF doc.text = <<>> THEN "prose" ELSE "spans"]
          /\ UNCHANGED <<pairs, via>>
  /\ UNCHANGED <<organised, doc, record, doubt>>

(* One request: the client asks again as its policy says; a request that    *)
(* fails ends what it was for, and so does the last answer refused.         *)
GiveUp ==
  IF call.for = "spans"
  THEN Goto("asking") /\ call' = [call EXCEPT !.for = "prose", !.attempt = 1, !.tries = 0]
  ELSE /\ Goto(IF call.for = "count" THEN "fields" ELSE "rules")
       /\ call' = [call EXCEPT !.attempt = 0, !.tries = 0]

Ask(outcome) ==
  /\ At("asking")
  /\ LET n == Tried(call.tries) IN
     \/ Succeeds(Policy(call.client), outcome) /\ Goto("judging") /\ call' = [call EXCEPT !.tries = 0]
     \/ AsksAgain(Policy(call.client), n, outcome) /\ stage' = stage /\ call' = [call EXCEPT !.tries = n]
     \/ Fails(Policy(call.client), n, outcome) /\ GiveUp
  /\ UNCHANGED <<organised, doc, pairs, via, flags, record, doubt>>

(* An answer that does not pass is sent back with what is wrong with it.    *)
Refuse ==
  /\ At("judging") /\ call.for # "count"
  /\ IF call.attempt < MaxAttempts
     THEN Goto("asking") /\ call' = [call EXCEPT !.attempt = @ + 1]
     ELSE GiveUp
  /\ UNCHANGED <<organised, doc, pairs, via, flags, record, doubt>>

Extracted(found, how) ==
  /\ pairs' = found /\ via' = how
  /\ IF CrossChecked /\ call.client # "none"
     THEN Goto("asking") /\ call' = [call EXCEPT !.for = "count", !.attempt = 1, !.tries = 0]
     ELSE Goto("fields") /\ call' = NoCall

AcceptSpans(parts) ==
  /\ At("judging") /\ call.for = "spans"
  /\ LET all == Resolved(doc.text, parts) IN
     /\ Accepted(doc.text, all)
     /\ Extracted(SpanPairs(doc.text, all, doc.tables, AnswerTables),
                  IF NamesAll(doc.text, all, doc.tables) THEN "spans, tables" ELSE "spans")
  /\ UNCHANGED <<organised, doc, flags, record, doubt>>

(* An accepted list of pairs may be empty.                                  *)
AcceptProse(chosen) ==
  /\ At("judging") /\ call.for \in {"prose", "prose again"}
  /\ Extracted(ProsePairs(doc.text, chosen, doc.tables, AnswerTables), "prose")
  /\ flags' = flags \cup (IF \E p \in chosen : ~p.isTable /\ Recovered(doc.text, chosen, p) = {}
                          THEN {"empty_answer_after_recovery"} ELSE {})
  /\ UNCHANGED <<organised, doc, record, doubt>>

(* The text is split by its markers; one that cannot be split goes to the   *)
(* model once more, if there is one, and then is one pair.                  *)
Split ==
  /\ At("rules") /\ Splits(doc.text) /\ Extracted(SplitPairs(doc.text, doc.tables), "rules")
  /\ UNCHANGED <<organised, doc, flags, record, doubt>>

AskOnceMore ==
  /\ At("rules") /\ ~Splits(doc.text) /\ call.client # "none" /\ call.for = "prose"
  /\ Goto("asking") /\ call' = [call EXCEPT !.for = "prose again", !.attempt = 1]
  /\ UNCHANGED <<organised, doc, pairs, via, flags, record, doubt>>

TakeWhole ==
  /\ At("rules") /\ ~Splits(doc.text) /\ (call.client = "none" \/ call.for = "prose again")
  /\ Extracted(WholePair(doc.text, doc.tables), "whole")
  /\ UNCHANGED <<organised, doc, flags, record, doubt>>

(* The count of answers is compared with what was found; one more or less   *)
(* is let pass, and no count says nothing.                                  *)
CrossCheck(n) ==
  LET found == Cardinality({Wording(doc.text, p.words) : p \in {q \in pairs : q.words # {}}}) IN
  /\ At("judging") /\ call.for = "count" /\ Goto("fields") /\ call' = NoCall
  /\ flags' = flags \cup (IF n # 0 /\ (n - found >= 2 \/ found - n >= 2) THEN {"llm_crosscheck_disagree"} ELSE {})
  /\ UNCHANGED <<organised, doc, pairs, via, record, doubt>>

-----------------------------------------------------------------------------
(* build_document_fields: what a model found is taken, otherwise the text   *)
(* is split anew; the tables are those of the pairs.                        *)

Modelled == via \in {"spans", "spans, tables", "prose"} /\ pairs # {}
Parted ==
  IF Modelled THEN pairs
  ELSE IF Splits(doc.text) THEN SplitPairs(doc.text, Tables(pairs))
  ELSE IF Cardinality(pairs) > 1 THEN pairs
  ELSE WholePair(doc.text, Tables(pairs))

Record(t, parted, assigned, read) ==
  [subs |-> {[at |-> p.at, label |-> p.label, span |-> p.span, group |-> Found(t, parted, p)] : p \in parted},
   groups |-> {[id |-> g, words |-> GroupWords(parted, g)] : g \in Groups(t, parted)},
   homes |-> [x \in read |-> Homes(t, parted, assigned, x)],
   review |-> FALSE]

Empty(t, parted) == {p \in parted : p.words = {}}
FieldFlags(t, parted, assigned) ==
  (IF Content[The(doc.file)].diary THEN {} ELSE {"no_diary_number_found"})
  \cup (IF /\ Cardinality(parted) > 1 /\ Empty(t, parted) # {}
           /\ \A g \in Groups(t, parted) : Cardinality(g) = 1 THEN {"qa_count_mismatch"} ELSE {})
  \cup (IF ~assigned /\ Guessed(t, parted) THEN {"table_group_uncertain"} ELSE {})
  \cup (IF \E g \in Groups(t, parted) : GroupWords(parted, g) = {} THEN {"low_confidence_pair"} ELSE {})

Fields ==
  /\ At("fields") /\ Goto("done")
  /\ LET assigned == via = "spans, tables"
         all == flags \cup FieldFlags(doc.text, Parted, assigned)
     IN /\ flags' = all
        /\ record' = [Record(doc.text, Parted, assigned, doc.tables) EXCEPT !.review = (all \cap Triggers # {})]
  /\ doubt' = doubt \cup (IF Empty(doc.text, Parted) # {} THEN {"no answer found"} ELSE {})
  /\ UNCHANGED <<organised, doc, call, pairs, via>>

-----------------------------------------------------------------------------
(* Bound: proposals of one part or two, lists of at most two pairs.         *)
SomeParts(t) == {{p, q} : p, q \in Parts(t, PartLabels, doc.tables)}
SomePairs(t) ==
  LET choices == [at: Prose(t), words: Blocks(t) \cup {{}}, isTable: BOOLEAN] IN
  {{}} \cup {C \in {{p, q} : p, q \in choices} : \A p, q \in C : p # q => p.at # q.at}

Next ==
  \/ \E tree \in Trees : \E q \in DOMAIN tree : Crawl(q, tree)
  \/ Pick
  \/ Reading /\ \E S \in {{}, Page.tables} :
       ReadDigital(S) \/ \E outcome \in Outcomes : ReadPicture(outcome, S)
  \/ \E converted, raw \in BOOLEAN : ReadOther(converted, raw)
  \/ ReadFails
  \/ Blank /\ \E n \in DOMAIN Pages : \E S \in {{}, Pages[n].tables} : KeepBase(n, S)
  \/ Unreadable
  \/ \E client \in Clients : Laid(client)
  \/ \E outcome \in Outcomes : Ask(outcome)
  \/ Refuse
  \/ At("judging") /\ call.for = "spans" /\ \E parts \in SomeParts(doc.text) : AcceptSpans(parts)
  \/ At("judging") /\ call.for \in {"prose", "prose again"} /\ \E chosen \in SomePairs(doc.text) : AcceptProse(chosen)
  \/ Split \/ AskOnceMore \/ TakeWhole
  \/ \E n \in 0 .. 4 : CrossCheck(n)
  \/ Fields

Spec == Init /\ [][Next]_vars

-----------------------------------------------------------------------------
(* What could go wrong.                                                     *)

Done == stage = "done"
Spanned == via \in {"spans", "spans, tables"}

(* Every answer block of a reply reaches an officer: where the model located *)
(* the parts, each block stands in the answer some sub-question points to,   *)
(* after repair, sharing, grouping and the lookup by label (spans.py 250-282, *)
(* extract.py _group_answers and build_document_fields).                     *)
EveryBlockReaches ==
  Done /\ Spanned =>
    \A m \in MarksOf(doc.text) :
      \E s \in record.subs : \E g \in record.groups :
        /\ m \in LinesOf(s.span) /\ s.group = g.id
        /\ doc.text[m] # "bare" => m \in g.words

(* Sub-questions share an answer exactly when the model located both answers *)
(* in one place: blocks with the same standard wording stay apart            *)
(* (extract.py 563-621, "IDENTITY, NOT WORDING").                            *)
SharedIffSameSpan ==
  Done /\ Spanned =>
    \A s, u \in record.subs :
      s # u => (s.group = u.group <=> (s.span = u.span /\ s.span # None))

(* A table is in one answer, whoever claimed it, and one that was read is    *)
(* not left out where the model located the parts, unless the document has   *)
(* answer tables and it is none of them (extract.py 430-521).                *)
OneHome ==
  Done => \A x \in DOMAIN record.homes :
            /\ Cardinality(record.homes[x]) <= 1
            /\ via = "spans, tables" \/ (Spanned /\ (AnswerTables = {} \/ x \in AnswerTables))
                 => record.homes[x] # {}

(* A record that rests on a guess is put before a human: several replies     *)
(* that could be the latest, a question read in place of its reply, text     *)
(* recognised from a scan or picked from the bytes of a file that could not  *)
(* be converted, a question nothing answers (pipeline.py 265-285 with the    *)
(* flags of the crawler, the reader and the extractor).                      *)
DoubtIsReviewed == Done /\ doubt # {} => record.review

-----------------------------------------------------------------------------
(* What comments of the code say and the code does not do.                   *)

(* "a file that lands here is flagged for review" (extract.py 819-821).      *)
FallbackIsReviewed == Done /\ via = "rules" => record.review

(* sub_question_id is "globally unique" (extract.py 253).                    *)
IdsAreUnique == Done => \A s, u \in record.subs : s.label = u.label => s = u

(* "a detected table is NEVER dropped" (extract.py 2013-2016).               *)
TablesAreKept == Done => \A x \in DOMAIN record.homes : record.homes[x] # {}

(* "Exclude the identified question file itself" from the replies            *)
(* (crawler.py 813): the file of the question is not read as the answer      *)
(* of a record that nobody reviews.                                          *)
QuestionIsNoReply ==
  Done /\ doc.file # {} /\ ~record.review => \A f \in doc.file : Content[f].isReply

(* "only report what it did not claim" (crawler.py 993-996): a folder is     *)
(* taken or reported.                                                        *)
EveryFolderSeen ==
  At("crawl") => \A tree \in Trees : \A d \in DOMAIN tree : Walked(d, tree) \/ Reported(d, tree)
=============================================================================
