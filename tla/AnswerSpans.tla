------------------------------ MODULE AnswerSpans ------------------------------
(***************************************************************************)
(* What the parser makes of the text of a reply: the line ranges a model   *)
(* proposes are verified and repaired (parse/spans.py), or the text is      *)
(* split by its answer markers (parse/extract.py); the parts found share    *)
(* answers, and every table goes to the answer it belongs to.               *)
(*                                                                         *)
(* A text is a sequence of lines, each reduced to what the code looks for: *)
(*   "text"       prose, "(a)", "(b)", "(c)" prose that begins with a label *)
(*   "title"      the document's opening line, "blank" an empty line        *)
(*   "marker"     an answer marker (Comment:, Reply:) followed by an answer *)
(*   "nil"        one whose answer is the standard wording, "bare" one that *)
(*   "pointer"    stands alone; and one whose answer points to a table      *)
(*   "row"        a row of a question-and-answer table, "more" one that     *)
(*                continues the row above                                   *)
(* A span is a pair of line numbers, None is no span.                       *)
(***************************************************************************)
EXTENDS FiniteSets, FiniteSetsExt, Integers, Sequences, SequencesExt

CONSTANT LastLetter   \* labels are numbers; those up to LastLetter are (a) .. (h)

ASSUME LetterAssumption == LastLetter \in Nat

Marks == {"marker", "nil", "bare", "pointer"}
Own(kind) == CASE kind = "(a)" -> 1 [] kind = "(b)" -> 2 [] kind = "(c)" -> 3 [] OTHER -> 0
None == <<1, 0>>

MarksOf(t) == {i \in DOMAIN t : t[i] \in Marks}
LinesOf(span) == span[1] .. span[2]
Spans(t) == {s \in (DOMAIN t) \X (DOMAIN t) : s[1] <= s[2]}
Within(t, span) == MarksOf(t) \cap LinesOf(span)
Solid(t, span) == {i \in LinesOf(span) : t[i] # "blank"}
BlockEnd(t, m) == Min({i - 1 : i \in {j \in MarksOf(t) : j > m}} \cup {Len(t)})

(* The lines an answer is made of: the bare marker it begins with has no    *)
(* words of its own.                                                        *)
Words(t, span) == {i \in Solid(t, span) : t[i] = "bare" => \E j \in Solid(t, span) : j < i}

-----------------------------------------------------------------------------
(* A proposed part: a label, its question and answer, the tables named.     *)

UsableQuestion(t, span) ==
  span[1] \notin MarksOf(t) /\ Solid(t, span) # {}
CutQuestion(t, span) ==
  IF Within(t, span) = {} THEN span ELSE <<span[1], Min(Within(t, span)) - 1>>
IsTitle(t, span) == t[Min(Solid(t, span))] = "title"

SnapAnswer(t, span) ==
  LET ahead == MarksOf(t) \cap (span[1] .. Min({span[2], span[1] + 2})) IN
  CASE span = None -> None
    [] span # None /\ ahead # {} -> <<Min(ahead), span[2]>>
    [] span # None /\ ahead = {} /\ span[1] > 1 /\ t[span[1] - 1] = "bare" -> <<span[1] - 1, span[2]>>
    [] OTHER -> span

Questions(t) ==
  {CutQuestion(t, s) : s \in {q \in Spans(t) : UsableQuestion(t, q) /\ UsableQuestion(t, CutQuestion(t, q))}}
Answers(t) == {SnapAnswer(t, s) : s \in Spans(t) \cup {None}}

(* The parts a proposal can come to; the title is dropped from it.          *)
Parts(t, labels, tables) ==
  [label: labels, question: {q \in Questions(t) : ~IsTitle(t, q)}, answer: Answers(t),
   named: SUBSET tables, isTable: {FALSE} \cup {tables # {}}]

(* A part without an answer is answered by the first block after it, in the *)
(* range the earliest other part gave that block.                           *)
Borrowed(t, parts, p) ==
  LET after == {m \in MarksOf(t) : m > p.question[1]} IN
  IF after = {} THEN None
  ELSE LET m == Min(after)
           sharers == {q \in parts : q.answer # None /\ q.answer[1] = m}
       IN IF sharers = {} THEN <<m, BlockEnd(t, m)>>
          ELSE (CHOOSE q \in sharers : \A r \in sharers : q.question[1] <= r.question[1]).answer

Resolved(t, parts) ==
  {[p EXCEPT !.answer = IF @ # None THEN @ ELSE Borrowed(t, parts, p)] : p \in parts}

Claimed(t, parts) == UNION {Within(t, p.answer) : p \in parts}

(* Mutant: a block nobody claims is no error.                               *)
Missed_Ignored(t, parts) == {}
Missed(t, parts) == MarksOf(t) \ Claimed(t, parts)

Accepted(t, parts) ==
  /\ parts # {}
  /\ \A p, q \in parts : p # q => /\ LinesOf(p.question) \cap LinesOf(q.question) = {}
                                  /\ p.label # q.label
  /\ Missed(t, parts) = {}

-----------------------------------------------------------------------------
(* What extraction hands on: pairs, in the order of their questions (at),   *)
(* each with its label, where its answer stands (span), the words of it     *)
(* and its tables.                                                          *)

PointsToTable(t, words) == \E i \in words : t[i] = "pointer"
Nth(pairs, p) == 1 + Cardinality({q \in pairs : q.at < p.at})

(* A table named by parts of different answers stays with the only one that *)
(* points to a table.                                                       *)
Reconciled(t, parts, p) ==
  LET claimants(x) == {q \in parts : x \in q.named}
      pointing(x) == {q \in claimants(x) : PointsToTable(t, Words(t, q.answer))}
  IN {x \in p.named : Cardinality({q.answer : q \in claimants(x)}) > 1 /\ Cardinality(pointing(x)) = 1
                      => p \in pointing(x)}

NamesAll(t, parts, tables) == UNION {Reconciled(t, parts, p) : p \in parts} = tables

(* Without an assignment by the model every part gets every table, one whose *)
(* answer is a table those that look like an answer.                        *)
Offered(p, tables, answers) == IF p.isTable /\ answers # {} THEN answers ELSE tables

(* A label printed in the question goes before the one the model gave; one  *)
(* that is no letter from a to h gives way to the place of the question.    *)
Label(t, parts, p) ==
  LET own == Own(t[Min(Solid(t, p.question))])
      place == 1 + Cardinality({q \in parts : q.question[1] < p.question[1]})
  IN IF own # 0 THEN own ELSE IF p.label <= LastLetter THEN p.label ELSE place

SpanPairs(t, parts, tables, answers) ==
  LET assigned == NamesAll(t, parts, tables) IN
  {[at |-> p.question[1], label |-> Label(t, parts, p), span |-> p.answer,
    words |-> Words(t, p.answer),
    tables |-> IF assigned THEN Reconciled(t, parts, p) ELSE Offered(p, tables, answers)] : p \in parts}

-----------------------------------------------------------------------------
(* The older contract: the model gives each question the number of a block. *)

LabelLines(t) == {i \in DOMAIN t : t[i] \in {"(a)", "(b)", "(c)"}}
Prose(t) == {i \in DOMAIN t : t[i] \in {"text"} \cup {"(a)", "(b)", "(c)"}}

(* An answer block ends before the next label or the next marker.           *)
Block(t, m) == Words(t, <<m, Min({i - 1 : i \in {j \in MarksOf(t) \cup LabelLines(t) : j > m}} \cup {Len(t)})>>)
Blocks(t) == {Block(t, m) : m \in MarksOf(t)} \ {{}}

(* An answer left empty is looked for between its question and the next.    *)
Recovered(t, pairs, p) ==
  LET end == Min({q.at - 1 : q \in {r \in pairs : r.at > p.at}} \cup {Len(t)})
      found == MarksOf(t) \cap (p.at .. end)
  IN IF p.words # {} \/ p.isTable \/ found = {} THEN p.words ELSE Words(t, <<Min(found), end>>)

ProsePairs(t, chosen, tables, answers) ==
  {[at |-> p.at, label |-> IF Own(t[p.at]) # 0 THEN Own(t[p.at]) ELSE Nth(chosen, p), span |-> None,
    words |-> Recovered(t, chosen, p),
    tables |-> Offered(p, tables, answers)] : p \in chosen}

-----------------------------------------------------------------------------
(* The split by markers alone.  With two labels or more the labels are the  *)
(* questions, otherwise the prose before the first marker is; text before   *)
(* a run that begins at (b) is question (a).                                *)

SplitQuestions(t) ==
  LET first == Min(MarksOf(t))
      head == {i \in Prose(t) : i < Min(LabelLines(t))}
  IN IF Cardinality(LabelLines(t)) < 2 THEN {i \in Prose(t) : i < first}
     ELSE LabelLines(t) \cup (IF head # {} /\ t[Min(LabelLines(t))] = "(b)" THEN {Min(head)} ELSE {})

SplitBlock(t, m) ==
  LET stops == MarksOf(t) \cup IF Cardinality(LabelLines(t)) < 2 THEN {} ELSE SplitQuestions(t)
  IN Words(t, <<m, Min({i - 1 : i \in {j \in stops : j > m}} \cup {Len(t)})>>)

(* Questions first: answers are given out in order, the last is shared or   *)
(* takes the rest.  Otherwise a question has the blocks before the next one *)
(* and, with none, what the next question with words has.                   *)
SplitWords(t, i) ==
  LET qs == SetToSortSeq(SplitQuestions(t), <)
      ms == SetToSortSeq(MarksOf(t), <)
      n == Cardinality({q \in SplitQuestions(t) : q <= i})
      own(k) == UNION {SplitBlock(t, m) : m \in {x \in MarksOf(t) : /\ qs[k] <= x
                                                                    /\ k < Len(qs) => x < qs[k + 1]}}
      later == {k \in n .. Len(qs) : own(k) # {}}
  IN IF qs[Len(qs)] < ms[1] /\ Len(ms) > 1
     THEN IF n < Len(qs) \/ Len(ms) <= Len(qs) THEN SplitBlock(t, ms[Min({n, Len(ms)})])
          ELSE UNION {SplitBlock(t, ms[k]) : k \in n .. Len(ms)}
     ELSE IF later = {} THEN {} ELSE own(Min(later))

Splits(t) == MarksOf(t) # {} /\ SplitQuestions(t) # {}
SplitPairs(t, tables) ==
  {[at |-> i, label |-> 1 + Cardinality({q \in SplitQuestions(t) : q < i}), span |-> None,
    words |-> SplitWords(t, i), tables |-> tables] : i \in SplitQuestions(t)}

(* Nothing to split at: one question, answered by what follows a marker or  *)
(* by the whole text.                                                       *)
WholeWords(t) ==
  {i \in DOMAIN t : t[i] \notin {"blank", "bare", "row", "more"} /\ \A m \in MarksOf(t) : Min(MarksOf(t)) <= i}
WholePair(t, tables) ==
  {[at |-> 1, label |-> 0, span |-> None, words |-> WholeWords(t), tables |-> tables]}

(* A row of a question-and-answer table is a pair with the rows that        *)
(* continue it; the table itself stays with every pair.                     *)
Rows(t) == {i \in DOMAIN t : t[i] = "row" \/ (t[i] = "more" /\ \A j \in 1 .. i - 1 : t[j] \notin {"row", "more"})}
Stitched(t) == {i \in DOMAIN t : t[i] = "more"} \ Rows(t)
RowPairs(t, tables) ==
  {[at |-> i, label |-> 1 + Cardinality({j \in Rows(t) : j < i}), span |-> None,
    words |-> i .. Min({j - 1 : j \in {k \in Rows(t) : k > i}} \cup {Len(t)}),
    tables |-> tables] : i \in Rows(t)}

-----------------------------------------------------------------------------
(* Pairs share an answer if their answers stand in one place; when no place *)
(* is known, if they have the same words (the standard wording is the same  *)
(* wherever it stands).                                                     *)

Wording(t, words) == {IF t[i] = "nil" THEN 0 ELSE i : i \in words}
SameWords(t, p, q) == p.words # {} /\ Wording(t, p.words) = Wording(t, q.words)

(* Mutant: wording decides on the span path too.                            *)
SameAnswer_ByWording(t, pairs, p, q) == p = q \/ SameWords(t, p, q)

SameAnswer(t, pairs, p, q) ==
  \/ p = q
  \/ (\E r \in pairs : r.span # None) /\ p.span # None /\ p.span = q.span
  \/ (\A r \in pairs : r.span = None) /\ SameWords(t, p, q)

(* A group is known by the places of its pairs.  A part finds its group by  *)
(* its label: the last pair with the label has the say.                     *)
GroupOf(t, pairs, p) == {q.at : q \in {r \in pairs : SameAnswer(t, pairs, p, r)}}
Groups(t, pairs) == {GroupOf(t, pairs, p) : p \in pairs}
Members(pairs, g) == {p \in pairs : p.at \in g}
LastOf(pairs, label) ==
  CHOOSE p \in pairs : p.label = label /\ \A q \in pairs : q.label = label => q.at <= p.at
Found(t, pairs, p) == GroupOf(t, pairs, LastOf(pairs, p.label))

(* The answer of a group is that of its first pair.                         *)
GroupWords(pairs, g) == (CHOOSE p \in Members(pairs, g) : \A q \in Members(pairs, g) : p.at <= q.at).words

-----------------------------------------------------------------------------
(* The group a part's tables go to is the last one that lists its label.    *)
Opened(t, pairs, p) == Min(GroupOf(t, pairs, p))
HomeOfLabel(t, pairs, label) ==
  CHOOSE g \in Groups(t, pairs) :
    /\ \E p \in Members(pairs, g) : p.label = label
    /\ \A h \in Groups(t, pairs) : (\E p \in Members(pairs, h) : p.label = label) => Min(h) <= Min(g)

(* Mutant: every part that has the table puts it in its group.              *)
Placed_Everywhere(t, pairs, x) ==
  {HomeOfLabel(t, pairs, p.label) : p \in {q \in pairs : x \in q.tables}}

(* The first part that has the table takes it.                              *)
Placed(t, pairs, x) ==
  LET having == {q \in pairs : x \in q.tables} IN
  {HomeOfLabel(t, pairs, p.label) : p \in {q \in having : \A r \in having : q.at <= r.at}}

Tables(pairs) == UNION {p.tables : p \in pairs}
Pointers(t, pairs) == {g \in Groups(t, pairs) : PointsToTable(t, GroupWords(pairs, g))}
LeastLabel(pairs, g) == Min({p.label : p \in Members(pairs, g)})

(* Tables the model did not assign: to the only group; one to each group    *)
(* that points to a table; to the only such group; in turn; to the last.    *)
Dealt(t, pairs, x) ==
  LET groups == Groups(t, pairs)
      pointers == SetToSortSeq(Pointers(t, pairs), LAMBDA g, h : LeastLabel(pairs, g) < LeastLabel(pairs, h))
      nth == Cardinality({y \in Tables(pairs) : y < x})
  IN IF Cardinality(groups) = 1 THEN groups
     ELSE IF pointers # <<>> THEN {pointers[1 + (nth % Len(pointers))]}
     ELSE {CHOOSE g \in groups : \A h \in groups : Min(h) <= Min(g)}

Guessed(t, pairs) ==
  /\ Tables(pairs) # {} /\ Cardinality(Groups(t, pairs)) > 1
  /\ Cardinality(Pointers(t, pairs)) \notin {1, Cardinality(Tables(pairs))}

Homes(t, pairs, assigned, x) ==
  IF x \notin Tables(pairs) THEN {} ELSE IF assigned THEN Placed(t, pairs, x) ELSE Dealt(t, pairs, x)
=============================================================================
