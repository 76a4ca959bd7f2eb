------------------------------ MODULE CrawlSelect ------------------------------
(***************************************************************************)
(* How the crawler (pipeline/crawl/crawler.py) finds the folders of one     *)
(* question in the source tree, tells its question from its reply, and      *)
(* what it puts into the question's organised folder.  Names are reduced    *)
(* to what the patterns of the crawler find in them.                        *)
(***************************************************************************)
EXTENDS FiniteSets, FiniteSetsExt, Integers, Sequences

CONSTANTS
  Files,       \* file names
  Says,        \* [Files -> what a name says, see FileTraits]
  Folders,     \* question folders, numbered in the order they are walked
  Named        \* [Folders -> what their names and places say, see FolderTraits]

(* order: the place of a name in a listing; sub: the rank of the folder     *)
(* inside the reply folder; tokens: version words with rank and number.     *)
FileTraits ==
  [stem: STRING, ext: STRING, order: Nat, time: Nat, sub: Int,
   tokens: SUBSET [rank: Int, num: Int],
   words: SUBSET {"reply", "cover", "number", "person", "question", "annexure"}]

(* session: what the name of the session folder says; above: the folders    *)
(* between the session and the question.                                    *)
FolderTraits ==
  [session: {"month", "season", "year only", "two years", "no year", "skipped"},
   above: Seq({"lok", "vidhan", "state", "category", "wrapper"}),
   prefixed: BOOLEAN, id: STRING, chamber: {"", "s", "u"}, dated: BOOLEAN, names: SUBSET {"revised", "range"}]

ASSUME CrawlAssumption ==
  /\ \A f \in Files : Says[f] \in FileTraits
  /\ Folders \subseteq Nat /\ \A d \in Folders : Named[d] \in FolderTraits

-----------------------------------------------------------------------------
(* What a file is.                                                          *)

IsNoise(f) == Says[f].ext \in {"lock", "tmp", "lnk", "db", "ini"}
IsArchive(f) == Says[f].ext \in {"zip", "rar", "7z"}
IsSelectable(f) ==
  /\ "annexure" \notin Says[f].words
  /\ Says[f].ext \in {"pdf", "docx", "doc", "xlsx", "xls", "rtf", "txt", "oxps", "xps"}

Points(f, word, n) == IF word \in Says[f].words THEN n ELSE 0
NameScore(f) == Points(f, "reply", 3) - Points(f, "cover", 3) + Points(f, "number", 2) - Points(f, "person", 2)
VersionRank(f) == IF Says[f].tokens = {} THEN 0 ELSE Max({v.rank : v \in Says[f].tokens})
VersionNum(f) == Max({v.num : v \in Says[f].tokens} \cup {-1})

(* The question is the file at the top whose name looks most like one.      *)
QuestionScore(f) ==
  Points(f, "number", 5) + Points(f, "question", 3) + (IF Says[f].ext = "pdf" THEN 1 ELSE 0)
QuestionFile(folder) ==
  LET top == {f \in folder.top : ~IsNoise(f) /\ ~IsArchive(f)} IN
  {f \in top : \A g \in top : \/ QuestionScore(g) < QuestionScore(f)
                              \/ QuestionScore(g) = QuestionScore(f) /\ Says[g].order <= Says[f].order}

(* What lies where the replies are: in the reply folder, else at the top,   *)
(* where the question is no candidate.                                      *)
ReplyFiles(folder) == {f \in (IF folder.hasReply THEN folder.reply ELSE folder.top) : ~IsNoise(f)}
Candidates(folder) ==
  {f \in ReplyFiles(folder) : ~IsArchive(f) /\ IsSelectable(f) /\ (folder.hasReply \/ f \notin QuestionFile(folder))}
Subfolder(c) == IF c.nested THEN Says[c.file].sub ELSE 0

-----------------------------------------------------------------------------
(* Which reply is the latest.  Candidates are [from, nested, file].         *)

Key(c, all) ==
  LET v == <<VersionRank(c.file), VersionNum(c.file)>>
      s == NameScore(c.file)
      time == Says[c.file].time
  IN CASE \E o \in all : Subfolder(o) # 0 -> <<Subfolder(c)>> \o v \o <<s, time>>
       [] (\A o \in all : Subfolder(o) = 0) /\ (\E o \in all : Says[o.file].tokens # {}) -> v \o <<s, time>>
       [] OTHER -> IF \E o \in all : NameScore(o.file) # 0 THEN <<s, time>> ELSE <<time>>

Above(a, b) == \E i \in DOMAIN a : a[i] > b[i] /\ \A j \in 1 .. i - 1 : a[j] = b[j]
Best(all) == {c \in all : \A o \in all : ~Above(Key(o, all), Key(c, all))}

Listed(c, o) == c.from < o.from \/ (c.from = o.from /\ Says[c.file].order <= Says[o.file].order)
FirstListed(S) == {c \in S : \A o \in S : Listed(c, o)}
PreferPdf(S) ==
  LET pdfs == {c \in S : Says[c.file].ext = "pdf"} IN FirstListed(IF pdfs = {} THEN S ELSE pdfs)

Stem(c) == Says[c.file].stem
Ambiguous(all) == Cardinality({Stem(c) : c \in Best(all)}) > 1

(* Files with one stem are one document; of those the PDF is taken, also    *)
(* when it is a little older than its sibling.                              *)
SelectLatest(all) ==
  CASE all = {} -> {}
    [] all # {} /\ Ambiguous(all) -> Best(all)
    [] OTHER -> PreferPdf(IF Cardinality(Best(all)) > 1 THEN Best(all)
                          ELSE {c \in all : \E b \in Best(all) : Stem(c) = Stem(b)})

-----------------------------------------------------------------------------
(* Where a question folder is found.                                        *)

IsQuestion(folder) == folder.hasReply \/ \E f \in folder.top : IsSelectable(f)
SessionFound(d) == Named[d].session \notin {"no year", "skipped"}
SessionFlags(d) ==
  CASE Named[d].session = "two years" -> {"ambiguous_session_year"}
    [] Named[d].session = "year only" -> {"session_month_unrecognized"}
    [] OTHER -> {}

(* Legacy sessions: the prefix of the folder names the house; at most three *)
(* wrappers are passed.  Elsewhere there is a house folder, under which     *)
(* categories are passed and, in an assembly, one state.                    *)
Harvested(d, folder) ==
  /\ Named[d].prefixed /\ IsQuestion(folder) /\ Len(Named[d].above) <= 3
  /\ \A i \in DOMAIN Named[d].above : Named[d].above[i] \notin {"lok", "vidhan"}
Descended(d, folder) ==
  LET above == Named[d].above IN
  /\ IsQuestion(folder) /\ above # <<>> /\ above[1] \in {"lok", "vidhan"}
  /\ \A i \in 2 .. Len(above) : \/ above[i] = "category"
                                \/ above[i] = "state" /\ i = 2 /\ above[1] = "vidhan"
Walked(d, tree) == SessionFound(d) /\ (Harvested(d, tree[d]) \/ Descended(d, tree[d]))

(* A folder that is not taken is reported, unless a folder with a prefix is *)
(* in the same wrapper, which is then left to the harvest.                  *)
LeftToHarvest(d, tree) ==
  \E e \in DOMAIN tree :
    /\ SessionFound(e) /\ Named[e].prefixed
    /\ \/ e = d /\ ~Descended(d, tree[d])
       \/ \A f \in {d, e} : Named[f].above # <<>> /\ Named[f].above[1] = "wrapper"
Reported(d, tree) == ~Walked(d, tree) /\ ~LeftToHarvest(d, tree)

(* The folders of a question: the same id, with the chamber it starts with  *)
(* unless the id is one of an assembly, in the same session and house.      *)
QuestionId(d) ==
  <<IF Named[d].dated THEN "" ELSE Named[d].chamber, Named[d].id, Named[d].session,
    \E i \in DOMAIN Named[d].above : Named[d].above[i] = "vidhan",
    \E i \in DOMAIN Named[d].above : Named[d].above[i] = "state">>
NameFlags(d) ==
  (IF "revised" \in Named[d].names THEN {"possible_revised_duplicate"} ELSE {})
  \cup (IF "range" \in Named[d].names /\ ~Named[d].dated THEN {"multi_question"} ELSE {})
  \cup (IF Named[d].id = "" THEN {"generated_question_id"} ELSE {})
  \cup (IF Named[d].prefixed THEN {} ELSE SessionFlags(d))

-----------------------------------------------------------------------------
(* What is put into the organised folder of the question of folder q:       *)
(* answer_latest or answer_latest_candidates, all reply files by name, the  *)
(* question, and whether metadata.json asks for a review.                   *)
Group(q, tree) == {d \in DOMAIN tree : Walked(d, tree) /\ QuestionId(d) = QuestionId(q)}
CandidatesOf(q, tree) ==
  UNION {{[from |-> d, nested |-> tree[d].hasReply, file |-> f] : f \in Candidates(tree[d])} : d \in Group(q, tree)}

Flags(q, tree) ==
  (UNION {NameFlags(d) : d \in Group(q, tree)})
  \cup (IF \E d \in Group(q, tree) : \E f \in ReplyFiles(tree[d]) : IsArchive(f) THEN {"contains_archive"} ELSE {})
  \cup (IF Ambiguous(CandidatesOf(q, tree)) THEN {"ambiguous_latest_reply"} ELSE {})
  \cup (IF CandidatesOf(q, tree) = {} THEN {"no_reply_selected"} ELSE {})
  \cup (IF \A d \in Group(q, tree) : QuestionFile(tree[d]) = {} THEN {"no_question_file_found"} ELSE {})

Organised(q, tree) ==
  [latest |-> {c.file : c \in SelectLatest(CandidatesOf(q, tree))},
   versions |-> UNION {ReplyFiles(tree[d]) : d \in Group(q, tree)},
   questions |-> UNION {QuestionFile(tree[d]) : d \in Group(q, tree)},
   status |-> IF Flags(q, tree) = {} THEN "ok" ELSE "needs_review"]
=============================================================================
