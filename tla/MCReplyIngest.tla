----------------------------- MODULE MCReplyIngest -----------------------------
(* A question of two folders, one of them marked as revised, and replies of  *)
(* each kind the parser tells apart.                                         *)
EXTENDS ReplyIngest

File(order, stem, ext, words) ==
  [order |-> order, stem |-> stem, ext |-> ext, words |-> words, time |-> 1, sub |-> 0, tokens |-> {}]
SaysQuestion == File(1, "q", "pdf", {"number", "question"})
MCSays ==
  "question.pdf" :> SaysQuestion @@
  "reply.docx" :> File(2, "r", "docx", {"reply"}) @@
  "reply.pdf" :> File(3, "r", "pdf", {"reply"}) @@
  "answer.docx" :> File(4, "a", "docx", {"reply"}) @@
  "cover.doc" :> File(5, "c", "doc", {"cover"}) @@
  "table.xlsx" :> [File(6, "t", "xlsx", {}) EXCEPT !.tokens = {[rank |-> 30, num |-> -1]}] @@
  "all.zip" :> File(7, "z", "zip", {}) @@
  "final.pdf" :> [File(8, "f", "pdf", {"reply"}) EXCEPT !.tokens = {[rank |-> 30, num |-> -1]}] @@
  "scan.pdf" :> File(10, "s", "pdf", {"reply"}) @@
  "reply520.pdf" :> File(9, "n", "pdf", {"reply", "number"}) @@
  "520.pdf" :> File(0, "m", "pdf", {"number"})

Digital(lines, tables) == [type |-> "digital", lines |-> lines, tables |-> tables]
Reply(pages) == [pages |-> pages, answers |-> {}, layout |-> "prose", diary |-> TRUE, isReply |-> TRUE]
MCContent ==
  "question.pdf" :> [Reply(<<Digital(<<"text">>, {})>>) EXCEPT !.isReply = FALSE] @@
  "520.pdf" :> [Reply(<<Digital(<<"text">>, {})>>) EXCEPT !.isReply = FALSE] @@
  "reply.docx" :> Reply(<<Digital(<<"title", "text", "text", "bare", "text">>, {})>>) @@
  "reply.pdf" :> Reply(<<Digital(<<"text", "nil">>, {}), [Digital(<<"text", "nil">>, {}) EXCEPT !.type = "scanned"]>>) @@
  "answer.docx" :> [Reply(<<Digital(<<"text", "text", "pointer", "marker">>, {1, 2})>>) EXCEPT !.answers = {1}] @@
  "cover.doc" :> Reply(<<Digital(<<"text">>, {})>>) @@
  "table.xlsx" :> [Reply(<<Digital(<<"row", "more", "row">>, {1})>>) EXCEPT !.layout = "qa", !.diary = FALSE] @@
  "all.zip" :> Reply(<<>>) @@
  "scan.pdf" :> Reply(<<[Digital(<<"text">>, {1}) EXCEPT !.type = "image"]>>) @@
  "reply520.pdf" :> Reply(<<Digital(<<"text", "marker">>, {})>>) @@
  "final.pdf" :> Reply(<<[Digital(<<"(a)">>, {1}) EXCEPT !.type = "image"],
                         Digital(<<"nil", "(b)", "nil", "marker">>, {})>>)

MCRawLines == <<"text">>

Folder(names) ==
  [session |-> "month", above |-> <<"lok">>, prefixed |-> FALSE, id |-> "520", chamber |-> "",
   dated |-> FALSE, names |-> names]
MCNamed == 1 :> Folder({}) @@ 2 :> Folder({"revised"})

(* Bound: three files in all, the question not among the replies.           *)
Places == {"top", "reply", "revised top"}
MCTrees ==
  UNION {{[d \in {1, 2} |-> [hasReply |-> d = 1 /\ r,
                             reply |-> IF d = 1 THEN {f \in S : place[f] = "reply"} ELSE {},
                             top |-> {f \in S : place[f] = IF d = 1 THEN "top" ELSE "revised top"}]] :
           r \in BOOLEAN, place \in {p \in [S -> Places] : \A f \in S : p[f] = "reply" => Content[f].isReply}} :
         S \in kSubset(3, Files)}

(* For the divergences: question and reply side by side, and a folder with a *)
(* prefix beside one without in a wrapper of a legacy session.               *)
SideBySide == {1 :> [hasReply |-> FALSE, reply |-> {}, top |-> Files]}
MCLegacy ==
  1 :> [Folder({}) EXCEPT !.above = <<"wrapper">>, !.prefixed = TRUE] @@
  2 :> [Folder({}) EXCEPT !.above = <<"wrapper">>, !.id = "5880"]
===============================================================================
