SPECIFICATION Spec
CONSTANTS
  Files = {"question.pdf", "reply.docx", "reply.pdf", "answer.docx", "cover.doc", "table.xlsx", "all.zip", "final.pdf", "scan.pdf"}
  Says <- MCSays
  Folders = {1, 2}
  Named <- MCNamed
  Trees <- MCTrees
  RawLines <- MCRawLines
  Content <- MCContent
  Clients = {"none", "groq", "gemini", "local"}
  MaxAttempts = 2
  CrossChecked = TRUE
  PartLabels = {1, 2}
  LastLetter = 8
  MaxTries = 2
  Rpm = 1
INVARIANTS EveryBlockReaches SharedIffSameSpan OneHome DoubtIsReviewed
CHECK_DEADLOCK FALSE
