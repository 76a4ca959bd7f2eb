SPECIFICATION Spec
CONSTANTS
  Files = {"520.pdf", "reply520.pdf"}
  Says <- MCSays
  Folders = {1, 2}
  Named <- MCNamed
  Trees <- SideBySide
  RawLines <- MCRawLines
  Content <- MCContent
  Clients = {"none", "groq", "gemini", "local"}
  MaxAttempts = 2
  CrossChecked = TRUE
  PartLabels = {1, 2}
  LastLetter = 8
  MaxTries = 2
  Rpm = 1
INVARIANT QuestionIsNoReply
CHECK_DEADLOCK FALSE
