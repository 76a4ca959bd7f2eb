SPECIFICATION Spec
CONSTANTS
  Docs = {d1}
  Attached = {a1}
  Labels = {x}
  Bodies = {"text", "table", "headless", "blank"}
  Invented = Invented
  NoLabel = NoLabel
  MaxParts = 1
  MaxNotes = 1
  MaxTries = 2
  Rpm = 1
  Requests = {r1, r2}
  Runs = {q1}
  Upsets = {"retirements"}
  MaxAsks = 3
  Nobody = Nobody
  NoRun = NoRun
INVARIANT PartsPrint
CHECK_DEADLOCK FALSE

