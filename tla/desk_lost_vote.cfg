SPECIFICATION Spec
CONSTANTS
  Docs = {d1, d2}
  Attached = {a1}
  Labels = {x}
  Bodies = {"text", "blank"}
  Invented = Invented
  NoLabel = NoLabel
  MaxParts = 1
  MaxNotes = 1
  MaxTries = 2
  Rpm = 1
  Requests = {r1, r2}
  Runs = {q1, q2}
  Upsets = {"retirements", "shared transactions"}
  MaxAsks = 3
  Nobody = Nobody
  NoRun = NoRun
INVARIANT AckedIsKept
CHECK_DEADLOCK FALSE

