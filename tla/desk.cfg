SPECIFICATION FairSpec
CONSTANTS
  Docs = {d1}
  Attached = {a1}
  Labels = {x}
  Bodies = {"text", "blank"}
  Invented = Invented
  NoLabel = NoLabel
  MaxParts = 1
  MaxNotes = 1
  MaxTries = 2
  Rpm = 1
  Requests = {r1, r2}
  Runs = {q1}
  Upsets = {"retirements"}
  MaxAsks = 3
  Nobody = Nobody
  NoRun = NoRun
INVARIANTS CitesResolve NothingVanishes AckedIsKept
PROPERTY EveryRequestEnds
CHECK_DEADLOCK FALSE

