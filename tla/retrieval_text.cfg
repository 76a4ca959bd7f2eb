SPECIFICATION Spec
CONSTANTS
  a = a
  b = b
  a1 = a1
  a2 = a2
  b1 = b1
  Queries = {q1, q2}
  Canons = {c1}
  Docs = {a, b}
  Subs = {a1, b1}
  DocOf <- Belongs
  Searches = 1
  PoolSize = 2
  SafetyMax = 2
  PlateauMin = 2
  Batch = 1
  Layers = {"rerank", "verify", "widen", "plateau"}
  MaxChanges = 1
INVARIANT VerdictOfText
CHECK_DEADLOCK FALSE
