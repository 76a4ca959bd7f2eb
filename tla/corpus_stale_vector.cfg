SPECIFICATION Spec
CONSTANTS
  d1 = d1
  d2 = d2
  w1 = w1
  w2 = w2
  Docs = {d1, d2}
  Workers = {w1}
  Overlaps <- NoOverlap
  Mortal = {w1}
  MaxEdits = 2
  MaxAttempts = 1
  Upsets <- Calm
INVARIANT VectorOfText
CHECK_DEADLOCK FALSE
