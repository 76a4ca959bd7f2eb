SPECIFICATION Spec
CONSTANTS
  d1 = d1
  d2 = d2
  w1 = w1
  w2 = w2
  Docs = {d1, d2}
  Workers = {w1}
  Overlaps <- SharedToken
  Mortal = {w1}
  MaxEdits = 3
  MaxAttempts = 1
  Upsets <- ErrorsOnly
PROPERTY DoneIsIndexed
CHECK_DEADLOCK FALSE
