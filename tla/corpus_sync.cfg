SPECIFICATION FairSpec
CONSTANTS
  d1 = d1
  d2 = d2
  w1 = w1
  w2 = w2
  Docs = {d1, d2}
  Workers = {w1, w2}
  Overlaps <- NoOverlap
  Mortal = {w1}
  MaxEdits = 3
  MaxAttempts = 2
  Upsets <- CrashesOnly
INVARIANT SettledInSync
PROPERTIES DoneIsIndexed NeverBackwards ImplementsMirror EventuallyRests
CHECK_DEADLOCK FALSE
