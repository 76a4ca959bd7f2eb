SPECIFICATION FairSpec
CONSTANTS
  Paths = {p1}
  Events = {"upsert"}
  RowIds = {r1, r2, r3}
  Services = {s1}
  Drainers = {d1}
  NoRow = NoRow
  NoWorker = NoWorker
  Settle = 1
  Backoff = 1
  MaxAttempts = 3
  StaleAfter = 2
  MaxJobTime = 2
  OverdueCap = 1
  MaxStarts = 3
  SoloStart = FALSE
  HardDeletes = TRUE
INVARIANT OneLiveRowPerPath
PROPERTY EventuallyDrained
