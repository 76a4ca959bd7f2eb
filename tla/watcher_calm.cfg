SPECIFICATION WatcherSpec
CONSTANTS
  Paths = {p1}
  Events = {"upsert", "delete"}
  RowIds = {r1, r2}
  Services = {s1}
  Drainers = {d1}
  NoRow = NoRow
  NoWorker = NoWorker
  Settle = 1
  Backoff = 1
  MaxAttempts = 2
  StaleAfter = 1
  MaxJobTime = 1
  OverdueCap = 0
  MaxStarts = 3
  SoloStart = TRUE
  HardDeletes = FALSE
  MaxVersion = 3
  MaxNotices = 2
  CalmWhileBusy = TRUE
SYMMETRY Symmetry
INVARIANT DoneMeansInSync
PROPERTY ImplementsMirror
