SPECIFICATION Spec
CONSTANTS
  a = a
  b = b
  q1 = q1
  q2 = q2
  Requests = {r1, r2}
  Files = {a, b}
  Folders = {q1, q2}
  FolderOf <- OneEach
  MaxCrashes = 1
  Nobody = Nobody
INVARIANTS TypeOK RefusedWritesNothing WrittenIsHandled DoneIsTrue
PROPERTY OnlyReplaceOverwrites
SYMMETRY Alike
CHECK_DEADLOCK FALSE
