SPECIFICATION Spec
CONSTANTS
  f1 = f1
  f2 = f2
  f3 = f3
  c1 = c1
  c2 = c2
  t1 = t1
  t2 = t2
  t3 = t3
  Files = {f1, f2, f3}
  Contents = {c1, c2}
  Timers = {t1, t2, t3}
  Named <- HashedNames
  Settle = 2
  MaxChanges = 3
  Twins = FALSE
  Nothing = Nothing
INVARIANTS DroppedIsOffered OfferedHasFile TablesWhole
SYMMETRY Interchangeable
CHECK_DEADLOCK FALSE
