SPECIFICATION Spec
CONSTANTS
  Users = {a, b}
  First = a
  Sessions = {s1, s2}
  Requests = {r1, r2}
  NoUser = NoUser
  NoSession = NoSession
  MaxFails = 2
  IpBudget = 1
  MaxIssued = 2
  Upsets = {}
SYMMETRY Alike
INVARIANTS TypeOK AdminRemains OwnPassword EarlierSignedOut
