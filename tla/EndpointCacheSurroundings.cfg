CONSTANTS
  None = None
  a = a
  b = b
  r = r
  s = s
  t = t
  u1 = u1
  u2 = u2
  User = {u1, u2}
  Reader = {u1}
  Budget = b
  Account = {a}
  SubAccount = {r, s, t}
  ParentOf <- MCParentOf
  Avoided <- MCSituations
  MaxEdits = 2
  MaxCached = 1
SPECIFICATION Spec
INVARIANT SurroundingsVisible
CHECK_DEADLOCK FALSE
