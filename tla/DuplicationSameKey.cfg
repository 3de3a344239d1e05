CONSTANTS
  None = None
  b = b
  a = a
  s = s
  t = t
  g = g
  h = h
  f = f
  m = m
  x = x
  c = c
  d = d
  Budget = b
  Account = {a}
  SubAccount = {s, t}
  Group = {g, h}
  Fringe = {f}
  Markup = {m}
  Actual = {x}
  Contact = {c, d}
  Mine = {c}
  ParentOf <- MCParentOf
  KeyOf <- MCKeyOf
  Depth <- MCDepth
  MaxDepth = 2
  MaxEdits = 2
SPECIFICATION Spec
INVARIANTS NothingMoved
