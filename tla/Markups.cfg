CONSTANTS
  b = b
  a1 = a1
  a2 = a2
  s1 = s1
  s2 = s2
  m1 = m1
  m2 = m2
  None = None
  Budget = b
  Accounts = {a1, a2}
  Subs = {s1, s2}
  ParentOf <- MCParentOf
  Ids = {m1, m2}
  Raws = {0, 1}
  Rates = {1}
  Avoided = {"top level delete"}
SYMMETRY MCSymmetry
SPECIFICATION Spec
INVARIANTS TypeOK FiguresTrue SignalsKept
PROPERTY AsAsked
