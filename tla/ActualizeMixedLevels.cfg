CONSTANTS
  Null = Null
  BudgetRow = BudgetRow
  a = a
  p = p
  q = q
  c = c
  m = m

  x1 = x1
  x2 = x2
  w1 = w1
  w2 = w2
  Accounts = {a}
  Subs = {p, q, c}
  Parent <- MCParent
  Key <- MCKey
  Markups = {m}
  MarkupParent <- MCMarkupParent
  Ids = {x1, x2}
  Values = {1}
  Worker = {w1}
  Avoided = {"same key"}
  MaxInHand = 2
  MaxRequests = 2
SPECIFICATION ActualsSpec
INVARIANTS AddsUp
