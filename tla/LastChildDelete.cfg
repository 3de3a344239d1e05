CONSTANTS
  Budget = Budget
  None = None
  a1 = a1
  a2 = a2
  s1 = s1
  s2 = s2
  s3 = s3
  f1 = f1
  f2 = f2
  Accounts = {a1, a2}
  Subs = {s1, s2, s3}
  Fringes = {f1}
  Raws = {0, 1}
  Terms <- MCTermsSmall
  MaxLevel = 2
  Avoided <- MCLastChildDelete
SPECIFICATION Spec
SYMMETRY Symmetry
INVARIANT Settled
