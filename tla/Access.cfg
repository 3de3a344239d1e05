CONSTANTS
  None = None
  Staff = Staff
  Visitor = Visitor
  u1 = u1
  u2 = u2
  b1 = b1
  b2 = b2
  t1 = t1
  t2 = t2
  t3 = t3
  User = {u1, u2}
  Budget = {b1, b2}
  Shared = {b1}
  Template = {t1, t2, t3}
  TemplateOwner <- MCTemplateOwner
  Community = {t3}
SYMMETRY Interchangeable
SPECIFICATION Spec
INVARIANTS TypeOK GrantsAsPromised

PROPERTIES KeepsItsBudget
