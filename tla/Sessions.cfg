SPECIFICATION Spec
CONSTANTS
  None = None
  Keep = Keep
  ann = ann
  bob = bob
  s1 = s1
  s2 = s2
  s3 = s3
  t1 = t1
  t2 = t2
  c1 = c1
  User = {ann, bob}
  Social = {bob}
  Sid = {s1, s2, s3}
  Checkout = {c1}
  Tab = {t1, t2}
  Paying = {ann}
  MaxOverlap = 1
  Asked <- MCAsked
  Alone <- MCAlone
  MaxPassword = 1
SYMMETRY Interchangeable
INVARIANTS
  TypeOK
  TokenGoesAlong
  BillingTrue
  PaidIsLinked
  StaysOut
