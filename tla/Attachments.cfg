CONSTANTS
  None = None
  Absent = Absent
  Celery = Celery
  r1 = r1
  r2 = r2
  x1 = x1
  x2 = x2
  n1 = n1
  n2 = n2
  w1 = w1
  w2 = w2
  Row = {r1, r2}
  Attachment = {x1, x2}
  Name = {n1, n2}
  Worker = {w1, w2}
  Avoided <- MCSituations
  MaxBusy = 2
SPECIFICATION Spec
SYMMETRY Symmetry
INVARIANTS TypeOK IsWhole
PROPERTIES KeepsWhatIsUsed
