CONSTANTS
  None = None
  Absent = Absent
  Celery = Celery
  r1 = r1
  r2 = r2
  r3 = r3
  g1 = g1
  g2 = g2
  w1 = w1
  w2 = w2
  Row = {r1, r2}
  Group = {g1, g2}
  Worker = {w1, w2}
  Avoided <- MCSituations
  MaxBusy = 2
SPECIFICATION Spec
SYMMETRY Symmetry
INVARIANTS TypeOK
PROPERTIES CalmSucceeds LeavesNoStray DoesWhatIsAsked
