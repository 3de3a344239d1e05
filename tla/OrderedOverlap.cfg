CONSTANTS
  None = None
  p1 = p1
  p2 = p2
  p3 = p3
  Process = {p1, p2, p3}
  Kinds = {"append", "insert", "move", "bulk", "update", "delete"}
  MaxInitial = 2
  MaxRequests = 3
  MaxBusy = 3
  BulkSize = 2
SPECIFICATION Spec
SYMMETRY Symmetry
INVARIANTS TypeOK
PROPERTIES RefusedForAReason AppendsGoLast LandsWhereAsked
