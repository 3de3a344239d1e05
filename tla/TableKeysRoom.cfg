CONSTANTS
  MaxPut = 8
  MaxBulk = 3
SPECIFICATION KeysSpec
INVARIANTS AlwaysRoom
CHECK_DEADLOCK FALSE
