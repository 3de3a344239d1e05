CONSTANTS
  MaxPut = 7
  MaxBulk = 3
SPECIFICATION KeysSpec
INVARIANTS LandsBetween HasRoom
CHECK_DEADLOCK FALSE
