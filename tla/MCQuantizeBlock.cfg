SPECIFICATION BlockSpec
CONSTANTS
  BLOCK = 2
  GRAIN = 64
  Values <- MCValues
INVARIANTS
  BlockError
  OrderKept
CHECK_DEADLOCK FALSE
