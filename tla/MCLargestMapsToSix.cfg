SPECIFICATION BlockSpec
CONSTANTS
  BLOCK = 2
  GRAIN = 64
  Values <- MCValues
INVARIANT
  LargestMapsToSix
CHECK_DEADLOCK FALSE
