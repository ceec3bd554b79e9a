SPECIFICATION Spec
CONSTANTS
  First = 0
  Last = 14000
INVARIANT
  TinyOperandsGiveOne
CHECK_DEADLOCK FALSE
