SPECIFICATION Spec
CONSTANTS
  First = 0
  Last = 65535
INVARIANTS
  NearestTiesToEven
  MirrorsC
  ExactValue
  ExactProduct
  NoClampNoRounding
  ReconstructInRange
  SpecialResults
  SlopeAtZero
  Doubling
PROPERTIES
  Monotone
CHECK_DEADLOCK FALSE
