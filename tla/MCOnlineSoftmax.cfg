SPECIFICATION Spec
CONSTANTS
  N_HEADS = 2
  SEQ_LEN = 3
  HEAD_DIM = 64
  VLMAX = 32
  Request = 32
  Scores <- MCScores
  ExpMin = 2
  MInit <- MCMInit
INVARIANTS
  TypeOK
  ExactWeights
  NearMaxKept
  DenominatorPositive
PROPERTIES
  ImplementsAttention
CHECK_DEADLOCK FALSE
