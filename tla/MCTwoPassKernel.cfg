SPECIFICATION Spec
CONSTANTS
  N_HEADS = 2
  SEQ_LEN = 3
  HEAD_DIM = 4
  LANES = 2
  VLMAX = 2
  Scores <- MCScores
  ExpMin = 4
  Fp8Min = 2
  MInit <- MCMInit
INVARIANTS
  TypeOK
  ScoresOfThisHead
  EachRowOnce
PROPERTIES
  ImplementsAttention
CHECK_DEADLOCK FALSE
