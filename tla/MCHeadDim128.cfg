SPECIFICATION Spec
CONSTANTS
  N_HEADS = 1
  SEQ_LEN = 3
  HEAD_DIM = 128
  VLMAX = 32
  Request = 32
  Scores <- MCScores
  ExpMin = 2
  MInit <- MCMInit
INVARIANTS
  EveryDimComputed
CHECK_DEADLOCK FALSE
