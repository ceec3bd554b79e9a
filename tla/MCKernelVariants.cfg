SPECIFICATION Spec
CONSTANTS
  N_HEADS = 2
  SEQ_LEN = 2
  HeadDims <- MCHeadDims
  BLOCK = 2
  VLMAX = 2
  Scores <- MCScores
  ExpMin = 4
  Fp8Min = 2
  MInit <- MCMInit
  TruncatedKept <- MCTruncatedKept
INVARIANTS
  TypeOK
  RowsDecoded
  HeadComplete
  Traffic
CHECK_DEADLOCK FALSE
