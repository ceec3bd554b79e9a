SPECIFICATION FairSpec
CONSTANTS
  N_HEADS = 3
  SEQ_LEN = 20
  LANES = 4
  VLMAX = 8
INVARIANTS
  TypeOK
  MaxSeesEveryRow
  SumExact
  FreshWeights
PROPERTIES
  Terminates
CHECK_DEADLOCK FALSE
