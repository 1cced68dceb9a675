SPECIFICATION BlockSpec
CONSTANTS
  NEA = 3
  NEB = 3
  SameSurface = TRUE
  NumThreads = 1
  Sigs = {s1, s2}
  None = None
  NBFPEA = 2
  NBFPEB = 2
  SignPatterns <- GSigns
  MaxCalls = 2
  MaxMoves = 1
SYMMETRY Symmetry
INVARIANTS BlockCorrect
CHECK_DEADLOCK FALSE
