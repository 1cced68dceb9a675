SPECIFICATION BlockSpec
CONSTANTS
  NEA = 2
  NEB = 2
  SameSurface = FALSE
  NumThreads = 2
  Sigs = {s1, s2}
  None = None
  NBFPEA = 2
  NBFPEB = 1
  SignPatterns <- GSigns
  MaxCalls = 2
  MaxMoves = 1
SYMMETRY Symmetry
INVARIANTS BlockCorrect
CHECK_DEADLOCK FALSE
