SPECIFICATION Spec
CONSTANTS
  NEA = 3
  NEB = 3
  SameSurface = TRUE
  NumThreads = 3
  Sigs = {s1, s2}
  None = None
SYMMETRY Symmetry
INVARIANTS TypeOK Forest Canonical
PROPERTIES NeverForgets
CHECK_DEADLOCK FALSE
