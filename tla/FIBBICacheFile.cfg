SPECIFICATION Spec
CONSTANTS
  Keys = {k1, k2, k3}
  None = None
  CacheDirSet = TRUE
SYMMETRY Symmetry
INVARIANTS TypeOK SkipIsRewrite LostOnlyIfCutShort
