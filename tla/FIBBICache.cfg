SPECIFICATION FairSpec
CONSTANTS
  Threads = {t1, t2}
  p1 = p1 p2 = p2 p3 = p3
  Pairs = {p1, p2, p3}
  Keys = {"k1", "k2"}
  Values <- IntegralValues
  None = None
  GetFIBBICacheKey <- KeyOfPair
  ComputeFIBBIData <- Integrals
  MaxCalls = 4
INVARIANTS TypeOK NoReadDuringInsert RecordedAtReturn NeverOvercounts
PROPERTIES CallsReturn MemoSpec
CHECK_DEADLOCK FALSE
