CONSTANTS
  None = None
  NS = 3
  NT = 2
  Mate <- MCMate
  TransFiles <- MCTransFiles
  NumQuantities = 2
  MaxXiPoints = 4
  Frequencies <- MCFrequencies
  Tags = {"A", "B"}
  Quantities = {"energy", "xforce", "zforce"}
  Jobs <- MCJobs
  SmallSets <- MCSmallSets
  MaxRuns = 2
SPECIFICATION RunsSpec
INVARIANTS TypeOK MatrixCorrect ValuesRight RunSumGapFree
