CONSTANTS
  None = None
  NS = 3
  NT = 2
  Mate <- MCMate
  TransFiles <- AllTransFiles
  NumQuantities = 1
  MaxXiPoints = 5
SPECIFICATION Spec
INVARIANT ReusedAtThisFrequency
