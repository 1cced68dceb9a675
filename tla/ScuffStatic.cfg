CONSTANTS
  None = None
  Absent = Absent
  Broken = Broken
  NS = 6
  NT = 3
  TransFiles <- AllFiles
  Inputs <- AllInputs
  NumExcitations = 2
  MaxRuns = 2
SPECIFICATION StaticSpec
INVARIANT StaticTypeOK
INVARIANT DiagonalRight
INVARIANT OffDiagonalRight
INVARIANT OutputRight
INVARIANT DatasetRight
INVARIANT FirstKept
