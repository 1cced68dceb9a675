CONSTANTS
  NS = 3
  NT = 2
  TransFiles <- MCTransFiles
  Meshes <- MCMeshes
  FileBase <- MCFileBase
  NumBFs <- MCNumBFs
  Materials <- MCMaterials
  ScuffGeos <- MCScuffGeos
  MaxOmega = 3
  Printed <- MCPrinted
  ImagOmega <- MCImagOmega
  NumXMatrices = 2
  MaxRuns = 2
  Absent = Absent
  Torn = Torn
  None = None
SPECIFICATION Spec
INVARIANT TypeOK
INVARIANT MatrixRight
INVARIANT SelfBlocksRight
PROPERTY FilesKept
