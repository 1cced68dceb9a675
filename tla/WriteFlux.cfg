CONSTANTS
  None = None
  NS = 3
  NT = 3
  Mate <- MCMate
  Regions <- MCRegions
  Exterior <- MCExterior
  Interior <- MCInterior
  MaxOmega = 2
  TransFiles <- AllTransFiles
SPECIFICATION Spec
INVARIANT TypeOK
INVARIANT SourcesRight
INVARIANT MatrixCorrect
