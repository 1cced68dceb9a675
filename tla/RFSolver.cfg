CONSTANTS
  None = None
  NS = 5
  Geometries <- MCGeometries
  Shifts <- MCShifts
  MovedSets <- MCMovedSets
  Places <- MCPlaces
  Frequencies = {w1, w2}
  Dirty = Dirty
  SubstrateFiles = {file}
  Layers <- MCLayers
  IncFields <- MCIncFields
  Currents = {I, unit}
  UnitCurrent = unit
  MaxMoves = 2
  MaxAssemblies = 2
  MaxSettings = 1
SYMMETRY Symmetry
SPECIFICATION Spec
INVARIANTS TypeOK MatrixRight PortsRight ExcitationKept SubstrateLive StampsAssembled
