SPECIFICATION Spec
CONSTANTS
  Page <- AllPages
  Sub <- SubOne
  Pkg = {0, 1, 2, 21, 28}
  Data <- MCData
  Blank = Blank
  NoData = NoData
  LinkOf <- MCLinkOf
  CapDuration = 90
  CheckInterval = 1
  RepThreshold = 2
  Airs <- AirsBoth
  Idle = Idle
  MaxReps = 2
INVARIANTS
  NoMisfiledRow
  OnAirPageOpen
  TopTablesOwnLines
  SerialOneOpen
  OpenPageKnown
PROPERTIES
  LossContained
  ImplementsStore
CHECK_DEADLOCK FALSE
