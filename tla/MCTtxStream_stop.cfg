SPECIFICATION FairSpec
CONSTANTS
  Page <- PagesShared
  Sub <- SubOne
  Pkg = {0}
  Data <- MCData
  Blank = Blank
  NoData = NoData
  LinkOf <- MCLinkOf
  CapDuration = 0
  CheckInterval = 2
  RepThreshold = 2
  Airs <- AirsShared
  Idle = Idle
  MaxReps = 20
INVARIANT
  TypeOK
PROPERTIES
  CaptureEnds
CHECK_DEADLOCK FALSE
