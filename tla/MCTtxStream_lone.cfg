SPECIFICATION FairSpec
CONSTANTS
  Page <- PagesLone
  Sub <- SubOne
  Pkg = {0}
  Data <- MCData
  Blank = Blank
  NoData = NoData
  LinkOf <- MCLinkOf
  CapDuration = 0
  CheckInterval = 2
  RepThreshold = 2
  Airs <- AirsLone
  Idle = Idle
  MaxReps = 20
PROPERTIES
  CaptureEnds
CHECK_DEADLOCK FALSE
