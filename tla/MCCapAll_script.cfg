SPECIFICATION FairSpec
CONSTANTS
  Net <- MCNet
  Channel <- MCChannel
  Transponder <- MCTransponder
  NoTtx <- MCNoTtx
  Faults = {"signal", "tune", "fork", "wait", "rename"}
INVARIANTS
  TypeOK
  AllServed
  NoTmpLeft
PROPERTIES
  FilesKept
  TunerHeld
  Finishes
CHECK_DEADLOCK FALSE
