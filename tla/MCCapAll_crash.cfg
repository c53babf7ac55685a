SPECIFICATION FairSpec
CONSTANTS
  Net <- MCNet
  Channel <- MCChannel
  Transponder <- MCTransponder
  NoTtx <- MCNoTtx
  Faults = {"signal"}
PROPERTIES
  FilesComplete
CHECK_DEADLOCK FALSE
