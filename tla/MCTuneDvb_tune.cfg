CONSTANTS
  One = One
  Two = Two
  Three = Three
  MaxRunning = 3
  Timeout = 1
  SlowTimeout = 3
  PidPat = 0
  QueueMax = 1
  Garbles = 1
  Setups <- MCSetups
  MaxSrv = 3
SPECIFICATION Spec
CHECK_DEADLOCK FALSE
INVARIANTS
  TypeOK
  PidsAreTrue
  ScanComplete
  NoSpuriousFailure
  ListsTransponder
PROPERTIES
  ComesToEnd
