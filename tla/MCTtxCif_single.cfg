SPECIFICATION Spec
CONSTANTS
  Db = {d1}
  Page = {256, 266, 496, 512}
  Sub = {0}
  Rows = {1}
  NoRow = NoRow
  Idle = Idle
  Modes <- MCModes
INVARIANTS
  OwnRows
  RowsOfKnownPages
PROPERTIES
  OwnLines
CHECK_DEADLOCK FALSE
