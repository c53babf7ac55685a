SPECIFICATION Spec
CONSTANTS
  Db = {d1, d2}
  Page = {256, 257}
  Sub = {0}
  Rows = {1}
  NoRow = NoRow
  Idle = Idle
  Modes <- Good
INVARIANTS
  ConcurrentCapture
