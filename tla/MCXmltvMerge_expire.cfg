SPECIFICATION Spec
CONSTANTS
  Channel <- MCChannel
  Captures <- MCCaptures
  Expire = 2
  Gap = {}
  GapLen = 2
  Clock = {0, 4, 10}
PROPERTIES
  ExpireCompleted
CHECK_DEADLOCK FALSE
