SPECIFICATION Spec
CONSTANTS
  Channel <- MCChannel
  Captures <- MCCaptures
  Expire = 2
  Clock = {0, 10}
  Gap = {4}
  GapLen = 2
INVARIANTS
  FileInOrder
  FileImportable
  MergedFilesKept
  MergedFilesSound
PROPERTIES
  ImplementsFile
  TextKept
CHECK_DEADLOCK FALSE
