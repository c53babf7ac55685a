SPECIFICATION Spec
CONSTANTS
  Schedules <- MCSchedules
  Layouts <- MCLayouts
  Dates <- MCDates
  Extras <- MCExtras
  ExpireMin = 120
INVARIANTS
  TypeOK
  TrueTimes
  TrueStops
  CompleteSchedule
  NoOverlap
CHECK_DEADLOCK FALSE
