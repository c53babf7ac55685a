SPECIFICATION Spec
CONSTANTS
  YearLen = 10
  Schedules <- MCSchedules
  Captures <- MCCaptures
  Looks <- MCLooks
  Styles <- MCStyles
  RefPage = {832, 833}
  Refs <- MCRefs
  Lost <- MCLost
INVARIANTS
  TrueOvDate
  ListingRead
  OwnDescription
  DescriptionFound
  MissingListed
CHECK_DEADLOCK FALSE
