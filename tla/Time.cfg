CONSTANTS
  NANOS = 2
  SECONDS = 2
  MINUTES = 2
  HOURS = 3
  Days <- MCDays
SPECIFICATION Spec
PROPERTIES FollowsCalendar
