SPECIFICATION Spec
CONSTANTS
  NONE = NONE
  Restores = {1, 2}
  Choices <- Chosen
  Stick = FALSE
  IMPORT_STALE = 1
  RESTORE_STALE = 1
  SCREEN_STALE = 2
  Bookings = {1}
  MaxEvents = 1
PROPERTY FailedChangesNothing
CHECK_DEADLOCK FALSE
