SPECIFICATION FairSpec
CONSTANTS
  NONE = NONE
  Restores = {1, 2}
  Choices <- Chosen
  Stick = FALSE
  IMPORT_STALE = 1
  RESTORE_STALE = 1
  SCREEN_STALE = 2
  Bookings = {1}
  MaxEvents = 1
INVARIANTS AllOrNothing ScreenTrue
PROPERTIES  DoneMeansRestored Unblocked
CHECK_DEADLOCK FALSE
