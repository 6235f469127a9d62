SPECIFICATION FairSpec
CONSTANTS
  NONE = NONE
  JUMP = 1
  BEHIND = 2
  AHEAD = 1
  STALE = 3
  THRESHOLD = 1
  RETENTION = 2
  Start = 3
  End = 4
  MaxEvents = 3
  Typos <- OneTypo
  Networks = TRUE
  DAY = 3
INVARIANT NeverFarAhead NightAsPlanned
PROPERTY SetSurvives CatchesUp
CHECK_DEADLOCK FALSE
