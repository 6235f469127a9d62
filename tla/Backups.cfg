SPECIFICATION BackupSpec
CONSTANTS
  NULL = NULL
  INTERVAL = 1
  STALE = 3
  RECENT = 1
  PERIODS <- DaysAndWeeks
  KEEP_BEFORE_RESTORE = 1
  Start = 1
  End = 3
  MaxTroubles = 2
  ClockErrors <- Ahead
INVARIANT SafetyKept
PROPERTY GenerationsKept HonestStatus
CHECK_DEADLOCK FALSE
