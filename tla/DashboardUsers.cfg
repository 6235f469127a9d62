SPECIFICATION FairSpec
CONSTANTS
  NONE = NONE
  Accounts = {boss, helper}
  Seed = boss
  Mistyped = {helper}
  Browsers = {b1, b2}
  LOCK_AFTER = 2
  LOCK = 1
  MaxChanges = 2
INVARIANTS AnAdminRemains LockHolds ReplacedFirst
PROPERTY LockLifts
CHECK_DEADLOCK FALSE
