SPECIFICATION FairSpec
CONSTANTS
  NONE = NONE
  Ours = ours
  Other = other
  Sticks = {s1, s2}
  Paths = {sda, sdb}
  MaxEvents = 3
INVARIANT StaysEjected
PROPERTY ErasedAsAsked  OwnStickMounted
CHECK_DEADLOCK FALSE
