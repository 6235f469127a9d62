SPECIFICATION FairSpec
CONSTANTS
  NONE = NONE
  MaxPlugs = 2
  MaxFaults = 2
INVARIANTS TypeOK Settled
PROPERTY ReaderShown
CHECK_DEADLOCK FALSE
