SPECIFICATION FairSpec
CONSTANTS
  NONE = NONE
  EMPTY = EMPTY
  JOB = job
  Workers = {w1, w2}
  DUE = 1
  End = 1
  MaxEvents = 2
INVARIANTS Loadable CaStays
PROPERTY Settles
CHECK_DEADLOCK FALSE
