SPECIFICATION FairSpec
CONSTANTS
  Cards = {c1, c2}
  FirstMembers = {c1}
  FirstNamed = {c1}
  FirstExtras = {c2}
  Workers = {w1}
  LogoutTime = 1
  IdleTime = 1
  CaptureTime = 2
  NONE = NONE
  MaxScans = 2
  MaxTouches = 1
  MaxEdits = 2
  MaxNights = 0
  MaxCuts = 0
INVARIANTS TypeOK BookedAsAsked
PROPERTIES SessionEnds IdleReturns
