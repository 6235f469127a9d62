SPECIFICATION Spec
CONSTANTS
  Cards = {c1, c2}
  FirstMembers = {c1, c2}
  FirstNamed = {c1}
  FirstExtras = {}
  Workers = {w1, w2}
  LogoutTime = 1
  IdleTime = 1
  CaptureTime = 2
  NONE = NONE
  MaxScans = 2
  MaxTouches = 1
  MaxEdits = 0
  MaxNights = 1
  MaxCuts = 1
SYMMETRY MCWorkers
INVARIANTS NightTapsNotBooked NamedBeforeOrder
