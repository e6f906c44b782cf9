SPECIFICATION Spec
CONSTANTS
  Calls = {c1, c2, c3}
  Connections = 2
  DefaultLimit = 1
  MaxLimit = 2
  Limits = {3}
  NoLimit = NoLimit
  MaxClock = 2
  MaxRestarts = 0
SYMMETRY CallSymmetry
INVARIANTS TypeOK RealTimeOrder NothingKnownIsMissing
PROPERTIES ListsAgree
CHECK_DEADLOCK FALSE
