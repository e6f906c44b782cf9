SPECIFICATION FairSpec
CONSTANTS
  Calls = {c1, c2}
  Connections = 1
  DefaultLimit = 1
  MaxLimit = 2
  Limits = {0, 3}
  NoLimit = NoLimit
  MaxClock = 1
  MaxRestarts = 1
PROPERTIES KeepsAuditPromise EveryCallEnds
CHECK_DEADLOCK FALSE
