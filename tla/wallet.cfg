SPECIFICATION FairSpec
CONSTANTS
  Jobs = {j1, j2, j3}
  None = None
  Capacity = 1
  RpcUrls = {TRUE}
  Requests = {r1}
  ReviewThreshold = 1
  U128Max = 2
  Intents <- OneIntent
  Signers <- TwoSigners
  PostgresAudit = FALSE
  MaxRestarts = 1
  MaxAccepted = 3
INVARIANTS OpenRequestsAreServed
PROPERTIES DrainEnds
CHECK_DEADLOCK FALSE
