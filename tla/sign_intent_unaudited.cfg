SPECIFICATION FairSpec
CONSTANTS
  Requests = {r1, r2}
  None = None
  ReviewThreshold = 2
  U128Max = 4
  Intents <- FewIntents
  Signers <- AllSigners
  PostgresAudit = FALSE
  MaxRestarts = 0
PROPERTIES SignatureIsAudited
CHECK_DEADLOCK FALSE
