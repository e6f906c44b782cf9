SPECIFICATION Spec
CONSTANTS
  Requests = {r1, r2}
  None = None
  ReviewThreshold = 2
  U128Max = 4
  Intents <- AllIntents
  Signers <- AllSigners
  PostgresAudit = TRUE
  MaxRestarts = 1
SYMMETRY RequestSymmetry
INVARIANTS SignedValueIsWithinMaximum
CHECK_DEADLOCK FALSE
