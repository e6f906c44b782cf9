SPECIFICATION Spec
CONSTANTS
  Jobs = {j1, j2, j3}
  None = None
  Capacity = 1
  RpcUrls = {TRUE, FALSE}
  PostgresAudit = TRUE
  MaxRestarts = 1
SYMMETRY JobSymmetry
PROPERTIES SettledForGood KeepsPromise
INVARIANTS TypeOK JobHasQueuedRow PostedAtMostOnce SubmittedIsOnChain AcknowledgedIsOwned AcknowledgedIsAudited AuditAgreesWithRow UnknownOnlyAfterRestart
CHECK_DEADLOCK FALSE
