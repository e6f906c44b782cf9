SPECIFICATION FairSpec
CONSTANTS
  Jobs = {j1, j2, j3}
  None = None
  Capacity = 1
  RpcUrls = {TRUE, FALSE}
  PostgresAudit = FALSE
  MaxRestarts = 0
INVARIANTS NobodyIsStuck
PROPERTIES EveryRequestEnds AcknowledgedIsSettled PollIsAnswered SettledWithoutNode
CHECK_DEADLOCK FALSE
