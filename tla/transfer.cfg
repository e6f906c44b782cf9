SPECIFICATION Spec
CONSTANTS
  Clients = {c1, c2}
  Orders <- AllOrders
  HandMade <- SomeTxs
  RpcUrl = TRUE
  PostgresAudit = TRUE
SYMMETRY ClientSymmetry
INVARIANTS PreparedPassesEveryParser DefaultGasIsEnough FailureIsExplained AnsweredIsAudited
CHECK_DEADLOCK FALSE
