SPECIFICATION Spec
CONSTANTS
  Half = 8
  Missing = Missing
  Unset = Unset
  Stranger = Stranger
  None = None
  DefaultSkew = 2
  Envs <- SomeEnvs
  Clients <- BothClients
  Bodies <- SomeBodies
  TooLarge <- LargeBodies
  Drifts <- SomeDrifts
  MaxClock = 2
  MaxSent = 1
  MaxRestarts = 1
INVARIANTS TypeOK HandledIsAuthentic HonestIsServed ProofsAreToldApart
CHECK_DEADLOCK FALSE
