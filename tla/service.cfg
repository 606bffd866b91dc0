SPECIFICATION Spec
CONSTANTS
  Requests = {r1, r2}
  Deps = {"db", "redis"}
  Order <- MCOrder
  Files <- MCFiles
  Envs <- MCEnvs
  Errors <- MCErrors
CHECK_DEADLOCK FALSE
INVARIANTS TypeOK OpenWhileHandling CleanExit AnswersMatchCause ReadyHonest ConfigUsable
PROPERTY SignalEndsRun
