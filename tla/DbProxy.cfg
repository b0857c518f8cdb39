SPECIFICATION DbProxySpec
CONSTANTS
  PgSqls = {"a", "b"}
  MAX_MESSAGES = 5
  IDLE_TIMEOUT = 1
  MAX_COMMANDS = 2
  MAX_ROUNDS = 1
INVARIANTS SecretsOverTls  ReadyPerCycle 
CHECK_DEADLOCK FALSE
