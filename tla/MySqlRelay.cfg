SPECIFICATION MySqlSpec
CONSTANTS
  MAX_COMMANDS = 2
  MAX_ROUNDS = 1
INVARIANT ResponseRelayed
CHECK_DEADLOCK FALSE
