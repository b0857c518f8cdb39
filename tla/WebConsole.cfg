SPECIFICATION MCSpec
CONSTANTS
  FileKeys = {"a", "b"}
  FileReqs = {"r1", "r2"}
  Owner <- MCOwner
  MAX_CONNECTIONS_PER_USER = 1
  Terms = {"t1", "t2"}
  MAX_SESSIONS_PER_USER = 1
  Workers = 3
  HostKeyModes = {"AutoAccept", "AutoReject", "Prompt"}
  SqlReqs = {"q1", "q2"}
  Logins = {"acct"}
  Sqls <- MCSqls
  MAX_EDITS = 1
INVARIANTS SlotsMatchTerminals FreshOptions 
PROPERTIES OwnPumpDrops ClosedFilesEnd 
CHECK_DEADLOCK FALSE
