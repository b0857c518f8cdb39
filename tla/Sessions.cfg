CONSTANTS
    SshSessions = {}
    DbSessions = {d1}
    HttpSessions = {h1}
    Pairs = {a}
    SsoManaged = {a}
    NoPair = NoPair
    MaxFaults = 1
    MaxRefreshes = 1
    MaxCloses = 1
SPECIFICATION Spec
CHECK_DEADLOCK FALSE
INVARIANTS LiveIsRecorded RowFollowsSession
