CONSTANTS
    SshSessions = {s1}
    DbSessions = {}
    HttpSessions = {}
    Pairs = {a}
    SsoManaged = {}
    NoPair = NoPair
    MaxFaults = 0
    MaxRefreshes = 0
    MaxCloses = 2
    Domains = {"d1", "d2"}
    Edits = {"e1", "e2"}
    MAX_FAILURES = 1
    MAX_AGED = 1
SPECIFICATION ServicesSpec
CHECK_DEADLOCK FALSE
PROPERTIES RevokedIsClosed  ShutdownEnds  EnabledIsCovered
