CONSTANTS
    alice = alice
    NoPolicy = NoPolicy
    Users = {alice}
    Creds <- MCCreds
    Require <- MCRequire
    PortalUser <- MCPortalUser
    SshConns = {}
    PgConns = {p1}
    MyConns = {}
    Browsers = {b1}
    Portals = {w1, w2}
    Abortable = {p1, b1, w1}
    Ids = {i1}
    NoId = NoId
    NoTask = NoTask
    NoState = NoState
    NoCred = NoCred
SPECIFICATION FairSpec
CHECK_DEADLOCK FALSE
PROPERTIES PgWaitEnds 
