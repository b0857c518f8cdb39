CONSTANTS
    alice = alice
    NoPolicy = NoPolicy
    Users = {alice, bob}
    Creds <- MCCreds
    Require <- MCRequire
    PortalUser <- MCPortalUser
    SshConns = {s1}
    PgConns = {p1}
    MyConns = {m1}
    Browsers = {}
    Portals = {w1}
    Abortable = {m1}
    Ids = {i1, i2}
    NoId = NoId
    NoTask = NoTask
    NoState = NoState
    NoCred = NoCred
SPECIFICATION Spec
SYMMETRY IdSymmetry
CHECK_DEADLOCK FALSE
INVARIANTS LetInMeetsPolicy
PROPERTIES OnlyOwnerDecides RejectedNeverGoesLive
