SPECIFICATION MCSpec
CHECK_DEADLOCK FALSE
CONSTANTS
    Users = {"alice", "bob"}
    Cookies = {"c1", "c2", "c3"}
    Requests = {r1, r2}
    Tickets = {"k1"}
    PER_USER_LIMIT = 2
    PER_ACCOUNT_LIMIT = 1
    MaxTime = 4
    Counters = {1, 2}
INVARIANTS RevokedStaysOut  TicketUsesHold CodeAcceptedOnce
SYMMETRY RequestSymmetry
