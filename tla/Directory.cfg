CONSTANTS
    Accounts = {a1}
    Targets = {s1, s2}
    Roles = {ra, rb}
    Users = {u1}
    Hosts = {h1}
    Admins = {x1}
    Secrets = {k1}
    KindOf <- MCKindOf
    BuiltinRole = rb
    Blank = Blank
    None = None
    Omitted = Omitted
SPECIFICATION Spec
INVARIANTS LoginIsBound RoundTripKeepsTarget
PROPERTY HostKeyKept
SYMMETRY Interchangeable
CHECK_DEADLOCK FALSE
