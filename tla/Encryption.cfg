CONSTANTS
    Requests = {r1, r2}
    Passwords = {p, q}
    MaxDeks = 2
    MaxFaults = 1
    None = None
SPECIFICATION Spec
INVARIANTS DataRecoverable KeyOpensDatabase
