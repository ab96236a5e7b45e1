\* Two requests present one refresh token.
SPECIFICATION Spec
CONSTANTS
    Users = {u1}
    Roles = {driver}
    DefaultRole = driver
    Tokens = {t1, t2, t3}
    Requests = {r1, r2}
    MaxAttempts = 2
    LockDuration = 1
    Lifetime = 1
    Retention = 1
    MaxTime = 0
    MaxFailures = 0
    None = None
SYMMETRY Symmetry
INVARIANTS
    ExchangedOnce
CHECK_DEADLOCK FALSE
