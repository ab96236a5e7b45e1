\* Two requests on one account, with lockout, rotation, expiry and cleanup.
SPECIFICATION Spec
CONSTANTS
    Users = {u1}
    Roles = {driver}
    DefaultRole = driver
    Tokens = {t1, t2}
    Requests = {r1, r2}
    MaxAttempts = 2
    LockDuration = 1
    Lifetime = 1
    Retention = 1
    MaxTime = 3
    MaxFailures = 3
    None = None
SYMMETRY Symmetry
INVARIANTS
    TypeOK
    LockMatchesFailures
    RotatedIsRevoked
    DeletedUserIsOut
PROPERTIES
    SessionsEndByRevocation
\* The clock reaches its bound and the user is deleted: the system may stop.
CHECK_DEADLOCK FALSE
