SPECIFICATION Spec
CONSTANTS
    Browsers = {b1, b2}
    Users = {u1, u2}
    MaxLogins = 2
    MaxRequests = 3
    MaxTime = 2
    SessionLifetime = 1
    LoginStateLifetime = 1
    None = None
    Keep = Keep
SYMMETRY Symmetry
INVARIANTS
    SessionIsOwn
    ServedInTime
    StateSingleUse
    RefusedForAReason
CHECK_DEADLOCK FALSE
