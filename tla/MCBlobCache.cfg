SPECIFICATION Spec
CONSTANTS
    Calls = {c1, c2, c3}
    Names = {a, b}
    Kinds = {"read", "put", "tee", "delete"}
    MaxBytes = 1
    Faults = {"backing", "cache"}
    None = None
INVARIANT TypeOK
INVARIANT CachedAcceptedOrReported
INVARIANT QuietWithinLimit
INVARIANT ReadFindsWritten
INVARIANT WaiterHasLeader
SYMMETRY CacheSymmetry
