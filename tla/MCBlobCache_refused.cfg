SPECIFICATION Spec
CONSTANTS
    Calls = {c1}
    Names = {a, b}
    Kinds = {"tee"}
    MaxBytes = 1
    Faults = {"backing"}
    None = None
INVARIANT CacheFollowsBacking
