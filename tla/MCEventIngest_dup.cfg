SPECIFICATION Spec
CONSTANTS
    Streams = {s1, s2}
    Invocations = {i1}
    Readers = {}
    MaxSeq = 2
    MaxMsgs = 2
    MaxCrashes = 0
    Faults = {"conn"}
    InOrder = TRUE
    Overlap = FALSE
    None = None
INVARIANT NoDuplicatedInvocation
CHECK_DEADLOCK FALSE
