SPECIFICATION Spec
CONSTANTS
    Streams = {s1}
    Invocations = {i1}
    Readers = {}
    MaxSeq = 2
    MaxMsgs = 2
    MaxCrashes = 0
    Faults = {}
    InOrder = FALSE
    Overlap = FALSE
    None = None
INVARIANT OutOfOrderFails
CHECK_DEADLOCK FALSE
