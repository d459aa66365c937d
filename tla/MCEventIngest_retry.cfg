SPECIFICATION Spec
CONSTANTS
    Streams = {s1, s2, s3}
    Invocations = {i1}
    Readers = {}
    MaxSeq = 2
    MaxMsgs = 2
    MaxCrashes = 2
    Faults = {"conn"}
    InOrder = TRUE
    Overlap = FALSE
    None = None
INVARIANT IndInv
INVARIANT AckedDurable
INVARIANT RestartRetryExact
SYMMETRY Symmetric
