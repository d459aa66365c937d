SPECIFICATION Spec
CONSTANTS
    Streams = {s1, s2}
    Invocations = {i1}
    Readers = {r1}
    MaxSeq = 2
    MaxMsgs = 2
    MaxCrashes = 0
    Faults = {"open", "write", "close"}
    InOrder = FALSE
    Overlap = TRUE
    None = None
INVARIANT TypeOK
INVARIANT WriterOwned
INVARIANT AckOnlyComplete
INVARIANT IndexedComplete
INVARIANT ReadsCommitted
SYMMETRY Symmetric
