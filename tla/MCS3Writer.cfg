SPECIFICATION FairSpec
CONSTANTS
    MaxEvents = 4
    PartSize = 2
    NoChunk = NoChunk
    NoBlob = NoBlob
INVARIANT TypeOK
INVARIANT PipeInv
INVARIANT IndInv
PROPERTY KeepsBlobPromise
PROPERTY CloseReturnsUnlessAborted
CHECK_DEADLOCK FALSE
