SPECIFICATION FairSpec
CONSTANTS
    MaxEvents = 4
    PartSize = 2
    NoChunk = NoChunk
    NoBlob = NoBlob
CHECK_DEADLOCK FALSE
PROPERTY CloseReturns
