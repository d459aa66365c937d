SPECIFICATION Spec
CONSTANTS
    Requests = {r1, r2}
    Invocations = {i1, i2}
    URIs = {"out", "other", "local"}
    MissingURI = MissingURI
    Nobody = Nobody
    NoURI = NoURI
    Hosts = {"h1", "h2"}
    HostOf <- MCHostOf
    EventLogs <- MCEventLogs
    NoLog = NoLog
    FileName <- fileForURI
    NotReported = NoFile
    NoText = NoText
    NoId = NoId
    NoDetail = NoDetail
    NoFile = NoFile
    ChunkSizes = {0, 1, 2}
    MaxChunks = 3
    MaxSizeBytes = 3
INVARIANTS
    ErrorNeverStitched
    WithinMaxSize
    OnlyReported
    OneConnPerHost
CHECK_DEADLOCK FALSE
