SPECIFICATION ParserSpec
CONSTANTS
    Empty = Empty
    NoText = Empty
    NoURI = NoURI
    NoId = NoId
    NoDetail = NoDetail
    NoFile = NoFile
    NoTime = NoTime
    Events <- MCEvents
    normalizeRepoURL <- MCNormalize
    branchOfRef <- MCBranchOfRef
    MaxEvents = 4
INVARIANTS
    HighestPriorityWins
    TagsKept
    LowerTagsFirst
    DurationFromLatestStart
    DetailOutputsComplete
    DetailResendDoublesLists
    DetailTestVerdictStands
CONSTRAINT OneView
CHECK_DEADLOCK FALSE
