SPECIFICATION FairSpec
CONSTANTS
    Ids = {"a", "b", "c"}
    MaxTime = 3
    Filters <- MCFilters
    NoFilter <- MCNoFilter
    PageSize = 1
    MaxRequests = 3
    None = None
INVARIANTS
    NoRowTwice
    SkipsOnlyTies
    ListIsForFilter
PROPERTY LoadingEnds
CHECK_DEADLOCK FALSE
