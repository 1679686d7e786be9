SPECIFICATION FairSpec
CONSTANTS
    Codes = {1, 2, 3}
    Backends = {"postgres", "memory"}
    Protocol = "http"
    PageSize = 2
    Second = 2
    CommitDelay = 1
    MaxTime = 2
CHECK_DEADLOCK FALSE
INVARIANTS
    TypeOK
    WalkIsComplete
PROPERTIES
    WalkDescends
    WalkEnds
