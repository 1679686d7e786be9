SPECIFICATION FairSpec
CONSTANTS
    Codes = {1, 2}
    Backends = {"postgres"}
    Protocol = "grpc"
    PageSize = 1
    Second = 2
    CommitDelay = 0
    MaxTime = 0
CHECK_DEADLOCK FALSE
PROPERTIES
    WalkEnds
