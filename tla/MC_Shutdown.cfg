SPECIFICATION FairSpec
CONSTANTS
    h1 = h1  h2 = h2  g1 = g1  g2 = g2
    HttpRequests = {h1, h2}
    GrpcRequests = {g1}
    AuthEnabled = TRUE
    GrpcAddrValid = TRUE
    GrpcPortFree = TRUE
    DescriptorFound = TRUE
    PoolUsed = TRUE
    RequestTimeout = 2
    ReadyTimeout = 1
    SlowTime = 3
    ShutdownTimeout = 1
    CleanupPeriod = 2
    WorkerThreads = 1
    MaxTime = 1
\* The process exits.
CHECK_DEADLOCK FALSE
INVARIANTS
    TypeOK
    OneServerDrains
    PurgeGetsTimeout
    StopsOnlyWhenTold
    ExitInTime
PROPERTIES
    SignalLeadsToExit
    ReadyIsTimely
