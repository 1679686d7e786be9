SPECIFICATION Spec
CONSTANTS
    h1 = h1  h2 = h2  g1 = g1  g2 = g2
    HttpRequests = {h1}
    GrpcRequests = {}
    AuthEnabled = TRUE
    GrpcAddrValid = TRUE
    GrpcPortFree = TRUE
    DescriptorFound = TRUE
    PoolUsed = TRUE
    RequestTimeout = 2
    ReadyTimeout = 1
    SlowTime = 3
    ShutdownTimeout = 2
    CleanupPeriod = 2
    WorkerThreads = 1
    MaxTime = 3

\* The process exits.
CHECK_DEADLOCK FALSE
INVARIANTS
    InFlightRequestsFinish
