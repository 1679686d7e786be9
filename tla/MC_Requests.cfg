SPECIFICATION FairSpec
CONSTANTS
    c1 = c1  t1 = t1  t2 = t2  r1 = r1  r2 = r2  r3 = r3
    NoCode = NoCode
    NoLink = NoLink
    Targets = {t1, t2}
    FirstId = 1
    Codes = {c1}
    Requests = {r1, r2}
    Calls <- EveryCall
    InitialTables <- ExpiringLink
    Faults = {"db", "client"}
    CacheEnabled = TRUE
    CacheTtl = 1
    CacheJitter = 0
    RequestTimeout = 1
    CleanupPeriod = 1
    MaxAttempts = 2
    WireDelay = 1
    MaxTime = 2
\* Requests are answered once and the clock stops at MaxTime: behaviours end.
CHECK_DEADLOCK FALSE
INVARIANTS
    TypeOK
    ReadsAreCurrent
    RedirectsLiveLinks
    CreatedLinksStay
PROPERTIES
    RepositoryContract
    EveryHttpRequestAnswered
