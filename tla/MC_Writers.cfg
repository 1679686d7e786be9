SPECIFICATION Spec
CONSTANTS
    c1 = c1  t1 = t1  t2 = t2  r1 = r1  r2 = r2  r3 = r3
    NoCode = NoCode
    NoLink = NoLink
    Targets = {t1, t2}
    FirstId = 1
    Codes = {c1}
    Requests = {r1, r2, r3}
    Calls <- WriteCalls
    InitialTables <- OneLink
    Faults = {}
    CacheEnabled = FALSE
    CacheTtl = 1
    CacheJitter = 0
    RequestTimeout = 1
    CleanupPeriod = 9
    MaxAttempts = 2
    WireDelay = 1
    MaxTime = 2
SYMMETRY Symmetry
\* Requests are answered once and the clock stops at MaxTime: behaviours end.
CHECK_DEADLOCK FALSE
INVARIANTS
    NoLostUpdate
    HitsExact
    AcknowledgedWritesAreSeen
PROPERTIES
    NotFoundIsTrue
