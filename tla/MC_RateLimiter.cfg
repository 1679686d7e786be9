SPECIFICATION MCSpec
CONSTANTS
    key = key  addr = addr  w1 = w1  w2 = w2
    Absent = Absent
    Callers <- MCCallers
    Workers = {w1, w2}
    Capacity = 1
    Period = 3
    Second = 1
    Precision = 2
    Ttl = 1
    MaxDelay = 1
    MaxTime = 3
SYMMETRY Symmetry
INVARIANTS
    TypeOK
    AdmittedBounded
    ForgottenSeldom
    SweptBeforeUse
PROPERTIES
    RetryAfterKept
