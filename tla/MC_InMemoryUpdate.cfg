SPECIFICATION Spec
CONSTANTS
    c1 = c1  t1 = t1  h1 = h1  h2 = h2
    NoLink = NoLink
    Codes = {c1}
    Targets = {t1}
    Threads = {h1, h2}
    Ttls = {0, 2}
    Versions = {1}
    WindowSize = 3
    Start = 4
    MaxTime = 8
    MaxHits = 3
    MaxVersion = 3
INVARIANTS
    NoLostUpdate
