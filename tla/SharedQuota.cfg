CONSTANTS
    NULL = NULL
    Processes = {p1, p2}
    Threads = {t1, t2}
    Kind = "redis"
    Limit = 2
    WindowSeconds = 1
    Second = 2
    DefaultTimeout = 5
    Stall = 0
    Faults = {"outage"}
    Requests = 5
    MaxTime = 3
SPECIFICATION Spec
SYMMETRY Symmetry
INVARIANTS
    TypeOK
    QuotaPerWindow
    Exactness
    NeverDeniedEarly
    WaitIsOnesOwn
