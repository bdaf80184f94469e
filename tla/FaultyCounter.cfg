CONSTANTS
    NULL = NULL
    Processes = {p1}
    Threads = {t1, t2}
    Kind = "redis"
    Limit = 2
    WindowSeconds = 1
    Second = 2
    DefaultTimeout = 5
    Stall = 1
    Faults = {"evict", "outage"}
    Requests = 4
    MaxTime = 4
SPECIFICATION Spec
SYMMETRY Symmetry
INVARIANTS
    TypeOK
    NeverDeniedEarly
    WaitIsOnesOwn
