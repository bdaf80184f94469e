CONSTANTS
    NULL = NULL
    Processes = {p1}
    Threads = {t1, t2}
    Kind = "database"
    Limit = 2
    WindowSeconds = 2
    Second = 1
    DefaultTimeout = 1
    Stall = 1
    Faults = {"evict", "outage"}
    Requests = 4
    MaxTime = 3
SPECIFICATION Spec
SYMMETRY Symmetry
INVARIANTS
    NeverDeniedEarly
    CountsAreBacked
