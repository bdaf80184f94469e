CONSTANTS
    NULL = NULL
    Processes = {p1}
    Threads = {t1, t2}
    Kind = "redis"
    Limit = 1
    WindowSeconds = 1
    Second = 2
    DefaultTimeout = 5
    Stall = 1
    Faults = {}
    Requests = 4
    MaxTime = 3
SPECIFICATION Spec
SYMMETRY Symmetry
INVARIANTS
    QuotaPerWindow
