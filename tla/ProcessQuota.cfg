CONSTANTS
    NULL = NULL
    Processes = {p1, p2}
    Threads = {t1, t2}
    Kind = "locmem"
    Limit = 1
    WindowSeconds = 1
    Second = 2
    DefaultTimeout = 5
    Stall = 0
    Faults = {}
    Requests = 6
    MaxTime = 3
SPECIFICATION Spec
SYMMETRY Symmetry
INVARIANTS
    QuotaPerWindow
