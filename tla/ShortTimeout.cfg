CONSTANTS
    NULL = NULL
    Processes = {p1}
    Threads = {t1}
    Kind = "database"
    Limit = 1
    WindowSeconds = 2
    Second = 1
    DefaultTimeout = 1
    Stall = 0
    Faults = {}
    Requests = 4
    MaxTime = 3
SPECIFICATION Spec
SYMMETRY Symmetry
INVARIANTS
    QuotaPerWindow
