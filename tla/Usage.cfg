CONSTANTS
    NULL = NULL
    Keys = {k1}
    Clients = {c1, c2}
    CallerReasons = {}
    Expiries = {}
    Graces = {1}
    Threshold = 2
    Stall = 1
    MaxTime = 3
SPECIFICATION Spec
SYMMETRY Symmetry
INVARIANTS
    UsageIsRecorded
    UsageInv
