CONSTANTS
    NULL = NULL
    Keys = {k1, k2}
    Workers = {w1, w2}
    CallerReasons = {"compromised"}
    Expiries = {}
    Graces = {1}
    MaxTime = 0
    Operations = {"generate", "revoke", "bulk", "rotate", "delete", "abort"}
SPECIFICATION FairSpec
INVARIANTS
    EarlyReturnIsSafe
PROPERTIES
    EveryCallReturns
