CONSTANTS
    NULL = NULL
    Keys = {k1}
    Workers = {w1}
    CallerReasons = {"compromised"}
    Expiries = {}
    Graces = {1}
    MaxTime = 1
    Operations = {"generate", "revoke", "failure"}
SPECIFICATION Spec
SYMMETRY Symmetry
INVARIANTS
    EarlyReturnIsSafe
