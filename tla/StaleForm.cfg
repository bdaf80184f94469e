CONSTANTS
    NULL = NULL
    Keys = {k1}
    Workers = {w1, w2}
    CallerReasons = {"compromised"}
    Expiries = {}
    Graces = {1}
    MaxTime = 1
    Operations = {"generate", "revoke", "edit"}
SPECIFICATION Spec
SYMMETRY Symmetry
PROPERTIES
    InactiveStaysInactive
