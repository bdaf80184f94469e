CONSTANTS
    NULL = NULL
    Keys = {k1}
    Workers = {w1, w2}
    CallerReasons = {"compromised", "leaked"}
    Expiries = {}
    Graces = {1}
    MaxTime = 1
    Operations = {"generate", "revoke"}
SPECIFICATION Spec
SYMMETRY Symmetry
PROPERTIES
    RevocationRecordKept
