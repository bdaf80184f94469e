CONSTANTS
    NULL = NULL
    Keys = {k1, k2}
    Workers = {w1, w2}
    CallerReasons = {"compromised"}
    Expiries = {}
    Graces = {1}
    MaxTime = 1
    Operations = {"generate", "draft", "bulk", "reactivate", "rotate", "toggle", "extend", "delete"}
SPECIFICATION Spec
SYMMETRY Symmetry
INVARIANTS
    ActiveIsUnrevoked
PROPERTIES
    ImplementsKeyStore
