CONSTANTS
    NULL = NULL
    Keys = {k1, k2, k3}
    CallerReasons = {}
    Expiries = {1}
    Graces = {1}
    MaxDepth = 2
    Failures = FALSE
    Misuse = FALSE
SPECIFICATION Spec
SYMMETRY Symmetry
INVARIANTS
    RevokedStaysRevoked
