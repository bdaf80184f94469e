CONSTANTS
    NULL = NULL
    Keys = {k1, k2, k3}
    CallerReasons = {}
    Expiries = {1}
    Graces = {1}
    MaxDepth = 0
    Failures = FALSE
    Misuse = TRUE
SPECIFICATION Spec
SYMMETRY Symmetry
INVARIANTS
    ReceiversBreakNothing
