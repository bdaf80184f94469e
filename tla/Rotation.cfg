CONSTANTS
    NULL = NULL
    Keys = {k1, k2, k3}
    Workers = {w1, w2}
    CallerReasons = {"compromised"}
    Expiries = {1}
    Graces = {0, 2}
    MaxTime = 1
    Operations = {"generate", "reactivate", "rotate", "abort", "failure"}
SPECIFICATION Spec
SYMMETRY Symmetry
INVARIANTS
    TypeOK
    AtMostOneLiveReplacement
    RotationInv
    RotatesWhatItRead
PROPERTIES
    RotationNeverExtendsLife
    OnlyRestorersRestore
