CONSTANTS
    NULL = NULL
    Keys = {k1, k2}
    Clients = {c1, c2}
    CallerReasons = {}
    Expiries = {1}
    Graces = {1}
    Threshold = 1
    Stall = 1
    MaxTime = 2
SPECIFICATION Spec
SYMMETRY Symmetry
CONSTRAINT Crowd
INVARIANTS
    TypeOK
    GuessersLearnNothing
    OnlyLiveKeysGetPast401
    ChecksHold
    UsageIsRecorded
