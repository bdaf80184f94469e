CONSTANTS
    NULL = NULL
    Garbage = Garbage
    h1 = h1
    h2 = h2
    word = word
    r1 = r1
    r2 = r2
    Hosts <- MCHosts
    Plain <- MCPlain
    Draws <- MCDraws
    MaxPrefix = 3
    Prefixes <- MCPrefixes
    Served = {"production", "staging"}
    UsedIn = {"production", "test"}
    ScopeValues <- MCScopes
    IPValues <- MCIPs
    RawWrites = FALSE
    Required <- MCRequired
    Views <- MCViews
    Sources <- MCSources
SPECIFICATION Spec
INVARIANTS
    TypeOK
    AnswersByTheRules
    CountedOnce
    PrefixSurvivesRotation
    RotationKeepsGrants
