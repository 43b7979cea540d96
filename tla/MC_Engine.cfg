SPECIFICATION FairSpec
CONSTANTS
    r = r
    a = a
    b = b
    u = u
    Identity <- MCIdentity
    Root <- MCRoot
    Permission <- MCPermission
    MaxActive = 4
    MaxDepth = 2
    MaxVisited = 3
INVARIANTS
    TypeOK
    OnlyAnchored
    AnchorDenialWins
    VerdictIsExact
PROPERTIES
    EveryRequestAnswered
    EvaluationShrinks
