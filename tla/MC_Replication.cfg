SPECIFICATION Spec
CONSTANTS
    n1 = n1
    n2 = n2
    t1 = t1
    Node <- MCNode
    Tuple <- MCTuple
    IssuerOf <- MCIssuerOf
    Time <- MCTime
    MaxTime = 3
    MaxOps = 3
    LogicalSize = 2
    Horizon = 1
    MaxFuture = 1
INVARIANTS
    TypeOK
    LastDecisionWins
    Convergence
    IssueOrder
    PruningBoundsPairs
PROPERTIES
    ImplementsDecisions
