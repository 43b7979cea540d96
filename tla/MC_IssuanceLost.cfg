SPECIFICATION Spec
CONSTANTS
    p1 = p1
    p2 = p2
    f1 = f1
    Proc <- MCOne
    MayRun <- MCSequential
    Foreign <- MCForeign
    Time <- MCTime
    MaxTime = 2
    MaxIssued = 2
    MaxCrashes = 1
    LogicalSize = 2
    Horizon = 1
    MaxFuture = 0
    TornWrites = FALSE
INVARIANTS
    Resendable
