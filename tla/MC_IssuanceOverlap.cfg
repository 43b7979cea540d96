SPECIFICATION Spec
CONSTANTS
    p1 = p1
    p2 = p2
    f1 = f1
    Proc <- MCTwo
    MayRun <- MCOverlap
    Foreign = {}
    Time <- MCTime
    MaxTime = 1
    MaxIssued = 2
    MaxCrashes = 1
    LogicalSize = 2
    Horizon = 1
    MaxFuture = 0
    TornWrites = TRUE
INVARIANTS
    StampsIncrease
    SentWasTaken
    ClockCoversState
