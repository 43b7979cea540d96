CONSTANTS
    a = a
    b = b
    Issuer = {a, b}
    Op <- MCOp
    Message <- MCMessage
    Time = {0, 2}
    Horizon = 1
    MaxFuture = 0
    PageSize = 1
    MaxSent = 2
    MaxFails = 1
SPECIFICATION FairSpec
INVARIANTS TypeOK NothingLostUnlessFailed 
PROPERTIES QueuedArrives 
CHECK_DEADLOCK FALSE
