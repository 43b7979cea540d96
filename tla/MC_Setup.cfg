CONSTANTS
    MaxKeys = 3
    MaxSalts = 4
    MaxIssued = 2
    MaxSets = 1
    MaxKills = 1
    Other = {other}
SPECIFICATION Spec
INVARIANTS TypeOK SelfAnchored RetiredIsNoAnchor TwoRotationsOfGrace LaterDenialCounts
CHECK_DEADLOCK FALSE
