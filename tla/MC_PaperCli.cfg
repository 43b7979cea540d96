CONSTANTS
    d1 = d1
    d2 = d2
    d3 = d3
    d4 = d4
    Delta = {d1, d2, d3, d4}
    Size <- MCSize
    Header = 1
    Budget = 4
    Mdu = 6
    Overheads = {1, 3, 4}
    Boxes <- MCBoxes
    Routed = FALSE
    MaxImports = 2
SPECIFICATION Spec
INVARIANT ScannedArrives
CHECK_DEADLOCK FALSE
