SPECIFICATION Spec
CONSTANTS
    r = r
    a = a
    b = b
    u = u
    Identity <- MCIdentity
    Root <- MCRoot
    Permission <- MCDenials
    MaxActive = 5
    MaxDepth = 4
    MaxVisited = 9
INVARIANTS
    MemoIsPathIndependent
