SPECIFICATION Spec
CONSTANTS
    r = r
    a = a
    b = b
    u = u
    Identity <- MCIdentity
    Root <- MCRoot
    Permission <- MCPermission
    MaxActive = 4
    MaxDepth = 4
    MaxVisited = 1
INVARIANTS
    FailsOverTheCap
