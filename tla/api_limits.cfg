CONSTANTS
    t1 = t1
    t2 = t2
    n1 = n1
    n2 = n2
    n3 = n3
    c1 = c1
    c2 = c2
    Threads <- TwoThreads
    Names <- ThreeNames
    Clients <- TwoClients
    LoginLimit = 2
    BlockTime = 2
    WriteLimit = 2
    Window = 2
    TableLimit = 1
    MaxTime = 3
    MaxRequests = 5
SPECIFICATION Spec
INVARIANTS TablesBounded LockoutCounts BurstBounded
PROPERTY BlockStands
SYMMETRY Symmetry
CHECK_DEADLOCK FALSE
