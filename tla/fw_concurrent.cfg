CONSTANTS
    t1 = t1
    t2 = t2
    main = main
    i1 = i1
    i2 = i2
    noip = noip
    Threads <- TwoThreads
    Main <- main
    IPs <- OneIp
    NoIp <- noip
    Networks <- HostNets
    Ops <- EveryOp
    Attackers <- Nobody
    MaxRows = 2
    MaxCrashes = 0
    FaultsPerRequest = 1
    LateEffects = TRUE
    Misreads = TRUE
SPECIFICATION Spec
INVARIANTS OneActiveRow ExpiryAccounted LedgerAudited
PROPERTY LedgerSpec
SYMMETRY ThreadSymmetry
VIEW LedgerView
