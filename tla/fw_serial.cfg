CONSTANTS
    t1 = t1
    t2 = t2
    main = main
    i1 = i1
    i2 = i2
    noip = noip
    Threads <- OneThread
    Main <- main
    IPs <- TwoIps
    NoIp <- noip
    Networks <- SubnetNets
    Ops <- EveryOp
    Attackers <- OneIp
    MaxRows = 2
    MaxCrashes = 2
    FaultsPerRequest = 2
    LateEffects = FALSE
    Misreads = FALSE
SPECIFICATION FairSpec
INVARIANTS TypeOK SyncedRowsEnforced NoOrphanElement AllowlistRespected
PROPERTY RequestsReturn
VIEW Observable
