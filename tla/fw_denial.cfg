CONSTANTS
    t1 = t1
    t2 = t2
    main = main
    i1 = i1
    i2 = i2
    noip = noip
    Threads <- OneThread
    Main <- main
    IPs <- OneIp
    NoIp <- noip
    Networks <- HostNets
    Ops <- BlockAllow
    Attackers <- Nobody
    MaxRows = 1
    MaxCrashes = 0
    FaultsPerRequest = 0
    LateEffects = FALSE
    Misreads = FALSE
SPECIFICATION Spec
INVARIANTS DenialAudited
