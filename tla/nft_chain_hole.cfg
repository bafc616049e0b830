CONSTANTS
    t1 = t1
    t2 = t2
    i4 = i4
    i6 = i6
    Threads <- OneThread
    IPs <- BothFamilies
    SetFor <- FamilySets
    MaxFaults = 1
    MaxDeaths = 0
    Misreads = FALSE
SPECIFICATION Spec
INVARIANTS SuccessfulBlockDrops
