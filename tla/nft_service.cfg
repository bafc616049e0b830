CONSTANTS
    t1 = t1
    t2 = t2
    i4 = i4
    i6 = i6
    Threads <- TwoThreads
    IPs <- BothFamilies
    SetFor <- FamilySets
    MaxFaults = 2
    MaxDeaths = 1
    Misreads = TRUE
SPECIFICATION FairSpec
INVARIANT QuietDropped
PROPERTIES EventuallyDropped AtomicSpec
