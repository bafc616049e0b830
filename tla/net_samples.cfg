CONSTANTS
    lo = lo
    eth = eth
    wifi = wifi
    i1 = i1
    i2 = i2
    Null = null
    Devices <- LoAndTwo
    Loopback = lo
    Indexes <- TwoIndexes
    Detecting = TRUE
    Parts = 2
    MaxTime = 4
    MaxTraffic = 1
    MaxIncidents = 2
SPECIFICATION Spec
INVARIANTS RatesHonest SampledOnce StallBounded TotalsHonest
CHECK_DEADLOCK FALSE
