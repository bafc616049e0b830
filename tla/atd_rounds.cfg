CONSTANTS
    norate = norate
    NIfaces = 2
    Rates <- TwoRates
    NoRate <- norate
    FixedThreshold = 0
    Ratio = 2
    Window = 3
    Warmup = 2
    Anomalies = 2
    Normals = 2
    MaxRestarts = 1
    MaxFaults = 1
SPECIFICATION FairSpec
INVARIANTS OpenAlertFollowed SustainedRaises
PROPERTIES SpikeStaysAnomalous OpenAlertCloses
