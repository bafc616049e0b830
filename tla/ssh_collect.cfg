CONSTANTS
    k1 = k1
    k2 = k2
    s1 = s1
    s2 = s2
    nokey = nokey
    Keys <- TwoKeys
    NoKey <- nokey
    Sources <- TwoSources
    Source <- OneAttacker
    BatchSize = 2
    MaxLines = 3
    MaxRotations = 1
    MaxCrashes = 1
    MaxFaults = 1
SPECIFICATION FairSpec
INVARIANTS CountsMatch CursorBehindStore AlertedOnce
PROPERTY EventuallyStored
