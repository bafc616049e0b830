CONSTANTS
    p1 = p1
    p2 = p2
    admin = admin
    NoName = none
    Processes <- TwoProcesses
    Names <- OneName
    Scripts <- ThreeScripts
    MaxFaults = 2
SPECIFICATION FairSpec
INVARIANTS VersionMeansApplied CompleteWhenDone AdminOnce
PROPERTY EventuallyApplied
