SPECIFICATION FairSpec
CONSTANTS
    Informers <- VMAndDV
    Requests = {r1}
    NamespaceEnds = TRUE
    MaxUid = 1
    MaxUpdates = 0
    MaxFaults = 1
    k1 = k1
    k2 = k2
    k3 = k3
    k4 = k4
    r1 = r1
    r2 = r2
    NoKey = NoKey
    Keys = {k1, k2, k3, k4}
    HasDomain = FALSE
PROPERTY NamespaceDrains
CHECK_DEADLOCK FALSE
