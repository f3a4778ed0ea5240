SPECIFICATION FairSpec
CONSTANTS
    Informers <- VMAndKV
    Requests = {r1}
    NamespaceEnds = FALSE
    MaxUid = 1
    MaxUpdates = 1
    MaxFaults = 0
    k1 = k1
    k2 = k2
    k3 = k3
    k4 = k4
    r1 = r1
    r2 = r2
    NoKey = NoKey
    Keys = {k1, k2, k3, k4}
    HasDomain = FALSE
PROPERTIES DeletionCompletes PowerConverges
CHECK_DEADLOCK FALSE
