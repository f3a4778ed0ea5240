SPECIFICATION Spec
CONSTANTS
    Informers <- VMAndKV
    Requests = {r1}
    NamespaceEnds = FALSE
    MaxUid = 2
    MaxUpdates = 0
    MaxFaults = 0
    k1 = k1
    k2 = k2
    k3 = k3
    k4 = k4
    r1 = r1
    r2 = r2
    NoKey = NoKey
    Keys = {k1, k2, k3, k4}
    HasDomain = FALSE
PROPERTY EnsuredKeyMatches
CHECK_DEADLOCK FALSE
