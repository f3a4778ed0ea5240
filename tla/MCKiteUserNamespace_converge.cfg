SPECIFICATION FairSpec
CONSTANTS
    u1 = u1
    u2 = u2
    n1 = n1
    n2 = n2
    f1 = f1
    NoUser = NoUser
    NoName = NoName
    Users = {u1}
    Names = {n1, n2, f1}
    Home <- OneHome
    Foreign = {f1}
    ForeignIsolated = {f1}
    Informers <- UserAndNs
    MaxGen = 2
    MaxFaults = 1
INVARIANTS Inductive ForeignUntouched
PROPERTIES ReferencedKept NamespaceProvided OrphansCollected
CHECK_DEADLOCK FALSE
