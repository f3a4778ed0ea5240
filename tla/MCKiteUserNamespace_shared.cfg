SPECIFICATION Spec
CONSTANTS
    u1 = u1
    u2 = u2
    n1 = n1
    n2 = n2
    f1 = f1
    NoUser = NoUser
    NoName = NoName
    Users = {u1, u2}
    Names = {n1, n2}
    Home <- TwoHomes
    Foreign = {}
    ForeignIsolated = {}
    Informers <- UserAndNp
    MaxGen = 2
    MaxFaults = 0
PROPERTIES ReferencedKept
CONSTRAINT OneMoves
CHECK_DEADLOCK FALSE
