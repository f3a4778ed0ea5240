CONSTANTS
    i1 = i1
    v1 = v1
    v2 = v2
    v3 = v3
    c1 = c1
    NoVM = NoVM
    NoId = NoId
    VMs <- MCVMs
    Ids <- MCIds
    Conns <- MCConns
    Seeds <- MCSeeds
    MaxChanges = 2
SPECIFICATION Spec
CHECK_DEADLOCK FALSE
INVARIANTS
    Inductive
    ConnectedToOwner
PROPERTIES
    TableConverges
    Served
