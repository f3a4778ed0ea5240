CONSTANTS
    a = a
    b = b
    x1 = x1
    x2 = x2
    e1 = e1
    e2 = e2
    s1 = s1
    s2 = s2
    v1 = v1
    v2 = v2
    r1 = r1
    r2 = r2
    r3 = r3
    NoUser = NoUser
    NoName = NoName
    NoNamespace = NoNamespace
    NoEmail = NoEmail
    NoVM = NoVM
    NoId = NoId
    Users <- MCUsers
    Namespaces <- MCUsers
    Usernames <- MCUsernames
    Emails <- MCEmails
    VMs <- MCVMs
    SshIds <- MCSshIds
    Reqs <- MCReqs
    Quota = 1
    Wanted <- MCWanted
    Seeds <- MCSeeds
SPECIFICATION Spec
SYMMETRY Symmetry
CHECK_DEADLOCK FALSE
INVARIANTS
    Inductive
    LevelsGranted
    SignUpsUnique
    SshIdsUnique
    QuotaHeld
    SweptWithUser
PROPERTY
    FirstIsAdmin
