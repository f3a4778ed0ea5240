CONSTANTS
    p1 = p1
    p2 = p2
    r1 = r1
    r2 = r2
    Apis = {p1, p2}
    Reqs = {r1, r2}
    Seeds <- MCSeeds
    MaxFaults = 1
SPECIFICATION Spec
CHECK_DEADLOCK FALSE
INVARIANTS
    Inductive
    SettingsKept
    SecretsKept
    LegacyGone
PROPERTY
    BootsComplete
