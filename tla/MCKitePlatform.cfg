CONSTANTS
    h1 = h1
    r1 = r1
    r2 = r2
    NoHost = NoHost
    NoPort = 0
    Hosts <- MCHosts
    Ports <- MCPorts
    Reqs <- MCReqs
    Seeds <- MCSeeds
    MaxFaults = 1
SPECIFICATION Spec
CHECK_DEADLOCK FALSE
INVARIANTS
    Inductive
    ForcedHasCertificate
    UploadKept
PROPERTIES
    ExposureConverges
    IngressConverges
