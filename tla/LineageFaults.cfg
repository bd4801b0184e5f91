SPECIFICATION FairSpec
CONSTANTS
    Kind = {cert, key, chain}
    Cert = cert
    NoKind = NoKind
    MaxVersion = 4
    Keep = 1
    MaxFaults = 2
INVARIANTS
    OneVersion
    SuccessorIsNew
PROPERTIES
    
    LatestIsDeployed
