SPECIFICATION Spec
CONSTANTS
    a = a
    b = b
    Domain <- MCDomain
    Domains <- MCDomains
    Port <- MCPort
    HttpPort = 80
    HttpsPort = 443
    Configurations <- MCConfigurations
    Requests <- MCRequests
    MaxStarts = 2
    MaxKills = 1
INVARIANTS
    TypeOK
    NginxAccepts
    ChallengeServed
    HttpsServed
    Restored
CHECK_DEADLOCK FALSE
