SPECIFICATION Spec
CONSTANTS
    Kind = {cert, key, chain}
    Cert = cert
    NoKind = NoKind
    MaxVersion = 3
    Keep = 1
    MaxFaults = 2
INVARIANT Servable
