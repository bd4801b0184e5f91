SPECIFICATION FairSpec
CONSTANTS
    Domain = {d1, d2, d3}
    MaxRetries = 3
    Nonce = {n1, n2}
INVARIANTS
    TypeOK
    PresentedWhileChecked
    NothingLeftBehind
    FreshNonces
PROPERTIES
    ClientEnds
CHECK_DEADLOCK FALSE
