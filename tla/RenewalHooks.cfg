SPECIFICATION Spec
CONSTANTS
    LastLineage = 2
    MaxStarts = 2
    MaxKills = 1
    Hook = {web}
    WebServer = web
    Challenge = {c1, c2}
    Setups <- MCSetups
INVARIANTS
    PortFree
    NothingLeft
    RenewedIsDeployed
    ServerComesBack
CHECK_DEADLOCK FALSE
