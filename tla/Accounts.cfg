SPECIFICATION Spec
CONSTANTS
    Account = {a1, a2, a3}
    None = none
    MaxStarts = 6
    MaxKills = 2
INVARIANTS
    LinksLead
    Agrees
PROPERTIES
    AccountsKept
    NoneNeeded
SYMMETRY Symmetry
CHECK_DEADLOCK FALSE
