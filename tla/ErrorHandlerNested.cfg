SPECIFICATION FairSpec
CONSTANTS
    Last = 3
    MaxFuncs = 2
    MaxSignals = 3
INVARIANTS
    CleanedBeforeGone
PROPERTIES
    CleanupUndisturbed
    HeededUnlessStale
    CleanupEnds
CHECK_DEADLOCK FALSE
