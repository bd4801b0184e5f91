SPECIFICATION FairSpec
CONSTANTS
    Last = 2
    MaxFuncs = 1
    MaxSignals = 1
PROPERTY SignalIsHeeded
CHECK_DEADLOCK FALSE
