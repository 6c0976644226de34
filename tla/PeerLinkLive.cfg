CONSTANTS
    BATCH = 1
    TooBig = {FALSE}
    Ticking = {2}
    MaxConns = 7
    MaxMsgs = 0
    MaxBreaks = 2
    MaxKills = 1
SPECIFICATION Spec
INVARIANT
    CloseSignalWillCome
PROPERTIES
    LinkIsRestored
    ImplementsClusterLinks
CHECK_DEADLOCK FALSE
