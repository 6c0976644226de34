CONSTANTS
    Server = {1, 2}
    InitialLeader = 1
    Clients = {2}
    EarlyKills = FALSE
    Killable = {}
    MaxKills = 0
    MaxClientRestarts = 0
    MaxBreaks = 0
    MaxElections = 0
SPECIFICATION Spec
PROPERTY
    EveryClientStarts
CHECK_DEADLOCK FALSE
