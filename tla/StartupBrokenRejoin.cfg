CONSTANTS
    Server = {1, 2}
    InitialLeader = 1
    Clients = {}
    EarlyKills = FALSE
    Killable = {2}
    MaxKills = 1
    MaxClientRestarts = 0
    MaxBreaks = 1
    MaxElections = 0
SPECIFICATION RunningSpec
PROPERTY
    RestartedServerReconnects
CHECK_DEADLOCK FALSE
