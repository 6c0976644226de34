CONSTANTS
    Server = {1, 2, 3}
    InitialLeader = 1
    Clients = {}
    EarlyKills = FALSE
    Killable = {1}
    MaxKills = 1
    MaxClientRestarts = 0
    MaxBreaks = 0
    MaxElections = 1
SPECIFICATION RunningSpec
PROPERTY
    RestartedLeaderStepsDown
CHECK_DEADLOCK FALSE
