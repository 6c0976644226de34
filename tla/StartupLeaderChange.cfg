CONSTANTS
    Server = {1, 2, 3}
    InitialLeader = 1
    Clients = {}
    EarlyKills = TRUE
    Killable = {1, 3}
    MaxKills = 2
    MaxClientRestarts = 0
    MaxBreaks = 0
    MaxElections = 1
SPECIFICATION CrashSpec
PROPERTY
    RestartedServerParticipates
CHECK_DEADLOCK FALSE
