CONSTANTS
    Server = {1, 2}
    InitialLeader = 1
    Clients = {}
    EarlyKills = TRUE
    Killable = {1}
    MaxKills = 1
    MaxClientRestarts = 0
    MaxBreaks = 0
    MaxElections = 0
SPECIFICATION Spec
PROPERTY
    EstablishEnds
CHECK_DEADLOCK FALSE
