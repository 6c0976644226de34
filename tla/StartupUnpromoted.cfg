CONSTANTS
    Server = {1, 2}
    InitialLeader = 1
    Clients = {1}
    EarlyKills = FALSE
    Killable = {}
    MaxKills = 0
    MaxClientRestarts = 0
    MaxBreaks = 0
    MaxElections = 0
SPECIFICATION Spec
PROPERTY
    LeaderPromotedBeforeStart
CHECK_DEADLOCK FALSE
