CONSTANTS
    Server = {1, 2, 3}
    InitialLeader = 1
    Clients = {2}
    EarlyKills = FALSE
    Killable = {1, 2, 3}
    MaxKills = 1
    MaxClientRestarts = 0
    MaxBreaks = 0
    MaxElections = 1
SPECIFICATION StartOrRunningSpec
INVARIANT
    NoFollowerLeftBehind
PROPERTIES
    EstablishEnds
    EarlyClientStarts
CHECK_DEADLOCK FALSE
