CONSTANTS
    Server = {1, 2}
    InitialLeader = 2
    Clients = {1, 2}
    EarlyKills = TRUE
    Killable = {1, 2}
    MaxKills = 2
    MaxClientRestarts = 1
    MaxBreaks = 2
    MaxElections = 0
SPECIFICATION Spec
INVARIANTS
    TypeOK
    LinkConsistent
    NoFollowerLeftBehind
CHECK_DEADLOCK FALSE
