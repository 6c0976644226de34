CONSTANTS
    BATCH = 2
    TooBig = {TRUE, FALSE}
    Ticking = {}
    MaxConns = 3
    MaxMsgs = 3
    MaxBreaks = 1
    MaxKills = 1
SPECIFICATION Spec
INVARIANTS
    TypeOK
    SessionOrder
    LossEndsSession
CHECK_DEADLOCK FALSE
