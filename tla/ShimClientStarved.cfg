SPECIFICATION FairSpec
CONSTANTS
    Caller = {k1, k2}
    Putters = {k1}
    CHANNEL = 1
    NUM_CLIENTS = 1
    MaxCrashes = 1
    MaxDrops = 0
    MaxRestarts = 0
PROPERTIES
    LostRequestsAnswered
CHECK_DEADLOCK FALSE
