SPECIFICATION FairSpec
CONSTANTS
    Caller = {k1, k2}
    Putters = {k1}
    CHANNEL = 1
    NUM_CLIENTS = 2
    MaxCrashes = 1
    MaxDrops = 1
    MaxRestarts = 1
PROPERTIES
    ReconnectsWhenQuiet
    LostRequestsFailWhenQuiet
    ConnectedCallerIsAnswered
CHECK_DEADLOCK FALSE
