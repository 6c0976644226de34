SPECIFICATION FairSpec
CONSTANTS
    Caller = {k1}
    Putters = {k1}
    CHANNEL = 1
    NUM_CLIENTS = 1
    MaxCrashes = 1
    MaxDrops = 0
    MaxRestarts = 0
PROPERTIES
    LostConnectionIsDetected
CHECK_DEADLOCK FALSE
