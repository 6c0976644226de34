SPECIFICATION Spec
CONSTANTS
    Caller = {k1, k2, k3}
    Putters = {k1, k2, k3}
    CHANNEL = 1
    NUM_CLIENTS = 1
    MaxCrashes = 2
    MaxDrops = 1
    MaxRestarts = 0
INVARIANTS
    ReconnectNeverPanics
CHECK_DEADLOCK FALSE
