SPECIFICATION Spec
CONSTANTS
    Caller = {k1, k2}
    Putters = {k1, k2}
    CHANNEL = 1
    NUM_CLIENTS = 1
    MaxCrashes = 1
    MaxDrops = 0
    MaxRestarts = 1
INVARIANTS
    AnswerIsOwn
CHECK_DEADLOCK FALSE
