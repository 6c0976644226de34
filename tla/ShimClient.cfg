SPECIFICATION Spec
CONSTANTS
    Caller = {k1, k2, k3}
    Putters = {k1, k2}
    CHANNEL = 1
    NUM_CLIENTS = 2
    MaxCrashes = 1
    MaxDrops = 1
    MaxRestarts = 1
SYMMETRY Symmetry
INVARIANTS
    TypeOK
    AnswerIsOwnIfOneRestarts
    UniqueRoute
    NoPanicOnReply
    DisconnectedMeansNotDone
    AtMostOnce
PROPERTY
    ImplementsCallerContract
CHECK_DEADLOCK FALSE
