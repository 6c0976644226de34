SPECIFICATION Spec
CONSTANTS
    Key = {k1, k2}
    Value = {v1, v2}
    NoValue = NoValue
    MaxEntries = 3
INVARIANTS
    TypeOK
    CreateIsReplay
    MergeIsReplayForOthers
    NoWriteIsLost
