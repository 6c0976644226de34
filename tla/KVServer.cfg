SPECIFICATION Spec
CONSTANTS
    n1 = n1
    n2 = n2
    k1 = k1
    v1 = v1
    Server = {n1, n2}
    Key = {k1}
    Value = {v1}
    NoValue = NoValue
    NoSnapshot = NoSnapshot
    Command <- MCCommand
    SNAPSHOT_INTERVAL = 1
    DiskErrors = TRUE
    MaxCrashes = 2
INVARIANTS
    TypeOK
    DatabaseIsLogPrefix
    SnapshotIsLogPrefix
    RepliesMatchLog
    NoReplySwallowed
    RepliesInLogOrder
PROPERTIES
    SnapshotNeverRegresses
    ImplementsAtomicKV
CHECK_DEADLOCK FALSE
