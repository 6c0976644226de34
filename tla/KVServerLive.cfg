SPECIFICATION FairSpec
CONSTANTS
    n1 = n1
    n2 = n2
    k1 = k1
    v1 = v1
    Server = {n1, n2}
    Key = {k1}
    Value = {v1}
    NoValue = NoValue
    NoSnapshot = NoSnapshot
    Command <- MCCommand
    SNAPSHOT_INTERVAL = 2
    DiskErrors = FALSE
    MaxCrashes = 2
INVARIANTS
    DatabaseIsLogPrefix
    NoReplySwallowed
    ReplayIsBounded
PROPERTIES
    ChosenIsReplied
    ServersConverge
CHECK_DEADLOCK FALSE
