SPECIFICATION SyncSpec
CONSTANTS
    Conns = {r, c, d}
    Link = r
    InSize = 4
    MaxOwn = 1
    Chunks <- WholeCommands
    BacklogSize = 5
    OutSize = 3
    MaxReplicas = 2
    RdbSizes = {2, 3}
    MaxInput = 4
    MaxSaves = 2
INVARIANTS SyncTypeOK SnapshotIntact AppliedPrefix NeverOverstates
PROPERTIES SnapshotSent ReplicaReady CaughtUp
CHECK_DEADLOCK FALSE
