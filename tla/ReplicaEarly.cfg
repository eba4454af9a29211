SPECIFICATION SyncSpec
CONSTANTS
    Conns = {r, c}
    Link = r
    InSize = 3
    MaxOwn = 1
    Chunks <- WholeCommands
    BacklogSize = 5
    OutSize = 4
    MaxReplicas = 2
    RdbSizes = {2}
    MaxInput = 2
    MaxSaves = 2
PROPERTY SnapshotTaken
CHECK_DEADLOCK FALSE
