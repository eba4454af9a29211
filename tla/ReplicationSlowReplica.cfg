SPECIFICATION Spec
CONSTANTS
    Conns = {c1, c2}
    Chunks <- WholeCommands
    BacklogSize = 5
    OutSize = 4
    MaxReplicas = 2
    RdbSizes = {2}
    MaxInput = 8
    MaxSaves = 2
PROPERTY SlowReplicaDropped
CHECK_DEADLOCK FALSE
