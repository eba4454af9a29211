SPECIFICATION Spec
CONSTANTS
    Conns = {c1, c2}
    Chunks <- Pipelined
    BacklogSize = 5
    OutSize = 4
    MaxReplicas = 2
    RdbSizes = {2}
    MaxInput = 8
    MaxSaves = 2
SYMMETRY Symmetry
INVARIANT StreamComplete
CHECK_DEADLOCK FALSE
