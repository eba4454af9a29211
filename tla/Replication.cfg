SPECIFICATION Spec
CONSTANTS
    Conns = {c1, c2, c3}
    Chunks <- OneByOne
    BacklogSize = 3
    OutSize = 3
    MaxReplicas = 2
    RdbSizes = {2}
    MaxInput = 4
    MaxSaves = 2
SYMMETRY Symmetry
INVARIANTS TypeOK BacklogWindow NeverAhead StreamComplete ReplicasOnce
CHECK_DEADLOCK FALSE
