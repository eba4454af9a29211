SPECIFICATION Spec
CONSTANTS
    Scripts <- MCScripts
    InSize = 13
    OutSize = 20
    InitialArgs = 1
    MaxStackDepth = 32
    MaxBlocks = 1
INVARIANTS TypeOK Exact HeaderLeft RepliesExact EndsFit
PROPERTY AllAnswered
CHECK_DEADLOCK FALSE
