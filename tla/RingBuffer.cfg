\* A buffer of three cells, two byte values, blocks of up to four bytes; the
\* indices go round the buffer more than twice.
CONSTANTS
    Byte = {b0, b1}
    Size = 3
    MaxIndex = 8

SPECIFICATION Spec

INVARIANTS
    TypeOK
    AssertState
    ViewsDisjoint

PROPERTY
    ImplementsQueue
