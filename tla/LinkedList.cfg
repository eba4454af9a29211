SPECIFICATION Spec
CONSTANTS
    Data = {a, b}
    Indices <- MCIndices
    Garbage = {0, 2, 7}
    MaxNodes = 3
INVARIANTS TypeOK Shape
PROPERTY ImplementsDeque
