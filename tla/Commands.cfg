CONSTANTS
    k1 = k1
    k2 = k2
    Keys <- MCKeys
    Texts <- MCTexts
    Strings <- MCStrings
    SetValues <- MCSetValues
    SetOptions <- MCSetOptions
    RangeArgs <- MCRangeArgs
    Operand <- MCOperand
    Expirations = {}
    Second = 2
    LongMax = 3
    IntMax = 1
    SizeMod = 4
    MaxTime = 3
    MaxList = 2
    MaxKeys = 2
    MaxItems = 2
SPECIFICATION Spec
VIEW State
SYMMETRY Symmetry
INVARIANTS TypeOK KeyCount ListsNeverExpire
PROPERTY ImplementsStore
