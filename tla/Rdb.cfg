CONSTANTS
    Keys <- MCKeys
    Strings <- MCStrings
    Length <- MCLength
    InitialFiles <- MCInitialFiles
    Expirations = {0, 9}
    CountMod = 256
    UintMod = 64
    Second = 10
    LongMax = 100000
    IntMax = 100000
    SizeMod = 4
    MaxTime = 1
    MaxList = 1
    MaxWrites = 2
SPECIFICATION Spec
INVARIANTS TypeOK NothingInvented LoaderGoesOn
PROPERTIES RoundTrip LoadEnds
