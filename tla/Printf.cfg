SPECIFICATION Spec
CONSTANTS
    WordSize = 256
    Char <- PrintfChar
    NUL = END
    Behind <- PrintfBehind
    Meanings <- PrintfMeanings
INVARIANTS
    PrintsAsMeant
    StaysInFormat
CHECK_DEADLOCK FALSE
