SPECIFICATION FairSpec
CONSTANTS
    Char = {"a", "b"}
    FifoSize = 2
    Leftovers <- MCLeftovers
    NoChar = NoChar
    Stale = Stale
    MaxSent = 5
    MaxReceived = 2
INVARIANTS
    NothingLost
    HearsInOrder
PROPERTIES
    BaudStable
    ComesUp
    ImplementsLine
CHECK_DEADLOCK FALSE
