SPECIFICATION BusSpec
CONSTANTS
    FlashBase = 2
    FlashHalf = 10
    RoSize = 4
    TopSize = 1
    BankSize = 4
    WordSize = 26
    HeaderSize = 2
    TagOffset = 1
    VectorSize = 1
    MAGIC_HAVEN = HAVEN
    MAGIC_CITADEL = CITADEL
    Body = {"b1", "b2"}
    FUSE_IGNORE = IGNORE
    FuseValue <- BootFuses
    TagWord <- BootWords
    NoDigest = NoDigest
    Fuse = {0}
    Images <- BootImages
    Calls <- BootCalls
    GuardSettings <- BootGuards
    VectorsAt = 4
    Leftovers <- BootLeftovers
INVARIANTS
    NoTornStaging
    HaltsWithReason
    LaunchedConfiguration
    LaunchedFromHashedFlash
    RegistersMatch
    ConsoleWired
PROPERTY KeepsPromise
