SPECIFICATION Spec
CONSTANTS
    FlashBase = 2
    FlashHalf = 10
    RoSize = 4
    TopSize = 1
    BankSize = 4
    WordSize = 26
    HeaderSize = 2
    TagOffset = 1
    VectorSize = 1
    MAGIC_HAVEN = HAVEN
    MAGIC_CITADEL = CITADEL
    Body = {"b1", "b2"}
    FUSE_IGNORE = IGNORE
    FuseValue <- FuseValues
    TagWord <- Words
    NoDigest = NoDigest
    Fuse = {0}
    Images <- SeqImages
    Calls <- SeqCalls
    GuardSettings <- SeqGuards
INVARIANT FwrHoldsHeader
