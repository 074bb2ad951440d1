SPECIFICATION Spec
CONSTANTS
    FlashBase = 4
    FlashHalf = 20
    RoSize = 8
    TopSize = 4
    BankSize = 4
    WordSize = 1024
    HeaderSize = 2
    TagOffset = 1
    VectorSize = 1
    MAGIC_HAVEN = HAVEN
    MAGIC_CITADEL = CITADEL
    Body = {"b1"}
    Fuse <- SignerFuse
    FuseValue <- SignerFuseValue
    FUSE_IGNORE <- SignerIgnore
    TagWord = {0}
    Absent = Absent
    RxSlack = 1
    Chips <- SignerChips
    SignerRuns <- Runs
INVARIANTS
    LoaderTakesHeader
    SignedImageLaunches
    DigestOfFile
    LoadedBytesKept
    HandlesBalanced
    NotLeftLocked
    EveryTokenAsked

    
    
CHECK_DEADLOCK FALSE
