SPECIFICATION Spec
CONSTANTS
    FlashBase = 2
    FlashHalf = 8
    RoSize = 3
    TopSize = 1
    BankSize = 3
    WordSize = 32
    HeaderSize = 2
    TagOffset = 1
    VectorSize = 1
    MAGIC_HAVEN = HAVEN
    MAGIC_CITADEL = CITADEL
    Body = {"b1"}
    Fuse = {0}
    FuseValue = {0}
    FUSE_IGNORE = IGNORE
    TagWord = {0}
    Absent = Absent
    NoMagic = NoMagic
    Blob <- Blobs
    BlobHeader <- Headers
    BlobFile <- Files
    Path <- Paths
    NoPath = NoPath
    CarverRuns <- Runs
INVARIANTS
    CarvedSection
PROPERTIES
    WritesPrefixes
    Ends
CHECK_DEADLOCK FALSE
