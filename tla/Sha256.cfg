SPECIFICATION FairSpec
CONSTANTS
    Messages <- MCMessages
    FifoBytes = 6
    NoDigest = NoDigest
INVARIANTS
    FedInOrder
    ItopIsForThisMessage
PROPERTY ImplementsService
