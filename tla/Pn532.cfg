SPECIFICATION FairSpec
CONSTANTS
    PollMax = 2
    PN532_RESYNC_MAX_BYTES = 2
INVARIANTS
    DriverInv
    ResponseIsFresh
    NoLostIrq
PROPERTIES
    FatalIsEarned
    ExchangeEnds
