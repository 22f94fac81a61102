SPECIFICATION FairSpec
CONSTANT
    HandshakeTicks = 2
INVARIANTS
    StageMatchesState
    KeysMatchStage
    ServesThisPhoneOnly
PROPERTIES
    HandshakeEnds
    PhoneGone
CHECK_DEADLOCK FALSE
