SPECIFICATION Spec
CONSTANTS
    Phones = {p1, p2}
    NoPhone = NoPhone
    MaxSessions = 2
    MaxArmings = 2
SYMMETRY Symmetry
CHECK_DEADLOCK FALSE
INVARIANTS
    ProvisioningInv
    CacheIsWhole
    OneTryPerArming
    NothingActsInWindow
PROPERTIES
    CommittedKeySigned
