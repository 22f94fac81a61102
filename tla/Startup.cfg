SPECIFICATION Spec
CONSTANTS
    KEY_MAX = 3
    MaxIds = 2
    None = None
    Corrupt = Corrupt
    TestKey = TestKey
CHECK_DEADLOCK FALSE
INVARIANTS
    StartupInv
    SignsAsItself
    OwnKeysOnly
PROPERTIES
    IdentityIsStable
