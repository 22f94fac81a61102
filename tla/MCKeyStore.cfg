SPECIFICATION Spec
CONSTANTS
    Keys = {k1, k2, k3, k4}
    KEY_MAX = 3
    NoKey = NoKey
    HalFaults = {"set"}
    TornRevoke = FALSE
INVARIANTS
    HalMatchesRam
    GrantedSurvive
    RevokedStayRevoked
PROPERTY
    ImplementsKeySet
