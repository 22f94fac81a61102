SPECIFICATION RSpec
CONSTANTS
    Keys = {k1, k2, k3}
    KEY_MAX = 2
    NoKey = NoKey
    HalFaults = {"set", "commit"}
    TornRevoke = TRUE
SYMMETRY Symmetry
INVARIANTS
    OnlyHeldAccepted
    OnlyMovedMissed
