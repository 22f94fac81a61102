SPECIFICATION FairSpec
CONSTANT
    DEBOUNCE = 2
    HOLD = 1
    HalFaults = {"set", "commit"}
INVARIANTS
    ActuationInv
PROPERTIES
    AcknowledgedIsDone
    JamIsReported
    ArmingIsDeliberate
    HoldIsNoticed
