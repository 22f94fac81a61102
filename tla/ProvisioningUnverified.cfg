SPECIFICATION Spec
CONSTANTS
    Phones = {p1, p2}
    NoPhone = NoPhone
    MaxSessions = 2
    MaxArmings = 2
CHECK_DEADLOCK FALSE
INVARIANT
    ActsForVerifiedPhone
