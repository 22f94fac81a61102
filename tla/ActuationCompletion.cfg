SPECIFICATION FairSpec
CONSTANT
    DEBOUNCE = 1
    HOLD = 1
    HalFaults = {}
PROPERTY
    CompletionIsNoticed
