SPECIFICATION Spec
CONSTANTS
    Payloads <- MCPayloads
    History <- MCHistory
    BufLen = 261
    MaxFragments = 3
    Pads = {0, 255}
    Damages = {1, 128, 255}
INVARIANTS
    CommandInv
    DeliveredIsSent
    CommandArrives
    OkMeansDone
    TargetIsConfigured
