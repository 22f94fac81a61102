SPECIFICATION FairSpec
CONSTANT
    MaxCommands = 3
INVARIANTS
    MailboxInv
    PromptReplyMatches
    AtMostOnce
    LastEventSeen
PROPERTY
    EveryCommandAnswered
CHECK_DEADLOCK FALSE
