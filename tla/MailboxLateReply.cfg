SPECIFICATION Spec
CONSTANT
    MaxCommands = 2
INVARIANT
    ReplyMatchesCommand
CHECK_DEADLOCK FALSE
