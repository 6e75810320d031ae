SPECIFICATION Spec
CONSTANTS
    MaxDeferred = 2
    ReplyNum = 1
    MaxCommands = 1
    MaxLines = 2
    MaxRead = 2
INVARIANT EventsBetweenRequests
CHECK_DEADLOCK FALSE
