SPECIFICATION FairSpec
CONSTANTS
    MaxDeferred = 2
    ReplyNum = 2
    MaxCommands = 1
    MaxLines = 3
    MaxRead = 2
INVARIANTS
    TypeOK
    NoEventStranded
    AnsweredIsNotResent
    EndedCallsStayQuiet
PROPERTIES
    OwnResult
    RingIsQueue
    CommandsReturn
CHECK_DEADLOCK FALSE
