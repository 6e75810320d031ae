SPECIFICATION Spec
CONSTANTS
    d1 = d1
    d2 = d2
    long = long
    short = short
    Daemons = {d1}
    Messages = {long, short}
    Length <- MCLength
    MaxRetries = 1
    NoMessage = NoMessage
    MaxMishaps = 0
INVARIANT RecordedOKWasSent
CHECK_DEADLOCK FALSE
