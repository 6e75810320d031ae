SPECIFICATION FairSpec
CONSTANTS
    d1 = d1
    d2 = d2
    long = long
    short = short
    Daemons = {d1, d2}
    Messages = {long}
    Length <- MCLength
    MaxRetries = 1
    NoMessage = NoMessage
    MaxMishaps = 1
INVARIANTS
    TypeOK
    ClaimsExclude
    NothingVanishes
    TriesAreBounded
    OnAirTwiceHasACause
PROPERTY EveryMessageLeaves
CHECK_DEADLOCK FALSE
