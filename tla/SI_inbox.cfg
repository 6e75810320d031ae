SPECIFICATION FairSpec
CONSTANTS
    long = long
    twin = twin
    spam = spam
    Messages = {long, twin, spam}
    Length <- MCLength
    UdhId <- MCUdhId
    Excluded = {spam}
    HasStatus = TRUE
    NoId = NoId
    MaxMishaps = 1
INVARIANTS
    TypeOK
    NothingLost
    SavedAgainOnlyByMishap
    AwaitedIsPresent
PROPERTY EveryPartIsSaved
CHECK_DEADLOCK FALSE
