SPECIFICATION FairSpec
CONSTANTS
    p1 = p1
    p2 = p2
    m1 = m1
    m2 = m2
    spam = spam
    u1 = u1
    Processors = {p1, p2}
    Messages = {m1, m2, spam}
    Amounted = {m1, m2}
    Users = {u1}
    Owner <- MCOwner
    NoUser = NoUser
    NoMessage = NoMessage
    NoCopy = NoCopy
    Locations = 2
    Opening = 1
    MaxAborts = 1
INVARIANTS
    TypeOK
    MarkedIsCreditedOnce
    MarkedIsNotDeletedUnseen
PROPERTY EverySMSIsHandled
CHECK_DEADLOCK FALSE
