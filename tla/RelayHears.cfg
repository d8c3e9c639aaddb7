SPECIFICATION FairSpec
CONSTANTS
    a = a
    b = b
    b2 = b2
    u1 = u1
    u2 = u2
    NoConn = NoConn
    Users = {u1, u2}
    Conns = {a, b, b2}
    user <- TwoUsers
    GroupCapacity = 2
    UserCapacity = 1
    Opening = {a, b2}
    Speaking = {a}
    Leaving = {b2}
    Messages = 1
INVARIANTS
    TypeOK
    NoGaps
    UnreachableByItsOwn
PROPERTIES
    ReadersFailByUnicast
    BroadcastsAreHeard
    ClosedIsAnnounced
CHECK_DEADLOCK FALSE
