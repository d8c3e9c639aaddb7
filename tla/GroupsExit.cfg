SPECIFICATION Spec
CONSTANTS
    NoConn = NoConn
    Admin = Admin
    NoOne = NoOne
    Users = {u1, u2}
    Streams = {g1, g2}
    Conns = {c1, c2}
    SlowPipes = TRUE
    Exiting = {u1, u2}
    Deletable = TRUE
    Streaming = FALSE
SYMMETRY Interchangeable
INVARIANTS
    TypeOK
    MembershipAgreement
    IndexAgreement
    UnwrapSafe
    MemberHasConnection
    NoZombieReceiver
    AnnouncedIsPresent
PROPERTY ImplementsMembership
