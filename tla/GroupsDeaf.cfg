SPECIFICATION Spec
CONSTANTS
    NoConn = NoConn
    Admin = Admin
    NoOne = NoOne
    Users = {u1, u2}
    Streams = {g1}
    Conns = {c1, c2}
    SlowPipes = FALSE
    Exiting = {}
    Deletable = FALSE
    Streaming = FALSE
INVARIANT MembersHearBroadcasts
