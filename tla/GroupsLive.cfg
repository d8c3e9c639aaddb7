SPECIFICATION FairSpec
CONSTANTS
    NoConn = NoConn
    Admin = Admin
    NoOne = NoOne
    Users = {u1}
    Streams = {g1}
    Conns = {c1, c2}
    SlowPipes = FALSE
    Exiting = {u1}
    Deletable = TRUE
    Streaming = TRUE
PROPERTIES
    EvictedStopsReceiving
    DoneLeaves
