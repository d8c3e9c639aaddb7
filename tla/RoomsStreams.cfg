SPECIFICATION Spec
CONSTANTS
    NoToken = NoToken
    NoOne = NoOne
    Capacity = 2
    NeedsHost = TRUE
    Streams = {1, 2}
    Tokens = {t1, t2}
    Requests = {r1, r2, r3}
    Ops = {"create", "destroy", "whip", "whep", "infos", "exit", "delete"}
    Faulty = TRUE
    Impatient = TRUE
SYMMETRY Interchangeable
INVARIANTS
    TypeOK
    DeletedRoomIsEmpty
    NoCircularWait
PROPERTY OnlyOwnersExit
