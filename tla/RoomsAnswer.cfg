SPECIFICATION FairSpec
CONSTANTS
    NoToken = NoToken
    NoOne = NoOne
    Capacity = 1
    NeedsHost = FALSE
    Streams = {1}
    Tokens = {t1}
    Requests = {r1, r2, r3}
    Ops = {"destroy", "whip", "whep", "exit", "delete"}
    Faulty = FALSE
    Impatient = FALSE
PROPERTY RequestsAnswered
