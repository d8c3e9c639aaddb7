SPECIFICATION Spec
CONSTANTS
    NoToken = NoToken
    NoOne = NoOne
    Capacity = 1
    NeedsHost = FALSE
    Streams = {1, 2}
    Tokens = {t1}
    Requests = {r1, r2, r3}
    Ops = {"create", "exit"}
    Faulty = FALSE
    Impatient = FALSE
INVARIANT ExitsSucceed
