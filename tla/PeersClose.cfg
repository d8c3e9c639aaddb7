SPECIFICATION FairSpec
CONSTANTS
    NoPeer = NoPeer
    NoTask = NoTask
    Publishers = {p1}
    Subscribers = {s1, s2}
    Faulty = FALSE
    Deletes = TRUE
    TimesOut = FALSE
PROPERTY CloseReturns
CHECK_DEADLOCK FALSE
