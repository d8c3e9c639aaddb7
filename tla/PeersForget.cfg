SPECIFICATION FairSpec
CONSTANTS
    NoPeer = NoPeer
    NoTask = NoTask
    Publishers = {p1}
    Subscribers = {s1, s2}
    Faulty = TRUE
    Deletes = FALSE
    TimesOut = FALSE
PROPERTIES
    ClosedIsForgotten
    HandlersReturn
INVARIANT SubscribeLeaveAgreement
