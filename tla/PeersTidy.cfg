SPECIFICATION Spec
CONSTANTS
    NoPeer = NoPeer
    NoTask = NoTask
    Publishers = {p1, p2}
    Subscribers = {s1}
    Faulty = TRUE
    Deletes = TRUE
    TimesOut = TRUE
SYMMETRY Interchangeable
INVARIANTS
    TypeOK
    NobodyWaitsForItself
    DeletedIsClosed
    AbandonedIsDue
PROPERTIES
    RemovedOnce
    ImplementsStreamLife
CHECK_DEADLOCK FALSE
