SPECIFICATION FairSpec
CONSTANTS
    p1 = p1
    p2 = p2
    NoTrack = NoTrack
    NoRid = NoRid
    Enable = Enable
    Disable = Disable
    Publishers = {p1, p2}
    Tracks <- LayersThenSound
    ChangeCapacity = 1
    Lagged = Lagged
    Offers <- OneKind
    Selections = 2
    Others = 1
INVARIANTS
    TypeOK
    OwnKind
    BindingAgreement
    RequestsFindTheirTrack
    NothingListedNothingForwarded
PROPERTIES
    DisabledUntilSelected
    SubscribersAreServed
    TasksEnd
CHECK_DEADLOCK FALSE
