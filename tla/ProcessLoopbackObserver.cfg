CONSTANT MaxPackets = 2
SPECIFICATION FairSpec
INVARIANTS
    ObserverTypeOK
    OneCustodian
    ReportIsTrue
PROPERTIES
    ObservationEnds
    LateClientIsReleased
CHECK_DEADLOCK FALSE
