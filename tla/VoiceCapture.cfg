CONSTANT MaxPackets = 2
SPECIFICATION FairSpec
INVARIANTS
    VoiceTypeOK
    VoiceReportIsTrue
    StaleLeaseNeverCaptures
PROPERTIES
    ImplementsFramedChannel
    CaptureEnds
CHECK_DEADLOCK FALSE
