CONSTANTS
    Records = {r1}
    Clients = {c1}
    Candidates <- MCCandidates
    Decisions = {"promote", "hold", "reject"}
    Signals = {"reference", "correction"}
    LifecycleActions = {"forget", "delete"}
    NoRow = NoRow
    FreshIds = FALSE
    CounterCap = 2
    MaxLog = 5
SPECIFICATION Spec
INVARIANTS
    TypeOK
    RetentionIsSound
    CountersMatchAudit
PROPERTY ImplementsRetention
