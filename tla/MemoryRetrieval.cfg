CONSTANTS
    r1 = r1
    r2 = r2
    Records <- MCRecords
    Clients = {c1}
    Candidates <- MCCandidates
    Decisions = {"promote", "reject"}
    Signals = {"reference"}
    LifecycleActions = {"delete"}
    NoRow = NoRow
    FreshIds = TRUE
    CounterCap = 1
    MaxLog = 3
    Queries <- MCQueries
    DepthLimits <- MCDepthLimits
SPECIFICATION RetrievalSpec
INVARIANTS
    ContextIsSound
    NothingMissed
