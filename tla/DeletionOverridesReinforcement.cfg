CONSTANTS
    Records = {r1}
    Clients = {c1, c2}
    Candidates <- MCCandidates
    Decisions = {"promote", "hold", "reject"}
    Signals = {"reference", "correction"}
    LifecycleActions = {"forget", "delete"}
    NoRow = NoRow
    FreshIds = TRUE
    CounterCap = 1
    MaxLog = 5
SPECIFICATION Spec
INVARIANT DeletionOverridesReinforcement
