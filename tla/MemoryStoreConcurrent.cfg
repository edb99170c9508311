CONSTANTS
    Records = {r1}
    Clients = {c1, c2}
    Candidates <- MCCandidates
    Decisions = {"promote", "hold", "reject"}
    Signals = {"reference", "correction"}
    LifecycleActions = {"forget", "delete"}
    NoRow = NoRow
    FreshIds = FALSE
    CounterCap = 2
    MaxLog = 5
SPECIFICATION Spec
INVARIANTS
    QuarantineHolds
    CountersNeverExceedAudit
    IndexFollowsRow
PROPERTY DeletionRequestSticks
SYMMETRY ClientSymmetry
