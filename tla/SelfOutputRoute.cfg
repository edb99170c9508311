CONSTANTS
    Leases <- MCLeases
    Baselines <- MCBaselines
    NoLease = NoLease
    MaxNotices = 4
    MaxIngests = 4
    MaxPolls = 5
    PreparationDeadline = 2
    CompletionDeadline = 1
SPECIFICATION RouteSpec
INVARIANTS
    CoreHearsInOrder
    CompletionIsTrue
PROPERTY
    RouteEnds
