CONSTANTS
    s1 = s1
    d1 = d1
    d2 = d2
    watch = watch
    pack = pack
    Services = {s1}
    Drivers = {d1}
    TargetServices <- MCTargetServices
    StaticDrivers = {}
    Initialized = Initialized
    Collectors = {watch, pack}
    Watcher = watch
    Modes <- MCModes
    ProbeStates = {"available", "unavailable"}
    SelfStates = {"self-speaking"}
    FreshFor = 1
    StaleAfter = 1
    MaxChanges = 1
    MaxInterruptions = 1
SPECIFICATION FairSpec
INVARIANTS
    DiagnosticsTypeOK
    JournalTellsTheStatus
    ProjectedStateIsRecent
PROPERTY StatusCatchesUp
