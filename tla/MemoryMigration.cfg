CONSTANTS
    Processes = {p1, p2, p3}
    ScriptLength <- MCScriptLength
    AddedColumns = 3
    MaxInterruptions = 2
SPECIFICATION FairSpec
INVARIANTS
    MigrationTypeOK
    VersionsAreTrue
    UpgradeHasOneOwner
PROPERTIES
    WedgeIsPermanent
    UpgradeCompletes
