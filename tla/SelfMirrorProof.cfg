CONSTANTS
    Configs <- MCConfigs
    Observations <- MCObservations
    Profiles <- MCProfiles
    CaseSets <- MCCaseSets
    NoProfile = NoProfile
    Margin = 1
    MaxClock = 40
    MaxJudgments = 2
    ActiveMin = 4
    SettleMax = 2
    NearMin = 3
    IdleDelta = 2
    MinConsecutive = 2
SPECIFICATION ProofSpec
INVARIANTS
    ProofTypeOK
    DanceIsStopped
    FramesFollowStimuli
    VerdictHasEvidence
PROPERTY
    JudgmentIsGuarded
