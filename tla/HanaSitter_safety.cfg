SPECIFICATION Spec
CONSTANTS
    Hosts <- MCHosts
    ViewHosts <- MCViewHosts
    NumFeatures = 2
    Configs <- MCConfigs
    MaxZombies = 2
INVARIANTS
    TypeOK
    RecordsTheCulprits
    EvidenceBeforeKill
    RoundIsComplete
    OneLeftover
    TempDirsFollow
PROPERTY OneRecordingPerRound
CHECK_DEADLOCK FALSE
