SPECIFICATION Spec
CONSTANTS
    Hosts <- MCHosts
    ViewHosts <- MCViewHosts
    NumFeatures = 2
    Configs <- MCConfigs
    MaxZombies = 2
INVARIANT OfflineIsSurvived
CHECK_DEADLOCK FALSE
