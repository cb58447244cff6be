SPECIFICATION Spec
CONSTANTS
    Hosts <- MCHosts
    ViewHosts <- MCViewHosts
    NumFeatures = 2
    Configs <- MCLiveConfigs
    MaxZombies = 2
PROPERTY HangIsRecorded
PROPERTY ExitsOnceHanaResponds
CHECK_DEADLOCK FALSE
