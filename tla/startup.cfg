SPECIFICATION FairStartupSpec
CONSTANTS
    MaxInt = 127
    Second = 10
    DefaultPollInterval = 50
    NumCPU = 2
    Hosts <- MCHosts
    Deployments <- MCDeployments
    MaxFaults = 2
INVARIANTS StartupTypeOK OpenedIsMigrated SettingsTakeEffect LoadAgrees
PROPERTY EventuallyServes
CHECK_DEADLOCK FALSE
