SPECIFICATION FairSpec
CONSTANTS
    Processes <- MCProcesses
    Writers <- MCWriters
    ProcessOf <- MCProcessOf
    MaxEntries = 1
    MaxRotations = 2
    MaxDeaths = 1
    Nobody = Nobody
INVARIANTS LogTypeOK RestFollowsHead AcknowledgedIsKept
PROPERTY EveryLogReturns
CHECK_DEADLOCK FALSE
