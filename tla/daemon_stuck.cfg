SPECIFICATION FairDaemonSpec
CONSTANTS
    h1 = h1
    h2 = h2
    NoDir = NoDir
    Hooks = {}
    Handlers <- MCOneHandler
    Callers <- MCCallers
    UserDirs = {}
    Pids = {1}
    MaxJobs = 1
    MaxRequests = 3
    MaxSignals = 0
    MaxConcurrentCheckpoints = 1
    Ops = {"join", "pause", "cancel"}
    Notifier = FALSE
    Faults = {"crash"}
PROPERTY Settles
CHECK_DEADLOCK FALSE
