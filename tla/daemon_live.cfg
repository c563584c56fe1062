SPECIFICATION FairDaemonSpec
CONSTANTS
    h1 = h1
    h2 = h2
    NoDir = NoDir
    Hooks = {}
    Handlers <- MCOneHandler
    Callers <- MCCallers
    UserDirs = {}
    Pids = {1, 2}
    MaxJobs = 1
    MaxRequests = 4
    MaxSignals = 1
    MaxConcurrentCheckpoints = 1
    Ops = {"run", "pause", "resume", "cancel"}
    Notifier = TRUE
    Faults = {"hang"}
INVARIANT WorkersAnnounced
PROPERTIES InterruptionSweeps EveryRequestAnswered Settles CompletionLands
CHECK_DEADLOCK FALSE
