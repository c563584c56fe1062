SPECIFICATION FairWatchSpec
CONSTANTS
    h1 = h1
    NoDir = NoDir
    Hooks = {}
    Handlers <- MCHandlers
    Callers <- MCCallers
    UserDirs = {}
    Pids = {1, 2}
    MaxJobs = 2
    MaxRequests = 2
    MaxSignals = 2
    MaxConcurrentCheckpoints = 1
    Ops = {"join", "resume"}
    Notifier = FALSE
    Faults = {"hang"}
INVARIANTS PollerTypeOK FiresAtMostOnce SeenIsDelivered OneFanOut WorkersBounded
PROPERTIES NoticeDelivered NoticeSweeps
CHECK_DEADLOCK FALSE
