SPECIFICATION DaemonSpec
CONSTANTS
    h1 = h1
    h2 = h2
    NoDir = NoDir
    Hooks = {"checkpoint"}
    Handlers <- MCOneHandler
    Callers <- MCCallers
    UserDirs = {d1}
    Pids = {1, 2}
    MaxJobs = 1
    MaxRequests = 4
    MaxSignals = 1
    MaxConcurrentCheckpoints = 1
    Ops = {"run", "adopt", "pause", "resume", "cancel"}
    Notifier = FALSE
    Faults = {"crash", "db", "pidfile"}
INVARIANT ResumableHasImage
CHECK_DEADLOCK FALSE
