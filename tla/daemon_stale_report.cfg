SPECIFICATION DaemonSpec
CONSTANTS
    h1 = h1
    h2 = h2
    NoDir = NoDir
    Hooks = {}
    Handlers <- MCOneHandler
    Callers <- MCCallers
    UserDirs = {}
    Pids = {1, 2}
    MaxJobs = 1
    MaxRequests = 3
    MaxSignals = 0
    MaxConcurrentCheckpoints = 1
    Ops = {"run", "pause", "resume"}
    Notifier = FALSE
    Faults = {}
INVARIANT CompletionNotStale
CHECK_DEADLOCK FALSE
