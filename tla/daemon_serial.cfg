SPECIFICATION DaemonSpec
CONSTANTS
    h1 = h1
    h2 = h2
    NoDir = NoDir
    Hooks = {"checkpoint", "resume"}
    Handlers <- MCOneHandler
    Callers <- MCCallers
    UserDirs = {}
    Pids = {1, 2}
    MaxJobs = 2
    MaxRequests = 5
    MaxSignals = 0
    MaxConcurrentCheckpoints = 1
    Ops = {"run", "adopt", "pause", "resume", "cancel", "pruneAll"}
    Notifier = FALSE
    Faults = {}
INVARIANTS DaemonTypeOK StatusMatchesProcess
PROPERTIES PruneTakesEnded DaemonLifecycle
CHECK_DEADLOCK FALSE
