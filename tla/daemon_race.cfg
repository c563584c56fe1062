SPECIFICATION DaemonSpec
CONSTANTS
    h1 = h1
    h2 = h2
    NoDir = NoDir
    Hooks = {}
    Handlers <- MCTwoHandlers
    Callers <- MCCallers
    UserDirs = {}
    Pids = {1}
    MaxJobs = 1
    MaxRequests = 4
    MaxSignals = 1
    MaxConcurrentCheckpoints = 1
    Ops = {"run", "pause", "resume", "cancel", "prune", "show"}
    Notifier = FALSE
    Faults = {}
SYMMETRY MCSymmetry
INVARIANTS MidwayHasOwner HistoryCoversRow
PROPERTIES UsesStore PruneTakesEnded
CHECK_DEADLOCK FALSE
