SPECIFICATION DaemonSpec
CONSTANTS
    h1 = h1
    h2 = h2
    NoDir = NoDir
    Hooks = {}
    Handlers <- MCTwoHandlers
    Callers <- MCCallers
    UserDirs = {}
    Pids = {1, 2}
    MaxJobs = 1
    MaxRequests = 3
    MaxSignals = 0
    MaxConcurrentCheckpoints = 1
    Ops = {"run", "pause", "cancel"}
    Notifier = FALSE
    Faults = {}
SYMMETRY MCSymmetry
PROPERTY TerminalFinal
CHECK_DEADLOCK FALSE
