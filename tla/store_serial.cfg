SPECIFICATION BoundedSerialSpec
CONSTANTS
    c1 = c1
    c2 = c2
    NoDir = NoDir
    Hooks = {}
    Callers <- MCCallers
    UserDirs = {}
    MaxJobs = 2
    MaxHistory = 4
    Pids = {1}
SYMMETRY MCSymmetry
INVARIANTS SnapshotFresh HistoryChains ReasonAgrees
PROPERTY LifecycleSpec
