SPECIFICATION BoundedSpec
CONSTANTS
    c1 = c1
    c2 = c2
    NoDir = NoDir
    Hooks = {}
    Callers <- MCCallers
    UserDirs = {}
    MaxJobs = 2
    MaxHistory = 2
    Pids = {1}
SYMMETRY MCSymmetry
INVARIANTS TypeOK HistoryAgrees HistoryEdges
PROPERTY OffTableWritesAreStale
