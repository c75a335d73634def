CONSTANTS
    p1 = p1
    p2 = p2
    t1 = t1
    t2 = t2
    t3 = t3
    Procs = {p1, p2}
    Threads = {t1, t2, t3}
    ProcOf <- MCProcOf
    NoThread = NoThread
    AutoCleanup = TRUE
    MayCrash = TRUE
    MaxLeaks <- MCMaxLeaks
    Looping = {p1}
    Stopped = {p1}
    MaxQueued = 1
SPECIFICATION FairBackendSpec
INVARIANTS BackendTypeOK MutualExclusion RLockBalanced OneRun QuietUnlessUp
PROPERTIES DatabaseFreed EveryCallReturns ShutdownEnds LoopGoesOn
