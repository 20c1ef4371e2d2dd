SPECIFICATION Spec
CONSTANTS
    p1 = p1
    p2 = p2
    t1 = t1
    t2 = t2
    t3 = t3
    t4 = t4
    Procs = {p1, p2}
    Threads = {t1, t2, t3, t4}
    ProcOf <- MCProcOf
    NoThread = none
    StrayUnlocks = {t1, t2, t3, t4}
    MaxLocks <- MCMaxLocks
    MaxKills = 0
INVARIANT KernelCovers
CHECK_DEADLOCK FALSE
