SPECIFICATION ThreadsSpec
CONSTANTS
    p1 = p1
    p2 = p2
    t1 = t1
    t2 = t2
    t3 = t3
    t4 = t4
    Procs = {p1, p2}
    Threads = {t1, t2, t3, t4}
    ProcOf <- MCProcOf
    NoThread = none
    StrayUnlocks = {t4}
    MaxLocks <- MCMaxLocks
    MaxKills = 1
    Terms = {1, 2}
    Recs = {1, 2}
    KeyLists <- MCKeyLists
    Threading = {TRUE, FALSE}
    BufSize = 2
    MaxUpdates = 3
    MaxFlushes = 2
    MaxIndexKills = 1
INVARIANT TypeOK
INVARIANT CountsExact
INVARIANT KernelCovers
INVARIANT NoUpgrade
INVARIANT KeyTypeOK
INVARIANT KeysConserved
INVARIANT IndexExact
INVARIANT DeliveredInOrder
PROPERTY ReaderWriterLock
PROPERTY ThreadCallsReturn
CHECK_DEADLOCK FALSE
