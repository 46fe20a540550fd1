SPECIFICATION MCSpec
CONSTANTS
    ta = ta
    tb = tb
    tc = tc
    IdleThread = idle
    MainThread = ta
    Threads = {ta, tb, tc, idle}
    InitPrio <- ChainPrio
    MaxPrio = 4
    InitTick = 2
    Sem = Sem
    PoolList = PoolList
    M1 = M1
    M2 = M2
    Queues = {Sem, PoolList, M1, M2}
    QueueFlag <- IpcFlag
    Timeouts <- NowEver
    ClockISR = FALSE
    Mutexes = {M1, M2}
    NoThread = NoThread
    NoMutex = NoMutex
    MaxHold = 2
    Ceilings = {}
    MutexOps = {"suspend", "drop"}
    MaxValue = 1
    InitValue = 1
    SemOps = {"trytake", "reset", "resume", "delete"}
    Blocks = {m1, m2}
    PoolOps = {"delete"}
    Ops = {"yield", "sleep", "suspend", "resume", "delete", "exit", "create", "prio", "critical"}
    Rules = {"apart", "still"}
    MaxNest = 2
INVARIANTS ReadyTableExact TimerOfSuspended MostUrgentRunsUnlessOwed OwnershipExact TakeOkOwns InheritanceExact NoWaitWithToken WaitersOnList NoLostWakeup BlocksAccounted
PROPERTY ImplementsCounting
SYMMETRY Symmetry
