SPECIFICATION FairSpec
CONSTANTS
    ta = ta
    tb = tb
    tc = tc
    IdleThread = idle
    MainThread = ta
    Threads = {ta, tb, tc, idle}
    InitPrio <- EqualThree
    MaxPrio = 2
    InitTick = 2
    Queues = {}
    QueueFlag <- NoFlag
    Timeouts = {}
    ClockISR = FALSE
    Ops = {"yield"}
    Rules = {"apart", "still"}
    MaxNest = 0
PROPERTY EqualsTakeTurns
