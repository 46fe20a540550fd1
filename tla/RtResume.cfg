SPECIFICATION Spec
CONSTANTS
    ta = ta
    tb = tb
    tc = tc
    IdleThread = idle
    MainThread = ta
    Threads = {ta, tb, tc, idle}
    InitPrio <- EqualThree
    MaxPrio = 2
    InitTick = 2
    Queues = {}
    QueueFlag <- NoFlag
    Timeouts = {1}
    ClockISR = TRUE
    Ops = {"sleep", "suspend", "resume"}
    Rules = {"still"}
    MaxNest = 0
INVARIANT TimeoutFindsSuspended
