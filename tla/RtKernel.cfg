SPECIFICATION AppSpec
CONSTANTS
    ta = ta
    tb = tb
    tc = tc
    IdleThread = idle
    MainThread = ta
    Ev = Ev
    RecvList = RecvList
    SendList = SendList
    f = f
    g = g
    mx = mx
    my = my
    m1 = m1
    m2 = m2
    NoMail = NoMail
    NoMsg = NoMsg
    Null = Null
    t1 = t1
    t2 = t2
    NoTimer = NoTimer
    Timers = {t1, t2}
    TickMod = 8
    InitTicks = {1, 2}
    OwnMode = FALSE
    Width = 2
    Words = 4
    CyclesPerUs = 2
    MaxMtime = 15
    c1 = c1
    c2 = c2
    Nobody = Nobody
    NotUsed = NotUsed
    Apps = {"Event", "EventClock", "Mailbox", "MailboxThree", "QueueThree", "QueueClock", "Heap", "HardTimers", "SoftTimers", "Context", "Uptime"}
INVARIANTS NoLostWakeup BlocksAccounted ListIsActive TimerThreadWakes UptimeDuringCall
PROPERTIES ConsumedOnce ImplementsFifo ImplementsCountdown ImplementsPrivate
SYMMETRY Symmetry
