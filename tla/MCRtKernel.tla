----------------------------- MODULE MCRtKernel -----------------------------
(***************************************************************************)
(* Applications on the kernel of RT-Thread, and the port below it.  A      *)
(* behaviour is the run of one application, app, which uses one kind of    *)
(* object.  Each application is an instance of the component with its own  *)
(* threads, priorities, waiting times and calls, or timers.  System timers *)
(* and the uptime clock, RtTimer and AmTimer, rest in their initial state  *)
(* while another application runs; the other variables are NotUsed.        *)
(*                                                                         *)
(* Port applications have no clock interrupt, as on the abstract machine;  *)
(* the names of those on a port with one end in "Clock".                   *)
(*                                                                         *)
(* "SoftTimers": timers are started and stopped at every step of the timer *)
(* thread.                                                                 *)
(*                                                                         *)
(* "Context": two threads with a stack of three slots, and registers of    *)
(* every role in the trap code: t0 and a0, which it uses itself, a5, which *)
(* yield sets, ra, and one that a function must keep.  "Uptime": words of  *)
(* two bits, so that the low word overflows three times.                   *)
(***************************************************************************)
EXTENDS RtTimer, AmTimer, FiniteSets, TLC

CONSTANTS ta, tb, tc, IdleThread,    \* threads
          MainThread,             \* ta
          Apps,                   \* the applications of the run
          Ev, RecvList, SendList,
          f, g, mx, my, m1, m2, NoMail, NoMsg, Null,
          t1, t2, c1, c2, Nobody, NotUsed

VARIABLES app,
          k, call,                          \* RtKernel
          owed,                             \* RtThreads
          set, info, asked, evAlive,        \* RtEvent
          mb, wait, mail, got,              \* RtMailbox
          mq, buf, mqWait, hold, msg, mqGot, \* RtMessageQueue
          heap, live,                       \* RtSmallMem
          softTick, soft, softCalled, busy, softPc, n, left, ran, late,   \* RtSoftTimer
          cpu, mem, sp, rt_switch_to, rt_switch_fromp, mode, running, atEcall   \* AmContext

threadVars  == <<owed>>
eventVars   == <<set, info, asked, evAlive>>
mbVars      == <<mb, wait, mail, got>>
mqVars      == <<mq, buf, mqWait, hold, msg, mqGot>>
heapVars    == <<heap, live>>
hardVars    == vars
softVars    == <<softTick, soft, softCalled, busy, softPc, n, left, ran, late>>
contextVars == <<cpu, mem, sp, rt_switch_to, rt_switch_fromp, mode, running, atEcall>>
ipcVars     == <<eventVars, mbVars, mqVars>>
kernelVars  == <<k, call, threadVars, ipcVars>>
otherVars   == <<heapVars, hardVars, softVars, contextVars, uptimeVars>>
appVars     == <<app, kernelVars, otherVars>>

(***************************************************************************)
(* Threads, priorities, flags of the suspend lists and waiting times       *)
(***************************************************************************)
Two   == {ta, tb, IdleThread}
Three == {ta, tb, tc, IdleThread}

TwoPrio    == (ta :> 1) @@ (tb :> 0) @@ (IdleThread :> 2)
ThreePrio  == TwoPrio @@ (tc :> 1)
EqualTwo   == (ta :> 0) @@ (tb :> 0) @@ (IdleThread :> 1)
EqualThree == EqualTwo @@ (tc :> 0)

NoFlag    == [q \in {} |-> "FIFO"]
EventFlag == Ev :> "PRIO"
FifoFlag  == (RecvList :> "FIFO") @@ (SendList :> "FIFO")

Ever    == {-1}             \* RT_WAITING_FOREVER only
NowEver == {0, -1}

(***************************************************************************)
(* The applications                                                        *)
(***************************************************************************)
SleepClock == INSTANCE RtThreads WITH
    Threads <- Two, InitPrio <- TwoPrio, MaxPrio <- 3, InitTick <- 2,
    Queues <- {}, QueueFlag <- NoFlag, Timeouts <- {1, 2}, ClockISR <- TRUE,
    Ops <- {"sleep", "yield"}, Rules <- {"apart", "still"}, MaxNest <- 0

Event == INSTANCE RtEvent WITH
    Threads <- Three, InitPrio <- ThreePrio, MaxPrio <- 3, InitTick <- 2,
    Queues <- {Ev}, QueueFlag <- EventFlag, Timeouts <- Ever, ClockISR <- FALSE,
    alive <- evAlive, Flags <- {f, g}, Ops <- {"reset", "delete"}

EventClock == INSTANCE RtEvent WITH
    Threads <- Two, InitPrio <- TwoPrio, MaxPrio <- 3, InitTick <- 1,
    Queues <- {Ev}, QueueFlag <- EventFlag, Timeouts <- {1, -1}, ClockISR <- TRUE,
    alive <- evAlive, Flags <- {f, g}, Ops <- {"resume"}

Mailbox == INSTANCE RtMailbox WITH
    Threads <- Two, InitPrio <- EqualTwo, MaxPrio <- 2, InitTick <- 2,
    Queues <- {RecvList, SendList}, QueueFlag <- FifoFlag, Timeouts <- NowEver, ClockISR <- FALSE,
    Size <- 2, Mails <- {mx, my}, Ops <- {"urgent", "reset", "delete"}

MailboxThree == INSTANCE RtMailbox WITH
    Threads <- Three, InitPrio <- ThreePrio, MaxPrio <- 3, InitTick <- 2,
    Queues <- {RecvList, SendList}, QueueFlag <- FifoFlag, Timeouts <- NowEver, ClockISR <- FALSE,
    Size <- 2, Mails <- {mx, my}, Ops <- {}

MailboxClock == INSTANCE RtMailbox WITH
    Threads <- Two, InitPrio <- EqualTwo, MaxPrio <- 2, InitTick <- 1,
    Queues <- {RecvList, SendList}, QueueFlag <- FifoFlag, Timeouts <- {1}, ClockISR <- TRUE,
    Size <- 1, Mails <- {mx}, Ops <- {}

QueueThree == INSTANCE RtMessageQueue WITH
    Threads <- Three, InitPrio <- EqualThree, MaxPrio <- 2, InitTick <- 1,
    Queues <- {RecvList, SendList}, QueueFlag <- FifoFlag, Timeouts <- Ever, ClockISR <- FALSE,
    wait <- mqWait, got <- mqGot, Blocks <- {m1, m2}, Msgs <- {mx, my}, Ops <- {}

QueueClock == INSTANCE RtMessageQueue WITH
    Threads <- Two, InitPrio <- EqualTwo, MaxPrio <- 2, InitTick <- 1,
    Queues <- {RecvList, SendList}, QueueFlag <- FifoFlag, Timeouts <- Ever, ClockISR <- TRUE,
    wait <- mqWait, got <- mqGot, Blocks <- {m1, m2}, Msgs <- {mx, my}, Ops <- {"urgent", "reset", "delete"}

(* sizes in units of 4 bytes *)
Heap == INSTANCE RtSmallMem WITH
    h <- heap, AlignSize <- 2, Hdr <- 4, MinSize <- 3, MemSize <- 28, Sizes <- {0, 1, 5, 9, 30}

SoftTimers == INSTANCE RtSoftTimer WITH
    tick <- softTick, s <- soft, called <- softCalled, pc <- softPc, Urgent <- TRUE, MaxRun <- 1

OneSoftTimer == INSTANCE RtSoftTimer WITH
    Timers <- {t1},
    tick <- softTick, s <- soft, called <- softCalled, pc <- softPc, Urgent <- FALSE, MaxRun <- 1

Context == INSTANCE AmContext WITH
    Threads <- {c1, c2}, Regs <- {"ra", "t0", "a0", "a5", "s0"}, CalleeSaved <- {"s0"},
    Written <- {"s0", "t0"}, Slots <- 3, CodeSize <- 2

ASSUME ApplicationsAssumption ==
    /\ SleepClock!KernelAssumption
    /\ Event!KernelAssumption /\ Event!EventAssumption
    /\ EventClock!KernelAssumption /\ EventClock!EventAssumption
    /\ Mailbox!KernelAssumption /\ Mailbox!MailboxAssumption
    /\ MailboxThree!KernelAssumption /\ MailboxThree!MailboxAssumption
    /\ MailboxClock!KernelAssumption /\ MailboxClock!MailboxAssumption
    /\ QueueThree!KernelAssumption /\ QueueThree!QueueAssumption
    /\ QueueClock!KernelAssumption /\ QueueClock!QueueAssumption
    /\ Heap!HeapAssumption
    /\ TimerListAssumption /\ OneSoftTimer!TimerListAssumption
    /\ Context!ContextAssumption /\ TimerAssumption

(* what the application does not use *)
ThreadOff  == owed = NotUsed
EventOff   == set = NotUsed /\ info = NotUsed /\ asked = NotUsed /\ evAlive = NotUsed
MbOff      == mb = NotUsed /\ wait = NotUsed /\ mail = NotUsed /\ got = NotUsed
MqOff      == mq = NotUsed /\ buf = NotUsed /\ mqWait = NotUsed /\ hold = NotUsed /\ msg = NotUsed /\ mqGot = NotUsed
IpcOff     == EventOff /\ MbOff /\ MqOff
KernelOff  == k = NotUsed /\ call = NotUsed /\ ThreadOff /\ IpcOff
HeapOff    == heap = NotUsed /\ live = NotUsed
HardOff    == Init /\ tick = 0
SoftOff    == /\ softTick = NotUsed /\ soft = NotUsed /\ softCalled = NotUsed /\ busy = NotUsed
              /\ softPc = NotUsed /\ n = NotUsed /\ left = NotUsed /\ ran = NotUsed /\ late = NotUsed
ContextOff == /\ cpu = NotUsed /\ mem = NotUsed /\ sp = NotUsed /\ mode = NotUsed /\ running = NotUsed
              /\ rt_switch_to = NotUsed /\ rt_switch_fromp = NotUsed /\ atEcall = NotUsed
UptimeOff  == UptimeInit /\ mtime = 0
OtherOff   == HeapOff /\ HardOff /\ SoftOff /\ ContextOff /\ UptimeOff

AppInit ==
    /\ app \in Apps
    /\ \/ app = "SleepClock" /\ SleepClock!Init /\ IpcOff /\ OtherOff
       \/ /\ \/ app = "Event" /\ Event!Init
             \/ app = "EventClock" /\ EventClock!Init
          /\ ThreadOff /\ MbOff /\ MqOff /\ OtherOff
       \/ /\ \/ app = "Mailbox" /\ Mailbox!Init
             \/ app = "MailboxThree" /\ MailboxThree!Init
             \/ app = "MailboxClock" /\ MailboxClock!Init
          /\ ThreadOff /\ EventOff /\ MqOff /\ OtherOff
       \/ /\ \/ app = "QueueThree" /\ QueueThree!Init
             \/ app = "QueueClock" /\ QueueClock!Init
          /\ ThreadOff /\ EventOff /\ MbOff /\ OtherOff
       \/ /\ app = "Heap" /\ Heap!Init
          /\ KernelOff /\ HardOff /\ SoftOff /\ ContextOff /\ UptimeOff
       \/ /\ app = "HardTimers" /\ Init
          /\ KernelOff /\ HeapOff /\ SoftOff /\ ContextOff /\ UptimeOff
       \/ /\ \/ app = "SoftTimers" /\ SoftTimers!Init
             \/ app = "OneSoftTimer" /\ OneSoftTimer!Init
          /\ KernelOff /\ HeapOff /\ HardOff /\ ContextOff /\ UptimeOff
       \/ /\ app = "Context" /\ Context!Init
          /\ KernelOff /\ HeapOff /\ HardOff /\ SoftOff /\ UptimeOff
       \/ /\ app = "Uptime" /\ UptimeInit
          /\ KernelOff /\ HeapOff /\ HardOff /\ SoftOff /\ ContextOff

ThreadStep ==
    /\ app = "SleepClock" /\ SleepClock!Next
    /\ UNCHANGED <<app, ipcVars, otherVars>>

EventStep ==
    /\ \/ app = "Event" /\ Event!Next
       \/ app = "EventClock" /\ EventClock!Next
    /\ UNCHANGED <<app, threadVars, mbVars, mqVars, otherVars>>

MbStep ==
    /\ \/ app = "Mailbox" /\ Mailbox!Next
       \/ app = "MailboxThree" /\ MailboxThree!Next
       \/ app = "MailboxClock" /\ MailboxClock!Next
    /\ UNCHANGED <<app, threadVars, eventVars, mqVars, otherVars>>

MqStep ==
    /\ \/ app = "QueueThree" /\ QueueThree!Next
       \/ app = "QueueClock" /\ QueueClock!Next
    /\ UNCHANGED <<app, threadVars, eventVars, mbVars, otherVars>>

HeapStep ==
    /\ app = "Heap" /\ Heap!Next
    /\ UNCHANGED <<app, kernelVars, hardVars, softVars, contextVars, uptimeVars>>

HardStep ==
    /\ app = "HardTimers" /\ Next
    /\ UNCHANGED <<app, kernelVars, heapVars, softVars, contextVars, uptimeVars>>

SoftStep ==
    /\ \/ app = "SoftTimers" /\ SoftTimers!Next
       \/ app = "OneSoftTimer" /\ OneSoftTimer!Next
    /\ UNCHANGED <<app, kernelVars, heapVars, hardVars, contextVars, uptimeVars>>

ContextStep ==
    /\ app = "Context" /\ Context!Next
    /\ UNCHANGED <<app, kernelVars, heapVars, hardVars, softVars, uptimeVars>>

UptimeStep ==
    /\ app = "Uptime" /\ UptimeNext
    /\ UNCHANGED <<app, kernelVars, heapVars, hardVars, softVars, contextVars>>

AppNext ==
    \/ ThreadStep \/ EventStep \/ MbStep \/ MqStep
    \/ HeapStep \/ HardStep \/ SoftStep \/ ContextStep \/ UptimeStep

AppSpec == AppInit /\ [][AppNext]_appVars
----------------------------------------------------------------------------
(***************************************************************************)
(* What the runs check: the properties of the components, each for the     *)
(* applications that can disturb it.                                       *)
(***************************************************************************)
(* No wakeup is lost: nobody waits for event flags that are set, after     *)
(* every send, clear, reset and timeout; while threads wait for mail,      *)
(* messages or room, every mail, message and place there has a woken       *)
(* thread on its way to it.  What a woken receiver finds in event_set is   *)
(* what it asked for.                                                      *)
NoLostWakeup ==
    /\ app = "Mailbox" => Mailbox!TypeOK /\ Mailbox!NoLostWakeup
    /\ app = "MailboxThree" => MailboxThree!NoLostWakeup
    /\ app = "QueueThree" => QueueThree!NoLostWakeup
    /\ app = "QueueClock" => QueueClock!NoLostWakeup
    /\ app = "Event" => Event!NoSatisfiedWaiter /\ Event!ReceivedIsAsked
    /\ app = "EventClock" => EventClock!NoSatisfiedWaiter /\ EventClock!ReceivedIsAsked

(* A send that delivers to several CLEAR receivers gives no flag to two of *)
(* them, and exactly the flags they got are out of the set afterwards.     *)
ConsumedOnce == [][app = "Event" => Event!DeliveredOnce]_appVars

(* Mailboxes and message queues implement a bounded FIFO with urgent       *)
(* messages: nothing is lost, doubled or overtaken, whatever threads come  *)
(* between the parts of a send or receive.                                 *)
ImplementsFifo ==
    /\ app = "Mailbox" => Mailbox!Fifo!Init
    /\ app = "MailboxThree" => MailboxThree!Fifo!Init
    /\ app = "QueueThree" => QueueThree!Fifo!Init
    /\ app = "QueueClock" => QueueClock!Fifo!Init
    /\ [][/\ app = "Mailbox" => Mailbox!Fifo!Next \/ UNCHANGED Mailbox!Fifo!vars
          /\ app = "MailboxThree" => MailboxThree!Fifo!Next \/ UNCHANGED MailboxThree!Fifo!vars
          /\ app = "QueueThree" => QueueThree!Fifo!Next \/ UNCHANGED QueueThree!Fifo!vars
          /\ app = "QueueClock" => QueueClock!Fifo!Next \/ UNCHANGED QueueClock!Fifo!vars]_appVars

(* No memory is lost or used twice.  Each block of a message queue is      *)
(* free, queued or held by one thread, though threads are preempted with   *)
(* blocks in their hands while they copy; after any rt_malloc,             *)
(* rt_realloc and rt_free the items of the heap tile it, hold what was     *)
(* asked for, are linked both ways, and no two neighbours are free.        *)
BlocksAccounted ==
    /\ app = "QueueClock" => QueueClock!BlocksAccounted /\ QueueClock!CopyIntact
    /\ app = "Heap" => Heap!HeapExact

(* The timer thread, which reads the list and then the clock and then goes *)
(* to sleep, with timers started and stopped in between, is suspended      *)
(* without a time only while there is no soft timer, and never sleeps past *)
(* the first one by more than the ticks that went by while it looked;      *)
(* unless a timer was put first just between its look and the sleep.       *)
TimerThreadWakes ==
    app = "SoftTimers" => SoftTimers!SuspendedWithoutTimers /\ SoftTimers!WakesForFirst

(* Trap entry, handler and trap leave implement private contexts: whatever *)
(* threads run in between, a thread that is switched to again finds its    *)
(* callee-saved registers and its stack as it left them and goes on behind *)
(* its yield.                                                              *)
ImplementsPrivate ==
    /\ app = "Context" => Context!Private!Init
    /\ [][app = "Context" =>
            Context!Private!Next \/ UNCHANGED Context!Private!vars]_appVars

(***************************************************************************)
(* Fairness: the processor goes on executing whatever thread is current,   *)
(* the clock of a port that has one goes on ticking, and between its       *)
(* interrupts the current thread gets on with its kernel code.             *)
(***************************************************************************)
OfSleep(A) == app = "SleepClock" /\ A /\ UNCHANGED <<app, ipcVars, otherVars>>

OfMailbox(A) ==
    app = "MailboxClock" /\ A /\ UNCHANGED <<app, threadVars, eventVars, mqVars, otherVars>>

OfTimer(A) ==
    /\ app = "OneSoftTimer" /\ A
    /\ UNCHANGED <<app, kernelVars, heapVars, hardVars, contextVars, uptimeVars>>

FairSpec ==
    /\ AppSpec
    /\ WF_appVars(OfSleep(\E t \in Two : SleepClock!ThreadCalls(t)))
    /\ WF_appVars(OfSleep(SleepClock!Clock))
    /\ WF_appVars(OfMailbox(MailboxClock!Tick))
    /\ WF_appVars(OfMailbox(MailboxClock!TimerCheck /\ UNCHANGED mbVars))
    /\ \A t \in {ta, tb} :
          /\ SF_appVars(OfMailbox(MailboxClock!Schedule(t) /\ UNCHANGED mbVars))
          /\ SF_appVars(OfMailbox(MailboxClock!MbSendBack(t)))
          /\ SF_appVars(OfMailbox(MailboxClock!MbRecvBack(t)))
    /\ WF_appVars(OfTimer(OneSoftTimer!Tick)) /\ WF_appVars(OfTimer(OneSoftTimer!TimerThread))

Sleeps(t) == app = "SleepClock" /\ call[t].op = "sleep" /\ k.stat[t] = "suspend"

(* rt_thread_sleep: where there is a clock interrupt, a sleeping thread is *)
(* woken when its timer runs out.                                          *)
SleeperWoken == \A t \in {ta, tb} : Sleeps(t) ~> ~Sleeps(t)

InTimedCall(t) ==
    app = "MailboxClock" /\ call[t].op \in {"send", "recv"} /\ wait[t] # -1

(* A mailbox call with a timeout comes to an end, however often its thread *)
(* is woken and finds that another was faster.                             *)
TimedCallEnds == \A t \in {ta, tb} : InTimedCall(t) ~> ~InTimedCall(t)

Overdue == app = "OneSoftTimer" /\ OneSoftTimer!Due(t1)

(* A soft timer that is due is called, stopped or put off, if the clock    *)
(* goes on and the timer thread gets the processor.                        *)
DueIsCalled == Overdue ~> (softCalled = t1 \/ ~Overdue)

(* The two messages, blocks, flags, timers and threads of "Context" are    *)
(* interchangeable.  No application has two of these kinds, but for the    *)
(* messages and the blocks of the queues: all others are swapped together. *)
Swap(u, v) == (u :> v) @@ (v :> u)

Pairs == Swap(mx, my) @@ Swap(f, g) @@ Swap(t1, t2) @@ Swap(c1, c2)

Symmetry == {p @@ [v \in DOMAIN Pairs |-> IF swapped THEN Pairs[v] ELSE v] :
                p \in Permutations({m1, m2}), swapped \in BOOLEAN}
=============================================================================
