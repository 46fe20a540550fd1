------------------------------ MODULE MCRtIpc ------------------------------
(***************************************************************************)
(* Applications whose threads use mutexes, a semaphore, a memory pool, or  *)
(* just each other.                                                        *)
(* A behaviour is the run of one of them, app; the objects that app does   *)
(* not use stay as they were initialised.                                  *)
(*                                                                         *)
(* "Mutex" has a chain of priorities and threads that suspend and close    *)
(* each other, "MutexLife" a ceiling, trytake and detach.  "SemaphorePrio" *)
(* also changes priorities.  The "Clock" applications have a clock         *)
(* interrupt and wait for one tick or forever; the others run on the port, *)
(* which has none (ClockISR = FALSE in the cfg).                           *)
(*                                                                         *)
(* "Threads" has all calls on threads, "ThreadsClock" all but changes of   *)
(* priority, with the parts that the clock interrupt can come between, on  *)
(* two threads and the idle thread: nobody calls for tc.  In "ResumeClock" *)
(* three sleep, suspend themselves and resume each other.  owed is TRUE in *)
(* all applications on an object.                                          *)
(***************************************************************************)
EXTENDS RtThreads, RtMutex, RtSemaphore, RtMemPool, TLC

CONSTANTS ta, tb, tc, M1, M2

VARIABLE app

ChainPrio == (ta :> 2) @@ (tb :> 1) @@ (tc :> 0) @@ (IdleThread :> 3)
IpcPrio   == (ta :> 1) @@ (tb :> 0) @@ (tc :> 1) @@ (IdleThread :> 3)
IpcFlag   == (Sem :> "PRIO") @@ (PoolList :> "FIFO") @@ (M1 :> "PRIO") @@ (M2 :> "PRIO")

NowEver == {0, Forever}
Timed   == {1, Forever}

MutexLife == INSTANCE RtMutex WITH MaxHold <- 1, Ceilings <- {1}, MutexOps <- {"trytake", "detached"}

(* one of the mutexes is used *)
MutexClock == INSTANCE RtMutex WITH
    Mutexes <- {M1}, Timeouts <- Timed, ClockISR <- TRUE, MutexOps <- {}

Semaphore == INSTANCE RtSemaphore WITH InitPrio <- IpcPrio

SemaphorePrio == INSTANCE RtSemaphore WITH InitPrio <- IpcPrio, SemOps <- {"prio"}

SemaphoreClock == INSTANCE RtSemaphore WITH
    InitPrio <- ChainPrio, InitTick <- 1, Timeouts <- Timed, ClockISR <- TRUE,
    SemOps <- {"resume"}

Pool == INSTANCE RtMemPool WITH InitPrio <- IpcPrio

PoolClock == INSTANCE RtMemPool WITH
    InitPrio <- ChainPrio, InitTick <- 1, Timeouts <- Timed, ClockISR <- TRUE,
    PoolOps <- {"resume"}

ThreadsPort == INSTANCE RtThreads WITH InitPrio <- IpcPrio, Timeouts <- {1}

ThreadsClock == INSTANCE RtThreads WITH
    InitPrio <- ChainPrio, InitTick <- 1, Timeouts <- {1, 2}, ClockISR <- TRUE,
    Ops <- Ops \ {"prio"}

ResumeClock == INSTANCE RtThreads WITH
    InitPrio <- ChainPrio, InitTick <- 1, Timeouts <- {1}, ClockISR <- TRUE,
    Ops <- {"sleep", "suspend", "resume", "critical"}, MaxNest <- 1

ASSUME ApplicationAssumption ==
    /\ KernelAssumption /\ MutexAssumption /\ SemAssumption /\ PoolAssumption
    /\ MutexLife!MutexAssumption /\ MutexClock!KernelAssumption /\ MutexClock!MutexAssumption
    /\ ThreadsPort!KernelAssumption /\ ThreadsClock!KernelAssumption
    /\ Semaphore!KernelAssumption /\ SemaphoreClock!KernelAssumption /\ PoolClock!KernelAssumption

MutexApps == {"Mutex", "MutexLife", "MutexClock"}

MCInit ==
    \/ app \in MutexApps /\ MutexInit /\ SemInit /\ PoolInit /\ owed = TRUE
    \/ /\ app \in {"Semaphore", "SemaphorePrio", "Pool"}
       /\ Semaphore!SemInit /\ Pool!PoolInit /\ m = FreeMutexes /\ owed = TRUE
    \/ /\ app \in {"SemaphoreClock", "PoolClock"}
       /\ SemaphoreClock!SemInit /\ PoolClock!PoolInit /\ m = FreeMutexes /\ owed = TRUE
    \/ app = "Threads" /\ ThreadsPort!Init /\ Semaphore!SemInit /\ Pool!PoolInit /\ m = FreeMutexes
    \/ /\ app \in {"ThreadsClock", "ResumeClock"} /\ ThreadsClock!Init
       /\ SemaphoreClock!SemInit /\ PoolClock!PoolInit /\ m = FreeMutexes

MutexStep ==
    /\ \/ app = "Mutex" /\ MutexNext
       \/ app = "MutexLife" /\ MutexLife!MutexNext
       \/ app = "MutexClock" /\ MutexClock!MutexNext
    /\ UNCHANGED <<app, value, alive, result, mp, wait, held, owed>>

SemStep ==
    /\ \/ app = "Semaphore" /\ Semaphore!SemNext
       \/ app = "SemaphorePrio" /\ SemaphorePrio!SemNext
       \/ app = "SemaphoreClock" /\ SemaphoreClock!SemNext
    /\ UNCHANGED <<app, m, mp, wait, held, owed>>

PoolStep ==
    /\ \/ app = "Pool" /\ Pool!PoolNext
       \/ app = "PoolClock" /\ PoolClock!PoolNext
    /\ UNCHANGED <<app, m, value, alive, result, owed>>

(* nobody calls for tc *)
TwoThreads == k'.stat[tc] = "init" /\ k'.prio[tc] = k.prio[tc] /\ \A t \in Threads : call'[t].obj # tc

ThreadStep ==
    /\ \/ app = "Threads" /\ ThreadsPort!Next /\ TwoThreads
       \/ app = "ThreadsClock" /\ ThreadsClock!Next /\ TwoThreads
       \/ app = "ResumeClock" /\ ResumeClock!Next
    /\ UNCHANGED <<app, m, value, alive, result, mp, wait, held>>

MCSpec ==
    /\ MCInit
    /\ [][MutexStep \/ SemStep \/ PoolStep \/ ThreadStep]_<<app, owed, mutexVars, semVars, poolVars>>

(* Priority inheritance is exact along chains of owners that wait          *)
(* themselves: no boost is missing and none outlives its reason, be it a   *)
(* release, the deletion of a waiter or a timeout.  The suspend lists stay *)
(* in order of the priorities it changes, pending_object is the list the   *)
(* thread is on, and rt_schedule leaves no thread ready that is more       *)
(* urgent than the running one, not even when a released mutex takes an    *)
(* inherited priority away.                                                *)
InheritanceExact ==
    app \in MutexApps =>
        /\ MutexTypeOK /\ ReadyTableExact /\ OnlyTakersOnList
        /\ app \in {"Mutex", "MutexClock"} => PriorityExact
        /\ app \in {"Mutex", "MutexLife"} => ListInOrder
        /\ app = "Mutex" => PendingIsList /\ MostUrgentRuns
        /\ app = "MutexClock" => TimerOfSuspended

(* blocks are interchangeable *)
Symmetry == Permutations(Blocks)
=============================================================================
