---------------------------- MODULE RtSemaphore ----------------------------
(***************************************************************************)
(* A semaphore of ipc.c on the kernel of RtKernel.  A release hands its    *)
(* token to the first waiter without touching the value; the waiter learns *)
(* from thread->error, when it runs again, why it was woken.               *)
(***************************************************************************)
EXTENDS RtKernel, FiniteSets

CONSTANTS Sem,         \* the semaphore and its suspend list
          MaxValue,    \* RT_SEM_VALUE_MAX
          InitValue,
          SemOps          \* the calls the application makes

SemAssumption ==
    /\ Sem \in Queues /\ MaxValue \in Nat \ {0} /\ InitValue \in 0..MaxValue
    /\ IsFiniteSet(Threads)

VARIABLES value,       \* sem->value
          alive,       \* the object exists
          result       \* history: what the last take of each thread returned

semVars == <<k, call, value, alive, result>>

SemInit ==
    /\ KernelInit
    /\ value = InitValue /\ alive = TRUE
    /\ result = [t \in Threads |-> "none"]

Return(t, r) == result' = [result EXCEPT ![t] = r]

SemTakeNow(t) ==
    /\ Running(t) /\ alive /\ value > 0
    /\ value' = value - 1
    /\ Return(t, "EOK")
    /\ UNCHANGED <<k, call, alive>>

(* rt_sem_trytake on a semaphore without tokens *)
SemTryTakeFails(t) ==
    /\ "trytake" \in SemOps /\ Running(t) /\ alive /\ value = 0
    /\ Return(t, "ETIMEOUT")
    /\ UNCHANGED <<k, call, value, alive>>

SemTakeWait(t, n) ==
    /\ Running(t) /\ alive /\ value = 0 /\ n # 0 /\ k.nest = 0
    /\ LET s == ipc_list_suspend([k EXCEPT !.error[t] = "EINTR"], Sem, t)
       IN k' = IF n > 0 THEN rt_timer_start(s, t, n) ELSE s
    /\ ThenSchedule(t, "take", Sem)
    /\ UNCHANGED <<value, alive, result>>

SemTakeBack(t) ==
    /\ Returned(t, "take")
    /\ Return(t, k.error[t])
    /\ call' = [call EXCEPT ![t] = UserCode]
    /\ UNCHANGED <<k, value, alive>>

(* Mutant: the value is raised even when a waiter gets the token. *)
SemReleaseTwice(t) ==
    /\ Running(t) /\ alive /\ value < MaxValue
    /\ value' = value + 1
    /\ IF k.waitq[Sem] = <<>> THEN UNCHANGED <<k, call>>
       ELSE k' = ipc_list_resume(k, Sem) /\ ThenSchedule(t, "none", "none")
    /\ UNCHANGED <<alive, result>>

(* with MaxValue tokens and no waiter the call returns -RT_EFULL *)
SemRelease(t) ==
    /\ Running(t) /\ alive
    /\ \/ /\ k.waitq[Sem] # <<>>
          /\ k' = ipc_list_resume(k, Sem)
          /\ ThenSchedule(t, "none", "none")
          /\ UNCHANGED value
       \/ /\ k.waitq[Sem] = <<>> /\ value < MaxValue
          /\ value' = value + 1
          /\ UNCHANGED <<k, call>>
    /\ UNCHANGED <<alive, result>>

(* RT_IPC_CMD_RESET *)
SemReset(t, v) ==
    /\ "reset" \in SemOps /\ Running(t) /\ alive
    /\ k' = ipc_list_resume_all(k, Sem)
    /\ value' = v
    /\ ThenSchedule(t, "none", "none")
    /\ UNCHANGED <<alive, result>>

(* rt_sem_detach and rt_sem_delete do not call rt_schedule *)
SemDelete(t) ==
    /\ "delete" \in SemOps /\ Running(t) /\ alive
    /\ k' = ipc_list_resume_all(k, Sem)
    /\ alive' = FALSE
    /\ UNCHANGED <<call, value, result>>

(* another thread wakes a waiter with rt_thread_resume, on a port with a   *)
(* clock one that waits forever (InOneStep)                                *)
TakerResumed(t, u) ==
    /\ "resume" \in SemOps /\ Running(t) /\ k.stat[u] = "suspend" /\ InOneStep(u)
    /\ k' = rt_thread_resume(k, u)
    /\ ThenSchedule(t, "none", "none")
    /\ UNCHANGED <<value, alive, result>>

(* another thread, or itself, changes the priority of u *)
ChangePrio(t, u, p) ==
    /\ "prio" \in SemOps /\ Running(t) /\ k.stat[u] # "init"
    /\ k' = ChangePriority(k, u, p)
    /\ ThenSchedule(t, "none", "none")
    /\ UNCHANGED <<value, alive, result>>

SemCalls(t) ==
    \/ SemTakeNow(t) \/ SemTryTakeFails(t) \/ SemTakeBack(t) \/ SemRelease(t) \/ SemDelete(t)
    \/ \E n \in Timeouts : SemTakeWait(t, n)
    \/ \E v \in 0..MaxValue : SemReset(t, v)
    \/ \E u \in Threads \ {IdleThread} : TakerResumed(t, u) \/ \E p \in Prios : ChangePrio(t, u, p)

SemKernelSteps ==
    /\ \/ TickIncrease \/ TimerCheck \/ IdleLoop
       \/ \E t \in Threads : \/ Schedule(t) \/ ThreadYield(t)
                              \/ \E u \in Threads : ThreadStartup(t, u)
    /\ UNCHANGED <<value, alive, result>>

SemNext == SemKernelSteps \/ \E t \in Threads : SemCalls(t)

SemSpec == SemInit /\ [][SemNext]_semVars
----------------------------------------------------------------------------
(* The types, and with them the limits of sem->value: rt_sem_release       *)
(* refuses to count past RT_SEM_VALUE_MAX, rt_sem_take below zero.         *)
TypeOK ==
    /\ KernelTypeOK
    /\ value \in 0..MaxValue /\ alive \in BOOLEAN
    /\ result \in [Threads -> {"none", "EOK", "ETIMEOUT", "EINTR", "ERROR"}]

(* No wakeup is lost: nobody waits for a semaphore that has a token.       *)
NoWaitWithToken == value > 0 => k.waitq[Sem] = <<>>

(* A thread in the middle of a take is on the suspend list exactly as long *)
(* as it is suspended.  If it was timed out, reset, or resumed in one      *)
(* step, it is off the list and no later release can give its token to it. *)
WaitersOnList ==
    \A t \in Threads :
        call[t].op = "take" => (k.stat[t] = "suspend" <=> t \in Elems(k.waitq[Sem]))

(* RT_IPC_FLAG_PRIO: "The pending threads will queue in order of priority" *)
QueueInOrder ==
    \A i, j \in DOMAIN k.waitq[Sem] :
        i < j => k.prio[k.waitq[Sem][i]] <= k.prio[k.waitq[Sem][j]]

(* woken with a token that the thread has not picked up yet *)
Granted == {t \in Threads : call[t].op = "take" /\ k.stat[t] # "suspend" /\ k.error[t] = "EOK"}

(* Takes and releases are those of a counting semaphore: no token is lost  *)
(* or used twice, whatever timeouts, resets and resumes, each of them in   *)
(* one step, come between a release and the moment the woken thread runs   *)
(* again.                                                                  *)
Abstract == INSTANCE CountingSemaphore WITH
    Callers <- Threads,
    tokens <- value + Cardinality(Granted),
    result <- [t \in Threads |-> IF result[t] \in {"none", "EOK"} THEN result[t] ELSE "failed"]

(* The semaphore of ipc.c implements a counting semaphore. *)
ImplementsCounting == Abstract!Spec
=============================================================================
