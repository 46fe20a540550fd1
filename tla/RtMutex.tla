------------------------------ MODULE RtMutex ------------------------------
(***************************************************************************)
(* The mutexes of ipc.c on the kernel of RtKernel: recursive ownership,    *)
(* priority inheritance along chains of owners that wait themselves,       *)
(* priority ceilings, and the end of a wait by handover, timeout, deletion *)
(* of the mutex or of the waiter.                                          *)
(*                                                                         *)
(* An operator here takes and gives a record x of the kernel x.k and the   *)
(* mutexes x.m.                                                            *)
(***************************************************************************)
EXTENDS RtKernel, FiniteSets

CONSTANTS Mutexes,     \* a mutex and its suspend list
          NoThread,    \* RT_NULL as an owner
          NoMutex,     \* RT_NULL as a pending object
          MaxHold,     \* RT_MUTEX_HOLD_MAX
          Ceilings,    \* arguments of rt_mutex_setprioceiling
          MutexOps     \* the calls the application makes

NoPrio == MaxPrio      \* 0xFF, less urgent than any thread

MutexAssumption ==
    /\ Mutexes \subseteq Queues
    /\ NoThread \notin Threads /\ NoMutex \notin Mutexes
    /\ MaxHold \in Nat \ {0} /\ Ceilings \subseteq Prios
    /\ IsFiniteSet(Threads)
    /\ \A q \in Mutexes : QueueFlag[q] = "PRIO"

VARIABLE m    \* owner, hold, priority, ceiling and life of each mutex;
              \* taken_object_list and pending_object of each thread

mutexVars == <<k, call, m>>

FreeMutexes ==
    [owner    |-> [q \in Mutexes |-> NoThread],
     hold     |-> [q \in Mutexes |-> 0],
     priority |-> [q \in Mutexes |-> NoPrio],
     ceiling  |-> [q \in Mutexes |-> NoPrio],
     life     |-> [q \in Mutexes |-> "alive"],
     taken    |-> [t \in Threads |-> {}],
     pending  |-> [t \in Threads |-> NoMutex]]

MutexInit == KernelInit /\ m = FreeMutexes

State == [k |-> k, m |-> m]

Become(x) == k' = x.k /\ m' = x.m

(***************************************************************************)
(* Priorities                                                              *)
(***************************************************************************)
HeadPriority(x, q) ==
    IF x.k.waitq[q] = <<>> THEN NoPrio ELSE x.k.prio[Head(x.k.waitq[q])]

mutex_update_priority(x, q) == [x EXCEPT !.m.priority[q] = HeadPriority(x, q)]

(* the most urgent of the thread's own priority and what its mutexes ask   *)
thread_get_mutex_priority(x, t) ==
    LET asked == {InitPrio[t]} \cup {x.m.priority[q] : q \in x.m.taken[t]}
                               \cup {x.m.ceiling[q] : q \in x.m.taken[t]}
    IN CHOOSE p \in asked : \A r \in asked : p <= r

(* t, waiting for q, is put in its new place on the suspend list *)
Requeue(x, q, t) ==
    mutex_update_priority([x EXCEPT !.k = ipc_list_suspend(rt_list_remove(@, t), q, t)], q)

(* t is to have priority p; more says whether that is still to be done *)
ToDo(x, t, p, more) == [x |-> x, t |-> t, p |-> p, more |-> more]

(* the owner o has to follow if its mutexes now ask for something else *)
ThenOwner(x, o, p) == ToDo(x, o, p, p # x.k.prio[o])

Owner(x, o) == ThenOwner(x, o, thread_get_mutex_priority(x, o))

(* rt_object_get_type(pending_object) == RT_Object_Class_Mutex: detach and *)
(* delete reset the type                                                   *)
IsMutex(x, q) == q # NoMutex /\ x.m.life[q] = "alive"

(* One level of _thread_update_priority: t gets priority p, and if it is   *)
(* waiting for a mutex, the owner of that is next.                         *)
UpdateOne(x, t, p, q) ==
    IF x.k.stat[t] = "suspend" /\ IsMutex(x, q)
    THEN Owner(Requeue([x EXCEPT !.k = ChangePriority(@, t, p)], q, t), x.m.owner[q])
    ELSE ToDo([x EXCEPT !.k = ChangePriority(@, t, p)], t, p, FALSE)

Deeper(s) == IF s.more THEN UpdateOne(s.x, s.t, s.p, s.x.m.pending[s.t]) ELSE s

(* a chain that changes a priority at each level ends within this many *)
ChainBound == Cardinality(Threads) * MaxPrio

(* Mutant: inheritance stops at the first owner. *)
UpdateFirstOnly(x, t, p) == [x EXCEPT !.k = ChangePriority(@, t, p)]

thread_update_priority(x, t, p) ==
    LET level[i \in 0..ChainBound] ==
            IF i = 0 THEN ToDo(x, t, p, TRUE) ELSE Deeper(level[i - 1])
    IN level[ChainBound].x

(* t gets the priority p that its mutexes ask for, unless it has it *)
Refresh(x, t, p) == IF p = x.k.prio[t] THEN x ELSE thread_update_priority(x, t, p)

RefreshOwner(x, q) == Refresh(x, x.m.owner[q], thread_get_mutex_priority(x, x.m.owner[q]))

(* what rt_mutex_drop_thread and the failing end of _rt_mutex_take share:  *)
(* t, off the suspend list already, gives up waiting for q                 *)
GiveUp(x, q, t) ==
    IF x.k.prio[x.m.owner[q]] = x.k.prio[t] THEN RefreshOwner(mutex_update_priority(x, q), q)
    ELSE mutex_update_priority(x, q)
----------------------------------------------------------------------------
(***************************************************************************)
(* rt_mutex_take                                                           *)
(***************************************************************************)
MayTake(t, q) == Running(t) /\ k.nest = 0 /\ m.life[q] = "alive"

(* at MaxHold the call returns -RT_EFULL *)
MutexTakeAgain(t, q) ==
    /\ MayTake(t, q) /\ m.owner[q] = t /\ m.hold[q] < MaxHold
    /\ m' = [m EXCEPT !.hold[q] = @ + 1]
    /\ k' = [k EXCEPT !.error[t] = "EOK"]
    /\ UNCHANGED call

MutexTakeFree(t, q) ==
    /\ MayTake(t, q) /\ m.owner[q] = NoThread
    /\ LET x == [k |-> [k EXCEPT !.error[t] = "EOK"],
                 m |-> [m EXCEPT !.owner[q] = t, !.priority[q] = NoPrio, !.hold[q] = 1]]
           y == IF m.ceiling[q] < k.prio[t] THEN thread_update_priority(x, t, m.ceiling[q]) ELSE x
       IN Become([y EXCEPT !.m.taken[t] = @ \cup {q}])
    /\ UNCHANGED call

MutexTryTakeFails(t, q) ==
    /\ "trytake" \in MutexOps /\ MayTake(t, q) /\ m.owner[q] \notin {NoThread, t}
    /\ k' = [k EXCEPT !.error[t] = "ETIMEOUT"]
    /\ UNCHANGED <<call, m>>

MutexTakeWait(t, q, n) ==
    /\ MayTake(t, q) /\ m.owner[q] \notin {NoThread, t} /\ n # 0
    /\ LET p == k.prio[t]
           o == m.owner[q]
           x == [k |-> ipc_list_suspend([k EXCEPT !.error[t] = "EOK"], q, t),
                 m |-> [m EXCEPT !.pending[t] = q,
                                 !.priority[q] = IF p < @ THEN p ELSE @]]
           y == IF p < m.priority[q] /\ p < k.prio[o] THEN thread_update_priority(x, o, p) ELSE x
       IN Become([y EXCEPT !.k = IF n > 0 THEN rt_timer_start(@, t, n) ELSE @])
    /\ ThenSchedule(t, "lock", q)

(* The wait is over.  A thread with an error was not given the mutex and   *)
(* reads mutex->owner->current_priority: with no owner that is a load from *)
(* RT_NULL, with no mutex one from freed memory, and the model stops the   *)
(* thread there.                                                           *)
MutexTakeBack(t) ==
    /\ Returned(t, "lock")
    /\ LET q == call[t].obj
       IN IF k.error[t] = "EOK" THEN UNCHANGED <<k, m>>
          ELSE m.owner[q] # NoThread /\ m.life[q] # "freed" /\ Become(GiveUp(State, q, t))
    /\ call' = [call EXCEPT ![t] = UserCode]

(***************************************************************************)
(* rt_mutex_release by the owner; called by another thread it only sets    *)
(* the error of that thread, which its next call sets again.               *)
(***************************************************************************)
MutexReleaseOne(t, q) ==
    /\ Running(t) /\ m.owner[q] = t /\ m.life[q] = "alive" /\ m.hold[q] > 1
    /\ m' = [m EXCEPT !.hold[q] = @ - 1]
    /\ UNCHANGED <<k, call>>

(* the releaser's priority once q is off its taken list *)
ReleaserPriority(x, q, t) ==
    IF x.m.ceiling[q] # NoPrio \/ x.k.prio[t] = x.m.priority[q]
    THEN [x EXCEPT !.k = ChangePriority(@, t, thread_get_mutex_priority(x, t))]
    ELSE x

(* Mutant: the new owner does not get the mutex onto its taken list. *)
HandoverNotTaken(x, q, u) ==
    LET y == [k |-> rt_list_remove(x.k, u),
              m |-> [x.m EXCEPT !.owner[q] = u, !.hold[q] = 1, !.pending[u] = NoMutex]]
    IN mutex_update_priority([y EXCEPT !.k = rt_thread_resume(@, u)], q)

(* the first waiter u becomes the owner *)
Handover(x, q, u) ==
    LET y == [k |-> rt_list_remove(x.k, u),
              m |-> [x.m EXCEPT !.owner[q] = u, !.hold[q] = 1,
                                !.taken[u] = @ \cup {q}, !.pending[u] = NoMutex]]
    IN mutex_update_priority([y EXCEPT !.k = rt_thread_resume(@, u)], q)

MutexRelease(t, q) ==
    /\ Running(t) /\ m.owner[q] = t /\ m.life[q] = "alive" /\ m.hold[q] = 1
    /\ LET given == [k |-> k, m |-> [m EXCEPT !.hold[q] = 0, !.taken[t] = @ \ {q}]]
           x == ReleaserPriority(given, q, t)
       IN Become(IF k.waitq[q] # <<>> THEN Handover(x, q, Head(k.waitq[q]))
                 ELSE [x EXCEPT !.m.owner[q] = NoThread, !.m.priority[q] = NoPrio])
    /\ IF k.waitq[q] # <<>> \/ m.ceiling[q] # NoPrio \/ k.prio[t] = m.priority[q]
       THEN ThenSchedule(t, "none", "none") ELSE UNCHANGED call

(***************************************************************************)
(* The other operations                                                    *)
(***************************************************************************)
MutexSetPrioCeiling(t, q, p) ==
    /\ Running(t) /\ m.life[q] = "alive" /\ m.ceiling[q] # p
    /\ LET x == [State EXCEPT !.m.ceiling[q] = p]
       IN Become(IF m.owner[q] = NoThread THEN x ELSE RefreshOwner(x, q))
    /\ UNCHANGED call

(* rt_mutex_detach leaves the memory to the application, rt_mutex_delete   *)
(* frees it.  Neither calls rt_schedule, and owner keeps its value.        *)
MutexRemove(t, q, how) ==
    /\ Running(t) /\ m.life[q] = "alive"
    /\ k' = ipc_list_resume_all(k, q)
    /\ m' = [m EXCEPT !.life[q] = how,
                      !.taken = [u \in Threads |-> @[u] \ {q}]]
    /\ UNCHANGED call

(* RT_THREAD_CTRL_CLOSE of a thread that owns no mutex; it may be waiting  *)
(* for one.  _thread_exit and rt_thread_delete do not release what a       *)
(* thread owns: giving it back first is the application's part.  A mutex   *)
(* it still is pending on needs an owner, as in MutexTakeBack.  On a port  *)
(* with a clock it is closed under the conditions of InOneStep.            *)
ThreadDrop(t, u) ==
    /\ "drop" \in MutexOps /\ Running(t) /\ u \notin {t, IdleThread}
    /\ k.stat[u] \in {"ready", "suspend"} /\ m.taken[u] = {} /\ InOneStep(u)
    /\ LET q == m.pending[u]
           closed == [State EXCEPT !.k = CloseThread(@, u)]
       IN IF IsMutex(State, q)
          THEN /\ m.owner[q] # NoThread
               /\ Become([GiveUp(closed, q, u) EXCEPT !.m.pending[u] = NoMutex])
          ELSE Become(closed)
    /\ call' = [call EXCEPT ![u] = UserCode, ![t] = [UserCode EXCEPT !.pc = "sched"]]

(* A thread suspends itself, and another resumes it.  With "resume" the    *)
(* application also resumes threads that wait for a mutex.  InOneStep says *)
(* when it may on a port with a clock.                                     *)
ThreadSuspendSelf(t) ==
    /\ "suspend" \in MutexOps /\ Running(t) /\ k.nest = 0
    /\ k' = rt_thread_suspend(k, t)
    /\ ThenSchedule(t, "none", "none")
    /\ UNCHANGED m

ThreadWake(t, u) ==
    /\ Running(t) /\ k.stat[u] = "suspend" /\ InOneStep(u)
    /\ "resume" \in MutexOps \/ call[u].op = "none"
    /\ k' = rt_thread_resume(k, u)
    /\ ThenSchedule(t, "none", "none")
    /\ UNCHANGED m

MutexCalls(t) ==
    \/ \E q \in Mutexes : \/ MutexTakeAgain(t, q) \/ MutexTakeFree(t, q) \/ MutexTryTakeFails(t, q)
                          \/ MutexReleaseOne(t, q) \/ MutexRelease(t, q)
                          \/ \E how \in {"detached", "freed"} \cap MutexOps : MutexRemove(t, q, how)
                          \/ \E n \in Timeouts : MutexTakeWait(t, q, n)
                          \/ \E p \in Ceilings : MutexSetPrioCeiling(t, q, p)
    \/ MutexTakeBack(t) \/ ThreadSuspendSelf(t)
    \/ \E u \in Threads : ThreadDrop(t, u) \/ ThreadWake(t, u)

MutexKernelSteps ==
    /\ \/ TickIncrease \/ TimerCheck \/ IdleLoop
       \/ \E t \in Threads : \/ Schedule(t) \/ ThreadYield(t)
                              \/ \E u \in Threads : ThreadStartup(t, u)
    /\ UNCHANGED m

MutexNext == MutexKernelSteps \/ \E t \in Threads : MutexCalls(t)

MutexSpec == MutexInit /\ [][MutexNext]_mutexVars
----------------------------------------------------------------------------
(* The types, and with them the limits of mutex->hold: rt_mutex_take       *)
(* refuses to count past RT_MUTEX_HOLD_MAX.                                *)
MutexTypeOK ==
    /\ KernelTypeOK
    /\ m.owner \in [Mutexes -> Threads \cup {NoThread}]
    /\ m.hold \in [Mutexes -> 0..MaxHold]
    /\ m.priority \in [Mutexes -> 0..NoPrio] /\ m.ceiling \in [Mutexes -> 0..NoPrio]
    /\ m.life \in [Mutexes -> {"alive", "detached", "freed"}]
    /\ m.taken \in [Threads -> SUBSET Mutexes]
    /\ m.pending \in [Threads -> Mutexes \cup {NoMutex}]

(* The books agree: a mutex is on the taken list of its owner and of       *)
(* nobody else, it is held exactly while it is owned, and nobody waits for *)
(* a mutex that is free or its own.                                        *)
OwnershipExact ==
    \A q \in Mutexes : m.life[q] = "alive" =>
        /\ \A t \in Threads : q \in m.taken[t] <=> m.owner[q] = t
        /\ m.hold[q] > 0 <=> m.owner[q] # NoThread
        /\ k.waitq[q] # <<>> => m.owner[q] \in Threads \ Elems(k.waitq[q])

(* pending_object is the mutex on whose list the thread is, while it is    *)
(* suspended: thread_update_priority moves the thread to that list.        *)
PendingIsList ==
    \A t \in Threads, q \in Mutexes :
        k.stat[t] = "suspend" => (m.pending[t] = q <=> t \in Elems(k.waitq[q]))

(* Only a thread that is suspended in rt_mutex_take of a mutex is on its   *)
(* suspend list: rt_mutex_release makes the first of the list the owner.   *)
OnlyTakersOnList ==
    \A q \in Mutexes : \A t \in Elems(k.waitq[q]) :
        call[t].op = "lock" /\ call[t].obj = q /\ k.stat[t] = "suspend"

(* a thread whose wait failed has yet to run the end of rt_mutex_take *)
FailurePending == \E t \in Threads :
    call[t].op = "lock" /\ k.stat[t] # "suspend" /\ k.error[t] # "EOK"

(* the priorities that count for t *)
Reasons(t) ==
    LET owned == {q \in Mutexes : m.owner[q] = t /\ m.life[q] = "alive"}
    IN {InitPrio[t]} \cup {m.ceiling[q] : q \in owned}
                     \cup UNION {{k.prio[w] : w \in Elems(k.waitq[q])} : q \in owned}

(* Inheritance is exact: a thread has the most urgent of its own priority, *)
(* the ceilings of its mutexes and the priorities of those who wait for    *)
(* them.  No boost is missing and none outlives its reason, but for the    *)
(* time a failed waiter takes to run the end of rt_mutex_take.             *)
PriorityExact ==
    FailurePending \/ \A t \in Threads : k.stat[t] \notin {"init", "close", "freed"} =>
        k.prio[t] \in Reasons(t) /\ \A p \in Reasons(t) : k.prio[t] <= p

(* The suspend list of a mutex stays in order of priority while            *)
(* inheritance changes the priorities of its waiters, and mutex->priority  *)
(* is the priority of the first.                                           *)
ListInOrder ==
    \A q \in Mutexes : m.life[q] = "alive" =>
        /\ m.priority[q] = HeadPriority(State, q)
        /\ \A i, j \in DOMAIN k.waitq[q] :
              i < j => k.prio[k.waitq[q][i]] <= k.prio[k.waitq[q][j]]

(* "ONLY When the return value is RT_EOK, the operation is successful": a  *)
(* rt_mutex_take that waited and returns RT_EOK has the mutex.             *)
TakeOkOwns ==
    \A t \in Threads :
        (Returned(t, "lock") /\ k.error[t] = "EOK") => m.owner[call[t].obj] = t

(* A wait that ended with an error ends in code that reads the owner of    *)
(* the mutex: there is one.                                                *)
OwnerAtFailure ==
    \A t \in Threads :
        (Returned(t, "lock") /\ k.error[t] # "EOK") => m.owner[call[t].obj] # NoThread

(* The same code reads the mutex: it still exists.                         *)
MutexAtFailure ==
    \A t \in Threads : Returned(t, "lock") => m.life[call[t].obj] # "freed"
=============================================================================
