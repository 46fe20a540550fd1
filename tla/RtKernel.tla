------------------------------ MODULE RtKernel ------------------------------
(***************************************************************************)
(* The uniprocessor kernel of RT-Thread as the abstract-machine port       *)
(* builds it: the ready table and rt_schedule of scheduler_up.c, threads   *)
(* (thread.c), their timers as thread.c uses them (timer.c) and the tick   *)
(* (clock.c).                                                              *)
(*                                                                         *)
(* Kernel functions call each other many deep, so each of them is an       *)
(* operator from the kernel state k to the kernel state it leaves.  A call *)
(* of a thread is cut where another context can come between: at           *)
(* rt_schedule, which every function makes with interrupts enabled, and    *)
(* where rt_schedule returns in a thread that was switched out in it.      *)
(*                                                                         *)
(* The port has no interrupts (bsp interrupt.c), which is ClockISR =       *)
(* FALSE.  ClockISR = TRUE is the kernel on a port whose clock interrupt   *)
(* calls rt_tick_increase; the interrupt may come wherever interrupts are  *)
(* enabled.  rt_thread_resume and rt_thread_delete enable interrupts       *)
(* between their parts.  RtThreads cuts the application's calls of them    *)
(* there; inside a function that keeps interrupts disabled, as those of    *)
(* ipc.c do, rt_thread_resume is one step.                                 *)
(***************************************************************************)
EXTENDS Integers, Sequences

CONSTANTS Threads,      \* thread objects, the idle thread among them
          IdleThread, MainThread,
          MaxPrio,      \* RT_THREAD_PRIORITY_MAX; 0 is the most urgent
          InitPrio,     \* init_priority of each thread
          InitTick,     \* init_tick, the time slice
          Queues,       \* suspend lists of the IPC objects
          QueueFlag,    \* "FIFO" or "PRIO", the flag of each of them
          Timeouts,     \* waiting times; 0 is RT_WAITING_NO
          ClockISR      \* whether a clock interrupt calls rt_tick_increase

Forever == -1           \* RT_WAITING_FOREVER

Prios == 0..(MaxPrio - 1)

KernelAssumption ==
    /\ IdleThread \in Threads /\ MainThread \in Threads \ {IdleThread}
    /\ MaxPrio \in Nat \ {0}
    /\ InitPrio \in [Threads -> Prios]
    /\ InitPrio[IdleThread] = MaxPrio - 1
    /\ InitTick \in Nat \ {0}
    /\ QueueFlag \in [Queues -> {"FIFO", "PRIO"}]
    /\ Timeouts \subseteq Nat \cup {Forever}
    /\ ClockISR \in BOOLEAN

VARIABLES k,     \* kernel state, see KernelInit
          call   \* what each thread is in the middle of

(***************************************************************************)
(* Lists.  A thread has one list node, tlist, and is on at most one list.  *)
(***************************************************************************)
Elems(s) == {s[i] : i \in DOMAIN s}

(* s with the node of t unlinked *)
Without(s, t) ==
    LET at == CHOOSE i \in DOMAIN s : s[i] = t
    IN IF t \in Elems(s) THEN SubSeq(s, 1, at - 1) \o SubSeq(s, at + 1, Len(s)) ELSE s

(* s with t put before position i *)
InsertBefore(s, i, t) == SubSeq(s, 1, i - 1) \o <<t>> \o SubSeq(s, i, Len(s))

rt_list_remove(kk, t) ==
    [kk EXCEPT !.table = [p \in Prios |-> Without(@[p], t)],
               !.waitq = [q \in Queues |-> Without(@[q], t)],
               !.defunct = Without(@, t)]

(***************************************************************************)
(* scheduler_up.c                                                          *)
(***************************************************************************)
rt_schedule_insert_thread(kk, t) ==
    IF t = kk.cur
    THEN [kk EXCEPT !.stat[t] = "running"]
    ELSE [kk EXCEPT !.stat[t] = "ready",
                    !.table[kk.prio[t]] = IF t \in kk.yield THEN Append(@, t) ELSE <<t>> \o @,
                    !.group = @ \cup {kk.prio[t]}]

rt_schedule_remove_thread(kk, t) ==
    LET r == rt_list_remove(kk, t)
    IN IF r.table[r.prio[t]] = <<>> THEN [r EXCEPT !.group = @ \ {r.prio[t]}] ELSE r

(* __rt_ffs(rt_thread_ready_priority_group) - 1 *)
HighestReadyPriority(kk) == CHOOSE p \in kk.group : \A q \in kk.group : p <= q

rt_schedule(kk) ==
    IF kk.nest # 0 \/ kk.group = {} THEN kk
    ELSE LET c == kk.cur
             highest == HighestReadyPriority(kk)
             running == kk.stat[c] = "running"
             to == IF running /\ (\/ kk.prio[c] < highest
                                  \/ kk.prio[c] = highest /\ c \notin kk.yield)
                   THEN c ELSE Head(kk.table[highest])
             k1 == [kk EXCEPT !.yield = IF running THEN @ \ {c} ELSE @, !.cur = to]
             k2 == IF running /\ to # c THEN rt_schedule_insert_thread(k1, c) ELSE k1
         IN [rt_schedule_remove_thread(k2, to) EXCEPT !.stat[to] = "running"]

(***************************************************************************)
(* The timer of a thread: timers is the system timer list, left how many   *)
(* ticks an active timer has to go (RtTimer models the list as it is).     *)
(***************************************************************************)
rt_timer_stop(kk, t) == [kk EXCEPT !.timers = Without(@, t), !.left[t] = 0]

rt_timer_start(kk, t, n) ==
    LET s == Without(kk.timers, t)
        later == {i \in DOMAIN s : kk.left[s[i]] > n}
        at == IF later = {} THEN Len(s) + 1 ELSE CHOOSE i \in later : \A j \in later : i <= j
    IN IF n > 0 THEN [kk EXCEPT !.timers = InsertBefore(s, at, t), !.left[t] = n] ELSE kk

(***************************************************************************)
(* thread.c                                                                *)
(***************************************************************************)
rt_thread_suspend(kk, t) ==
    [rt_timer_stop(rt_schedule_remove_thread(kk, t), t) EXCEPT !.stat[t] = "suspend"]

rt_thread_resume(kk, t) ==
    IF kk.stat[t] # "suspend" THEN kk
    ELSE rt_schedule_insert_thread(rt_timer_stop(rt_list_remove(kk, t), t), t)

(* the first part of rt_thread_detach and rt_thread_delete *)
Unschedule(kk, t) == IF kk.stat[t] = "init" THEN kk ELSE rt_schedule_remove_thread(kk, t)

(* the last part of them, and of _thread_exit *)
MakeDefunct(kk, t) ==
    [rt_timer_stop(kk, t) EXCEPT !.stat[t] = "close", !.yield = @ \ {t}, !.defunct = <<t>> \o @]

(* both parts with interrupts disabled, as in _thread_exit *)
CloseThread(kk, t) == MakeDefunct(Unschedule(kk, t), t)

(* Mutant: a ready thread stays on the list of its old priority. *)
ChangeInPlace(kk, t, p) == [kk EXCEPT !.prio[t] = p]

(* RT_THREAD_CTRL_CHANGE_PRIORITY *)
ChangePriority(kk, t, p) ==
    IF kk.stat[t] = "ready"
    THEN rt_schedule_insert_thread([rt_schedule_remove_thread(kk, t) EXCEPT !.prio[t] = p], t)
    ELSE [kk EXCEPT !.prio[t] = p]

(* Mutant: the timed out thread stays on its suspend list. *)
TimeoutKeepsNode(kk, t) ==
    rt_schedule(rt_schedule_insert_thread([kk EXCEPT !.error[t] = "ETIMEOUT"], t))

thread_timeout(kk, t) ==
    rt_schedule(rt_schedule_insert_thread(
        rt_list_remove([kk EXCEPT !.error[t] = "ETIMEOUT"], t), t))

(***************************************************************************)
(* The suspend lists of ipc.c                                              *)
(***************************************************************************)

ipc_list_suspend(kk, q, t) ==
    LET r == IF kk.stat[t] = "suspend" THEN kk ELSE rt_thread_suspend(kk, t)
        s == r.waitq[q]
        after == {i \in DOMAIN s : r.prio[t] < r.prio[s[i]]}
        at == IF QueueFlag[q] = "FIFO" \/ after = {} THEN Len(s) + 1
              ELSE CHOOSE i \in after : \A j \in after : i <= j
    IN [r EXCEPT !.waitq[q] = InsertBefore(s, at, t)]

ipc_list_resume(kk, q) ==
    LET t == Head(kk.waitq[q]) IN rt_thread_resume([kk EXCEPT !.error[t] = "EOK"], t)

(* Mutant: the threads are told that all is well. *)
ResumeAllOk(kk, q) ==
    LET s == kk.waitq[q]
        upto[i \in 0..Len(s)] ==
            IF i = 0 THEN kk
            ELSE rt_thread_resume([upto[i - 1] EXCEPT !.error[s[i]] = "EOK"], s[i])
    IN upto[Len(s)]

(* resuming the head of the list until the list is empty *)
ipc_list_resume_all(kk, q) ==
    LET s == kk.waitq[q]
        upto[i \in 0..Len(s)] ==
            IF i = 0 THEN kk
            ELSE rt_thread_resume([upto[i - 1] EXCEPT !.error[s[i]] = "ERROR"], s[i])
    IN upto[Len(s)]

(***************************************************************************)
(* The kernel when rt_system_scheduler_start has switched to the main      *)
(* thread: the idle thread is ready, no other thread is started yet.       *)
(***************************************************************************)
UserCode == [pc |-> "user", op |-> "none", obj |-> "none"]

(* what is left of a call that RtThreads cuts: rt_list_remove with         *)
(* rt_timer_stop and rt_schedule_insert_thread of rt_thread_resume,        *)
(* rt_schedule_remove_thread and the rest of rt_thread_delete              *)
Parts == {"resume", "insert", "remove", "close"}

(* The modules of the IPC objects take a resume or deletion of u by the    *)
(* application as one step.  On a port with a clock it is one under two    *)
(* conditions: the caller has locked the scheduler, so that no other       *)
(* thread comes between its parts, and u does not wait for a limited time, *)
(* so that no interrupt wakes it there.  rt_exit_critical then calls       *)
(* rt_schedule.                                                            *)
InOneStep(u) == ClockISR => u \notin Elems(k.timers)

KernelInit ==
    /\ k = [table   |-> [p \in Prios |-> IF p = MaxPrio - 1 THEN <<IdleThread>> ELSE <<>>],
            group   |-> {MaxPrio - 1},
            cur     |-> MainThread,
            nest    |-> 0,
            stat    |-> [t \in Threads |-> CASE t = MainThread -> "running"
                                             [] t = IdleThread -> "ready"
                                             [] OTHER -> "init"],
            yield   |-> {},
            prio    |-> InitPrio,
            slice   |-> [t \in Threads |-> InitTick],
            error   |-> [t \in Threads |-> "EOK"],
            timers  |-> <<>>,
            left    |-> [t \in Threads |-> 0],
            waitq   |-> [q \in Queues |-> <<>>],
            defunct |-> <<>>,
            isr     |-> FALSE]
    /\ call = [t \in Threads |-> UserCode]

(* t is running its own code and may call the kernel *)
Running(t) == t = k.cur /\ ~k.isr /\ call[t].pc = "user" /\ t # IdleThread

(* t is back from the rt_schedule it made inside op *)
Returned(t, op) == t = k.cur /\ ~k.isr /\ call[t].pc = "back" /\ call[t].op = op

(* t goes on to rt_schedule; op is what is left to do when it returns *)
ThenSchedule(t, op, obj) == call' = [call EXCEPT ![t] = [pc |-> "sched", op |-> op, obj |-> obj]]

Schedule(t) ==
    /\ t = k.cur /\ ~k.isr /\ call[t].pc = "sched"
    /\ k' = rt_schedule(k)
    /\ call' = [call EXCEPT ![t] = IF call[t].op = "none" THEN UserCode ELSE [@ EXCEPT !.pc = "back"]]

(***************************************************************************)
(* The clock interrupt: rt_tick_increase up to its rt_timer_check, then    *)
(* one step for each timer that has run out.                               *)
(***************************************************************************)
TickIncrease ==
    /\ ClockISR /\ ~k.isr
    /\ LET c == k.cur
           k1 == [k EXCEPT !.isr = TRUE,
                           !.left = [t \in Threads |-> IF @[t] > 0 THEN @[t] - 1 ELSE 0],
                           !.slice[c] = IF @ = 1 THEN InitTick ELSE @ - 1]
       IN k' = IF k.slice[c] = 1 THEN rt_schedule([k1 EXCEPT !.yield = @ \cup {c}]) ELSE k1
    /\ UNCHANGED call

TimerCheck ==
    /\ k.isr
    /\ k' = IF k.timers # <<>> /\ k.left[Head(k.timers)] = 0
            THEN thread_timeout(rt_timer_stop(k, Head(k.timers)), Head(k.timers))
            ELSE [k EXCEPT !.isr = FALSE]
    /\ UNCHANGED call

(***************************************************************************)
(* Calls every application makes.                                          *)
(***************************************************************************)
ThreadStartup(t, u) ==
    /\ Running(t) /\ k.stat[u] = "init"
    /\ k' = rt_thread_resume([k EXCEPT !.stat[u] = "suspend", !.yield = @ \ {u}], u)
    /\ ThenSchedule(t, "none", "none")

ThreadYield(t) ==
    /\ Running(t)
    /\ k' = [k EXCEPT !.slice[t] = InitTick, !.yield = @ \cup {t}]
    /\ ThenSchedule(t, "none", "none")

(* Mutant: the timer is started before rt_thread_suspend, which stops it. *)
SleepStopsTimer(t, n) ==
    /\ Running(t) /\ k.nest = 0 /\ k.stat[t] = "running" /\ n > 0
    /\ k' = [rt_thread_suspend(rt_timer_start(k, t, n), t) EXCEPT !.error[t] = "EINTR"]
    /\ ThenSchedule(t, "sleep", "none")

(* rt_thread_sleep: error is set to EINTR once the timer runs, and on the  *)
(* way back a timeout is turned into success.                              *)
ThreadSleep(t, n) ==
    /\ Running(t) /\ k.nest = 0 /\ k.stat[t] = "running" /\ n > 0
    /\ k' = [rt_timer_start(rt_thread_suspend(k, t), t, n) EXCEPT !.error[t] = "EINTR"]
    /\ ThenSchedule(t, "sleep", "none")

ThreadSleepBack(t) ==
    /\ Returned(t, "sleep")
    /\ k' = [k EXCEPT !.error[t] = IF @ = "ETIMEOUT" THEN "EOK" ELSE @]
    /\ call' = [call EXCEPT ![t] = UserCode]

(* the idle thread: rt_defunct_execute frees dead threads, or the loop spins *)
IdleLoop ==
    /\ k.cur = IdleThread /\ ~k.isr /\ call[IdleThread].pc = "user"
    /\ IF k.defunct = <<>> THEN UNCHANGED k
       ELSE k' = [k EXCEPT !.defunct = Tail(@), !.stat[Head(k.defunct)] = "freed"]
    /\ UNCHANGED call

(***************************************************************************)
(* What the kernel promises whatever is built on it.                       *)
(***************************************************************************)
(* The types of the fields of k. *)
KernelTypeOK ==
    /\ k.table \in [Prios -> Seq(Threads)]
    /\ k.group \subseteq Prios
    /\ k.cur \in Threads /\ k.nest \in Nat
    /\ k.stat \in [Threads -> {"init", "ready", "running", "suspend", "close", "freed"}]
    /\ k.yield \subseteq Threads
    /\ k.prio \in [Threads -> Prios]
    /\ k.slice \in [Threads -> 1..InitTick]
    /\ k.error \in [Threads -> {"EOK", "EINTR", "ETIMEOUT", "ERROR"}]
    /\ k.timers \in Seq(Threads) /\ k.left \in [Threads -> Nat]
    /\ k.waitq \in [Queues -> Seq(Threads)]
    /\ k.defunct \in Seq(Threads) /\ k.isr \in BOOLEAN
    /\ \A t \in Threads : call[t].pc \in {"user", "sched", "back"} \cup Parts

(* how often t is on a list *)
Times(s, t) == {i \in DOMAIN s : s[i] = t}

Lists == {k.table[p] : p \in Prios} \cup {k.waitq[q] : q \in Queues} \cup {k.defunct}

(* another thread has taken u off its list and is about to put it on one *)
Removed(u) ==
    \E t \in Threads \ {u} : call[t].pc \in {"insert", "close"} /\ call[t].obj = u

(* The bitmap misses no priority whose list is not empty, and names just   *)
(* those while the scheduler is not locked; a thread is on the list of its *)
(* current priority exactly when its state is READY, but for one that is   *)
(* between two lists.  So rt_schedule never picks the head of an empty     *)
(* list and never overlooks a thread.  The one node of a thread is never   *)
(* on two lists.                                                           *)
ReadyTableExact ==
    /\ {p \in Prios : k.table[p] # <<>>} \subseteq k.group
    /\ k.nest = 0 => k.group = {p \in Prios : k.table[p] # <<>>}
    /\ \A t \in Threads, p \in Prios :
          t \in Elems(k.table[p]) <=> (k.stat[t] = "ready" /\ k.prio[t] = p /\ ~Removed(t))
    /\ \A t \in Threads, q \in Queues : t \in Elems(k.waitq[q]) => k.stat[t] = "suspend"
    /\ \A t \in Threads : t \in Elems(k.defunct) <=> k.stat[t] = "close"
    /\ \A s \in Lists, t \in Threads : \A i, j \in Times(s, t) : i = j
    /\ \A q, r \in Queues : q # r => Elems(k.waitq[q]) \cap Elems(k.waitq[r]) = {}

(* The assertion of _thread_timeout: a timer that runs out finds its       *)
(* thread suspended.  An active timer never belongs to a thread that was   *)
(* woken, closed or freed meanwhile.                                       *)
TimerOfSuspended == \A t \in Elems(k.timers) : k.stat[t] = "suspend"

(* No thread that is more urgent than the running one is ready, once the   *)
(* calls that changed the ready table have come to their rt_schedule.      *)
MostUrgentRuns ==
    (call[k.cur].pc # "sched" /\ k.nest = 0) =>
        \A p \in k.group : k.prio[k.cur] <= p
=============================================================================
