----------------------------- MODULE RtThreads -----------------------------
(***************************************************************************)
(* Threads that use no IPC object: what thread.c, scheduler_up.c, clock.c  *)
(* and idle.c do when the application starts, suspends, resumes, deletes   *)
(* and reprioritises threads and locks the scheduler.                      *)
(*                                                                         *)
(* rt_thread_startup, rt_thread_resume, rt_thread_delete and               *)
(* rt_thread_detach enable interrupts between their parts, so the clock    *)
(* interrupt, and after it other threads, may come there: each part is an  *)
(* action, and pc says which one comes next.                               *)
(***************************************************************************)
EXTENDS RtKernel

CONSTANTS Ops,        \* the calls the application makes
          Rules,      \* the rules it keeps, of "apart" and "still"
          MaxNest     \* bound on the nesting of rt_enter_critical

(* History: a call that leaves rescheduling to its caller was made and     *)
(* rt_schedule was not called since.                                       *)
VARIABLE owed

vars == <<k, call, owed>>

Init == KernelInit /\ owed = FALSE

(* t is between two parts of a call on u *)
Handles(t, u) == call[t].pc \in Parts /\ call[t].obj = u

Unhandled(u) == \A t \in Threads : ~Handles(t, u)

(***************************************************************************)
(* Every part trusts what an earlier one has found.  Two rules of the      *)
(* application make it right to: there are no two calls on one thread at a *)
(* time ("apart"); and, on a port with a clock, no call is made on a       *)
(* thread that may run, or be woken by its timer, before the call is over  *)
(* ("still").  The lock of the scheduler keeps threads from running.  It   *)
(* also makes a timeout harmless to rt_thread_resume, but not to           *)
(* rt_thread_delete.                                                       *)
(***************************************************************************)
Apart(u) ==
    /\ \A t \in Threads : Handles(t, u) => call[t].op # "start"   \* nobody else knows it yet
    /\ "apart" \in Rules => Unhandled(u)

MayResume(u) ==
    /\ Apart(u)
    /\ "still" \in Rules /\ ClockISR => u \notin Elems(k.timers) \/ k.nest > 0

MayDelete(t, u) ==
    /\ Apart(u)
    /\ "still" \in Rules /\ ClockISR =>
          /\ u \notin Elems(k.timers)
          /\ u = t \/ k.stat[u] \in {"init", "suspend"} \/ k.nest > 0

(* part is the next part of t's call op on u *)
ThenPart(t, part, op, u) == call' = [call EXCEPT ![t] = [pc |-> part, op |-> op, obj |-> u]]

At(t, part) == t = k.cur /\ ~k.isr /\ call[t].pc = part

(* rt_thread_suspend(rt_thread_self()), which the caller follows with      *)
(* rt_schedule (timer.c:822-823)                                           *)
ThreadSuspend(t) ==
    /\ "suspend" \in Ops /\ Running(t) /\ k.nest = 0 /\ k.stat[t] = "running"
    /\ k' = rt_thread_suspend(k, t)
    /\ ThenSchedule(t, "none", "none")
    /\ UNCHANGED owed

(* rt_thread_startup up to the test in its rt_thread_resume *)
Startup(t, u) ==
    /\ Running(t) /\ k.stat[u] = "init" /\ Apart(u)
    /\ k' = [k EXCEPT !.stat[u] = "suspend", !.yield = @ \ {u}]
    /\ ThenPart(t, "resume", "start", u)
    /\ UNCHANGED owed

(* the test of rt_thread_resume *)
ThreadResume(t, u) ==
    /\ "resume" \in Ops /\ Running(t) /\ k.stat[u] = "suspend" /\ MayResume(u)
    /\ ThenPart(t, "resume", "resume", u)
    /\ UNCHANGED <<k, owed>>

(* Mutant: the timer of the resumed thread goes on. *)
UnlinkKeepsTimer(t) ==
    /\ At(t, "resume")
    /\ k' = rt_list_remove(k, call[t].obj)
    /\ ThenPart(t, "insert", call[t].op, call[t].obj)
    /\ UNCHANGED owed

(* It does not look again whether the thread is suspended, and leaves the  *)
(* bitmap alone.                                                           *)
ResumeUnlinks(t) ==
    /\ At(t, "resume")
    /\ k' = LET u == call[t].obj IN rt_timer_stop(rt_list_remove(k, u), u)
    /\ ThenPart(t, "insert", call[t].op, call[t].obj)
    /\ UNCHANGED owed

(* rt_thread_startup goes on to rt_schedule, rt_thread_resume does not. *)
ResumeInserts(t) ==
    /\ At(t, "insert")
    /\ k' = rt_schedule_insert_thread(k, call[t].obj)
    /\ IF call[t].op = "start" THEN ThenSchedule(t, "none", "none") /\ UNCHANGED owed
       ELSE call' = [call EXCEPT ![t] = UserCode] /\ owed' = TRUE

(* rt_thread_delete and rt_thread_detach: the test of the state *)
ThreadDelete(t, u) ==
    /\ "delete" \in Ops /\ Running(t) /\ u # IdleThread
    /\ k.stat[u] \notin {"close", "freed"} /\ MayDelete(t, u)
    /\ ThenPart(t, "remove", "delete", u)
    /\ UNCHANGED <<k, owed>>

DeleteRemoves(t) ==
    /\ At(t, "remove")
    /\ k' = Unschedule(k, call[t].obj)
    /\ ThenPart(t, "close", "delete", call[t].obj)
    /\ UNCHANGED owed

(* They do not call rt_schedule, not even for the running thread. *)
DeleteCloses(t) ==
    /\ At(t, "close")
    /\ k' = MakeDefunct(k, call[t].obj)
    /\ call' = [x \in Threads |-> IF x \in {t, call[t].obj} THEN UserCode ELSE call[x]]
    /\ UNCHANGED owed

(* the entry function returns into _thread_exit *)
ThreadExit(t) ==
    /\ "exit" \in Ops /\ Running(t) /\ k.nest = 0 /\ k.stat[t] = "running"
    /\ k' = CloseThread(k, t)
    /\ ThenSchedule(t, "none", "none")
    /\ UNCHANGED owed

(* rt_thread_create in the memory of a freed thread *)
ThreadCreate(t, u) ==
    /\ "create" \in Ops /\ Running(t) /\ k.stat[u] = "freed"
    /\ k' = [k EXCEPT !.stat[u] = "init", !.prio[u] = InitPrio[u], !.slice[u] = InitTick,
                      !.error[u] = "EOK"]
    /\ call' = [call EXCEPT ![u] = UserCode]
    /\ UNCHANGED owed

ThreadChangePriority(t, u, p) ==
    /\ "prio" \in Ops /\ Running(t) /\ u # IdleThread
    /\ k.stat[u] \notin {"close", "freed"} /\ Apart(u)
    /\ k' = ChangePriority(k, u, p)
    /\ owed' = TRUE
    /\ UNCHANGED call

EnterCritical(t) ==
    /\ "critical" \in Ops /\ Running(t) /\ k.nest < MaxNest
    /\ k' = [k EXCEPT !.nest = @ + 1]
    /\ UNCHANGED <<call, owed>>

(* Mutant: rt_exit_critical without its rt_schedule *)
ExitCriticalSilent(t) ==
    /\ "critical" \in Ops /\ Running(t) /\ k.nest > 0
    /\ k' = [k EXCEPT !.nest = @ - 1]
    /\ UNCHANGED <<call, owed>>

(* rt_exit_critical calls rt_schedule when the last lock is released *)
ExitCritical(t) ==
    /\ "critical" \in Ops /\ Running(t) /\ k.nest > 0
    /\ k' = [k EXCEPT !.nest = @ - 1]
    /\ IF k.nest = 1 THEN ThenSchedule(t, "none", "none") ELSE UNCHANGED call
    /\ UNCHANGED owed

(* the application's own call of rt_schedule *)
CallSchedule(t) ==
    /\ "resume" \in Ops /\ Running(t)
    /\ ThenSchedule(t, "none", "none")
    /\ UNCHANGED <<k, owed>>

ScheduleStep(t) == Schedule(t) /\ owed' = (owed /\ k.nest # 0)

Clock == (TickIncrease \/ TimerCheck) /\ UNCHANGED owed

ThreadCalls(t) ==
    \/ ScheduleStep(t)
    \/ ThreadSleepBack(t) /\ UNCHANGED owed
    \/ ResumeUnlinks(t) \/ ResumeInserts(t) \/ DeleteRemoves(t) \/ DeleteCloses(t)
    \/ "yield" \in Ops /\ ThreadYield(t) /\ UNCHANGED owed
    \/ \E n \in Timeouts : "sleep" \in Ops /\ ThreadSleep(t, n) /\ UNCHANGED owed
    \/ ThreadSuspend(t) \/ ThreadExit(t)
    \/ EnterCritical(t) \/ ExitCritical(t) \/ CallSchedule(t)
    \/ \E u \in Threads : \/ Startup(t, u) \/ ThreadResume(t, u)
                          \/ ThreadDelete(t, u) \/ ThreadCreate(t, u)
    \/ \E u \in Threads, p \in Prios : ThreadChangePriority(t, u, p)

Next == Clock \/ (IdleLoop /\ UNCHANGED owed) \/ \E t \in Threads : ThreadCalls(t)

Spec == Init /\ [][Next]_vars

(* The processor goes on executing whatever thread is current, and the     *)
(* clock, where there is one, goes on ticking.                             *)
FairSpec == Spec /\ WF_vars(\E t \in Threads : ThreadCalls(t)) /\ WF_vars(Clock)
----------------------------------------------------------------------------
(* The kernel keeps its types: the time slice of a thread among them, which *)
(* rt_tick_increase fills up again and never lets run below one tick.      *)
ThreadsTypeOK == KernelTypeOK /\ owed \in BOOLEAN

(* MostUrgentRuns, but for the calls that leave rescheduling to the        *)
(* caller: rt_thread_resume and a change of priority.                      *)
MostUrgentRunsUnlessOwed == owed \/ MostUrgentRuns

(* The assertion of _thread_timeout: "(thread->stat &                      *)
(* RT_THREAD_SUSPEND_MASK) == RT_THREAD_SUSPEND_MASK".                     *)
TimeoutFindsSuspended ==
    (k.isr /\ k.timers # <<>> /\ k.left[Head(k.timers)] = 0) => k.stat[Head(k.timers)] = "suspend"

(* rt_thread_sleep: when the timer runs out the scheduler wakes the        *)
(* thread.                                                                 *)
SleeperWoken ==
    \A t \in Threads : (call[t].op = "sleep" /\ k.stat[t] = "suspend") ~> k.stat[t] # "suspend"

(* rt_schedule_insert_thread: a thread with no time slice left goes to the *)
(* end of the list of its priority, one with some left to the front.       *)
(* Threads of one priority that give the processor up therefore take       *)
(* turns.                                                                  *)
EqualsTakeTurns ==
    \A t \in Threads \ {IdleThread} : k.stat[t] = "ready" ~> k.stat[t] = "running"
=============================================================================
