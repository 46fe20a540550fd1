---------------------------- MODULE RtSoftTimer ----------------------------
(***************************************************************************)
(* Soft timers: _timer_thread_entry sleeps until the first of them is due, *)
(* and rt_soft_timer_check calls their functions in the timer thread, with *)
(* interrupts enabled.  rt_timer_start wakes the timer thread if it is     *)
(* suspended, because it may have to sleep less than it thought.           *)
(*                                                                         *)
(* The timer thread is cut where others can come between.  Threads less    *)
(* urgent than it run while it is suspended; with Urgent, more urgent      *)
(* threads (or interrupt handlers) call rt_timer_start anywhere between    *)
(* its steps.  A clock interrupt may come anywhere, but at most MaxRun     *)
(* times while the timer thread gets from one suspension to the next.      *)
(***************************************************************************)
EXTENDS RtTimerList

CONSTANTS Urgent, MaxRun

VARIABLES tick, s,
          busy,      \* _soft_timer_status is RT_SOFT_TIMER_BUSY
          pc,        \* where the timer thread is
          called,    \* the timer whose function it is in
          n,         \* its local: next_timeout, then the ticks to sleep
          left,      \* ticks to go of its thread timer, while it sleeps
          ran,       \* ticks since it was last suspended
          late       \* history: a timer was put first since it last looked

vars == <<tick, s, busy, pc, called, n, left, ran, late>>

Init ==
    /\ tick \in 0..RT_TICK_MAX
    /\ s = ListInit /\ busy = FALSE
    /\ pc = "read" /\ called = NoTimer /\ n = 0 /\ left = 0 /\ ran = 0
    /\ late = FALSE

Waiting == pc \in {"suspended", "asleep"}

(* it has looked at the list and not gone to sleep yet *)
Looking == pc \in {"empty", "next", "delay"}

(* Mutant: rt_timer_start leaves the timer thread alone. *)
StartNoResume(t) ==
    /\ s' = rt_timer_start(s, t, tick, called)
    /\ late' = (late \/ (Looking /\ Head(s'.list) = t))
    /\ UNCHANGED <<tick, busy, pc, called, n, left, ran>>

(* of a soft timer, from any thread *)
Start(t) ==
    /\ s' = rt_timer_start(s, t, tick, called)
    /\ IF Waiting /\ ~busy THEN pc' = "check" /\ left' = 0 ELSE UNCHANGED <<pc, left>>
    /\ late' = (late \/ (Looking /\ Head(s'.list) = t))
    /\ UNCHANGED <<tick, busy, called, n, ran>>

Application ==
    /\ Waiting \/ pc = "call" \/ Urgent
    /\ \E t \in Timers :
          \/ Start(t)
          \/ /\ s' \in Change(s, t, called)
             /\ UNCHANGED <<tick, busy, pc, called, n, left, ran, late>>

(* rt_tick_increase; the thread timer wakes a sleeping timer thread *)
Tick ==
    /\ Waiting \/ ran < MaxRun
    /\ s.list # <<>> => ~(Waiting /\ Minus(tick, s.timeout_tick[Head(s.list)]) = RT_TICK_MAX \div 2 - 1)
    /\ tick' = (tick + 1) % TickMod
    /\ ran' = IF Waiting THEN 0 ELSE ran + 1
    /\ left' = IF left > 0 THEN left - 1 ELSE 0
    /\ pc' = IF pc = "asleep" /\ left = 1 THEN "check" ELSE pc
    /\ UNCHANGED <<s, busy, called, n, late>>

(* _timer_list_next_timeout *)
ReadNext ==
    /\ pc = "read"
    /\ IF s.list = <<>> THEN pc' = "empty" /\ UNCHANGED n
       ELSE pc' = "next" /\ n' = s.timeout_tick[Head(s.list)]
    /\ late' = FALSE
    /\ UNCHANGED <<tick, s, busy, called, left, ran>>

SuspendSelf ==
    /\ pc = "empty"
    /\ pc' = "suspended" /\ ran' = 0
    /\ UNCHANGED <<tick, s, busy, called, n, left, late>>

ReadTick ==
    /\ pc = "next"
    /\ IF Minus(n, tick) < RT_TICK_MAX \div 2 THEN pc' = "delay" /\ n' = Minus(n, tick)
       ELSE pc' = "check" /\ UNCHANGED n
    /\ UNCHANGED <<tick, s, busy, called, left, ran, late>>

(* rt_thread_delay, which does nothing for 0 ticks *)
Delay ==
    /\ pc = "delay"
    /\ IF n = 0 THEN pc' = "check" /\ UNCHANGED <<left, ran>>
       ELSE pc' = "asleep" /\ left' = n /\ ran' = 0
    /\ n' = 0
    /\ UNCHANGED <<tick, s, busy, called, late>>

(***************************************************************************)
(* rt_soft_timer_check                                                     *)
(***************************************************************************)
CheckHead ==
    /\ pc = "check"
    /\ IF Expired(s, tick)
       THEN pc' = "call" /\ called' = Head(s.list) /\ s' = TakeExpired(s) /\ busy' = TRUE
       ELSE pc' = "read" /\ UNCHANGED <<called, s, busy>>
    /\ UNCHANGED <<tick, n, left, ran, late>>

(* Mutant: the status stays RT_SOFT_TIMER_BUSY. *)
ReturnStaysBusy ==
    /\ pc = "call"
    /\ pc' = "check" /\ called' = NoTimer
    /\ s' = AfterTimeout(s, called, tick)
    /\ UNCHANGED <<tick, busy, n, left, ran, late>>

TimeoutReturns ==
    /\ pc = "call"
    /\ pc' = "check" /\ called' = NoTimer /\ busy' = FALSE
    /\ s' = AfterTimeout(s, called, tick)
    /\ UNCHANGED <<tick, n, left, ran, late>>

TimerThread == ReadNext \/ SuspendSelf \/ ReadTick \/ Delay \/ CheckHead \/ TimeoutReturns

Next == Application \/ Tick \/ TimerThread

Spec == Init /\ [][Next]_vars

(* The clock goes on, and the timer thread is scheduled when it is ready.  *)
FairSpec == Spec /\ WF_vars(Tick) /\ WF_vars(TimerThread)
----------------------------------------------------------------------------
(* "no software timer exist, suspend self": the timer thread is suspended  *)
(* without a time only while no soft timer is started, unless one was      *)
(* started between its look at the list and the suspension.                *)
SuspendedWithoutTimers == (pc = "suspended" /\ ~late) => s.list = <<>>

Due(t) == t \in Elems(s.list) /\ Minus(tick, s.timeout_tick[t]) < RT_TICK_MAX \div 2

(* ticks until t runs out, less than 0 if it is overdue *)
ToGo(t) ==
    IF Due(t) THEN -Minus(tick, s.timeout_tick[t]) ELSE Minus(s.timeout_tick[t], tick)

(* The timer thread never sleeps longer past the first timer than the      *)
(* ticks that went by while it was looking at the list and the clock,      *)
(* unless a timer was put first meanwhile.                                 *)
WakesForFirst ==
    (pc = "asleep" /\ ~late /\ s.list # <<>>) => left <= ToGo(Head(s.list)) + MaxRun

(* A timer that is due is called, or stopped or put off by someone.        *)
DueIsCalled == \A t \in Timers : Due(t) ~> (called = t \/ ~Due(t))
=============================================================================
