------------------------------ MODULE RtTimer ------------------------------
(***************************************************************************)
(* The system timer: rt_tick_increase advances the tick and rt_timer_check *)
(* calls the functions of the timers that have run out, with interrupts    *)
(* disabled.  The functions may themselves start, stop and change timers,  *)
(* the one that is being called among them.                                *)
(***************************************************************************)
EXTENDS RtTimerList

VARIABLES tick,      \* rt_tick
          s,         \* the timer list and the timers
          called,    \* the timer whose function runs, or NoTimer
          checking   \* rt_timer_check is not done

vars == <<tick, s, called, checking>>

Init ==
    /\ tick \in 0..RT_TICK_MAX
    /\ s = ListInit /\ called = NoTimer /\ checking = FALSE

(* a call from a thread, or from a timeout function *)
Application ==
    /\ checking => called # NoTimer
    /\ \E t \in Timers : s' \in {rt_timer_start(s, t, tick, called)} \cup Change(s, t, called)
    /\ UNCHANGED <<tick, called, checking>>

rt_tick_increase ==
    /\ ~checking
    /\ tick' = (tick + 1) % TickMod
    /\ checking' = TRUE
    /\ UNCHANGED <<s, called>>

CheckHead ==
    /\ checking /\ called = NoTimer
    /\ IF Expired(s, tick)
       THEN called' = Head(s.list) /\ s' = TakeExpired(s) /\ UNCHANGED checking
       ELSE checking' = FALSE /\ UNCHANGED <<s, called>>
    /\ UNCHANGED tick

TimeoutReturns ==
    /\ called # NoTimer
    /\ s' = AfterTimeout(s, called, tick)
    /\ called' = NoTimer
    /\ UNCHANGED <<tick, checking>>

Next == Application \/ rt_tick_increase \/ CheckHead \/ TimeoutReturns

Spec == Init /\ [][Next]_vars
----------------------------------------------------------------------------
(* A timer is on the list exactly when it is activated, once; the one      *)
(* whose function runs may be on the local list of rt_timer_check instead. *)
(* So a periodic timer goes on until it is stopped, and a stopped one is   *)
(* not started behind the back of whoever stopped it.                      *)
ListIsActive ==
    /\ \A t \in Timers :
          t \in Elems(s.list) <=> (t \in s.active /\ ~(s.onTemp /\ t = called))
    /\ \A i, j \in DOMAIN s.list : s.list[i] = s.list[j] => i = j
    /\ s.onTemp => called # NoTimer

(* Timers go off neither early nor late and are not lost or revived, in    *)
(* whatever order they were started and wherever the tick wraps around.    *)
Left(t) ==
    IF t \in Elems(s.list) THEN Minus(s.timeout_tick[t], tick)
    ELSE IF s.onTemp /\ t = called /\ t \in s.active \cap s.periodic THEN -2
    ELSE -1

Abstract == INSTANCE Countdown WITH Times <- InitTicks, left <- [t \in Timers |-> Left(t)]

(* The timer list of timer.c implements one countdown for each timer. *)
ImplementsCountdown == Abstract!Spec
=============================================================================
