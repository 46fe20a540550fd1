---------------------------- MODULE RtTimerList ----------------------------
(***************************************************************************)
(* A timer list of timer.c with one level (RT_TIMER_SKIP_LIST_LEVEL is 1). *)
(* Ticks are unsigned and wrap around at TickMod, 2^32 in the code; a tick *)
(* counts as later than another if it is less than half of the range       *)
(* ahead.  A list state s has the list and the fields of the timers.       *)
(***************************************************************************)
EXTENDS Integers, Sequences

CONSTANTS Timers, NoTimer,
          TickMod,
          InitTicks,         \* values of init_tick
          OwnMode        \* whether timeout functions change the mode of their timer

RT_TICK_MAX == TickMod - 1

(* rt_timer_init and rt_timer_control assert the bound on time *)
TimerListAssumption ==
    /\ NoTimer \notin Timers
    /\ TickMod \in Nat \ {0}
    /\ InitTicks \subseteq 1..(RT_TICK_MAX \div 2 - 1) /\ InitTicks # {}

Elems(s) == {s[i] : i \in DOMAIN s}

(* s with the node of t unlinked *)
Without(s, t) ==
    LET at == CHOOSE i \in DOMAIN s : s[i] = t
    IN IF t \in Elems(s) THEN SubSeq(s, 1, at - 1) \o SubSeq(s, at + 1, Len(s)) ELSE s

(* s with t put before position i *)
InsertBefore(s, i, t) == SubSeq(s, 1, i - 1) \o <<t>> \o SubSeq(s, i, Len(s))

Minus(x, y) == (x - y) % TickMod

ListInit ==
    [list |-> <<>>,
     active |-> {}, periodic |-> {},             \* the flags of the timers
     timeout_tick |-> [t \in Timers |-> 0],
     init_tick |-> [t \in Timers |-> CHOOSE n \in InitTicks : \A m \in InitTicks : n <= m],
     onTemp |-> FALSE]                            \* the timer called is on the local list

(* of is the timer whose function is being called; timeout_tick is only of *)
(* interest while the timer is on the list.                                *)
timer_remove(s, t, of) ==
    [s EXCEPT !.list = Without(@, t), !.onTemp = @ /\ t # of,
              !.timeout_tick[t] = 0]

(* Mutant: ticks are compared as numbers. *)
LaterAsNumber(x, y) == x > y

(* x is later than y *)
Later(x, y) == Minus(x, y) # 0 /\ Minus(x, y) < RT_TICK_MAX \div 2

(* behind the timers with the same timeout and before the first later one *)
InsertAt(s, timeout) ==
    LET later == {i \in DOMAIN s.list : Later(s.timeout_tick[s.list[i]], timeout)}
    IN IF later = {} THEN Len(s.list) + 1 ELSE CHOOSE i \in later : \A j \in later : i <= j

rt_timer_start(s, t, tick, of) ==
    LET r == timer_remove(s, t, of)
        timeout == (tick + s.init_tick[t]) % TickMod
        at == InsertAt(r, timeout)
    IN [r EXCEPT !.list = InsertBefore(@, at, t),
                 !.timeout_tick[t] = timeout,
                 !.active = @ \cup {t}]

rt_timer_stop(s, t, of) ==
    IF t \notin s.active THEN s ELSE [timer_remove(s, t, of) EXCEPT !.active = @ \ {t}]

rt_timer_detach(s, t, of) == [timer_remove(s, t, of) EXCEPT !.active = @ \ {t}]

(* the first timer of the list has run out *)
Expired(s, tick) ==
    s.list # <<>> /\ Minus(tick, s.timeout_tick[Head(s.list)]) < RT_TICK_MAX \div 2

(* before the timeout function is called *)
TakeExpired(s) ==
    LET t == Head(s.list)
    IN [s EXCEPT !.list = Tail(@), !.timeout_tick[t] = 0, !.onTemp = TRUE,
                 !.active = IF t \in s.periodic THEN @ ELSE @ \ {t}]

(* Mutant: a periodic timer is not started again. *)
AfterForgets(s, t, tick) == [s EXCEPT !.onTemp = FALSE]

(* after it: nothing is left to do if t was detached or started meanwhile *)
AfterTimeout(s, t, tick) ==
    IF ~s.onTemp THEN s
    ELSE LET r == [s EXCEPT !.onTemp = FALSE]
         IN IF t \in s.periodic /\ t \in s.active THEN rt_timer_start(r, t, tick, t) ELSE r

(* what an application may do with a timer at any time, besides starting it *)
Change(s, t, of) ==
    {rt_timer_stop(s, t, of), rt_timer_detach(s, t, of)}
    \cup {[s EXCEPT !.init_tick[t] = n] : n \in InitTicks}
    \cup IF t = of /\ ~OwnMode THEN {}
         ELSE {[s EXCEPT !.periodic = @ \cup {t}], [s EXCEPT !.periodic = @ \ {t}]}
=============================================================================
