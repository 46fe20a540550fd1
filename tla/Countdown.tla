----------------------------- MODULE Countdown -----------------------------
(***************************************************************************)
(* What the system timer promises: a started timer goes off after exactly  *)
(* the ticks it was started with, unless it is stopped or started anew; a  *)
(* periodic one starts again after its function, unless that stopped it.   *)
(* RtKernel uses the timers of threads in this form.                       *)
(***************************************************************************)
EXTENDS Integers

CONSTANTS Timers, NoTimer, Times

Off == -1
Again == -2        \* to be started again when its function returns

VARIABLES left,    \* ticks to go
          called   \* the timer whose function runs

vars == <<left, called>>

Init == left = [t \in Timers |-> Off] /\ called = NoTimer

Start(t) == \E n \in Times : left' = [left EXCEPT ![t] = n] /\ UNCHANGED called

Stop(t) == left' = [left EXCEPT ![t] = Off] /\ UNCHANGED called

GoOff(t) ==
    /\ left[t] = 0 /\ called = NoTimer
    /\ \E a \in {Off, Again} : left' = [left EXCEPT ![t] = a]
    /\ called' = t

Return ==
    /\ called # NoTimer /\ called' = NoTimer
    /\ IF left[called] = Again THEN \E n \in Times : left' = [left EXCEPT ![called] = n]
       ELSE UNCHANGED left

(* no tick passes over a timer that is due *)
Tick ==
    /\ \A t \in Timers : left[t] # 0
    /\ left' = [t \in Timers |-> IF left[t] = Off THEN Off ELSE left[t] - 1]
    /\ called = NoTimer /\ UNCHANGED called

Next == Tick \/ Return \/ \E t \in Timers : Start(t) \/ Stop(t) \/ GoOff(t)

Spec == Init /\ [][Next]_vars
=============================================================================
