------------------------- MODULE CountingSemaphore -------------------------
(***************************************************************************)
(* What rt_sem_take and rt_sem_release of ipc.c promise, without a         *)
(* scheduler or wait list: every take that returns RT_EOK uses up one      *)
(* token that was there at the start, was released or came with a reset,   *)
(* and a take that fails uses none.                                        *)
(***************************************************************************)
EXTENDS Integers

CONSTANTS Callers, MaxValue, InitValue

VARIABLES tokens,   \* tokens nobody has used yet
          result    \* what the last take of each caller returned

vars == <<tokens, result>>

Init == tokens = InitValue /\ result = [t \in Callers |-> "none"]

TakeOK(t) ==
    /\ tokens > 0
    /\ tokens' = tokens - 1
    /\ result' = [result EXCEPT ![t] = "EOK"]

TakeFails(t) ==
    /\ result' = [result EXCEPT ![t] = "failed"]
    /\ UNCHANGED tokens

Release == tokens' = tokens + 1 /\ UNCHANGED result

(* The value is set anew; tokens already on their way to a caller stay     *)
(* promised to it.                                                         *)
Reset ==
    /\ \E v \in 0..MaxValue, promised \in 0..tokens : tokens' = v + promised
    /\ UNCHANGED result

Next == Release \/ Reset \/ \E t \in Callers : TakeOK(t) \/ TakeFails(t)

Spec == Init /\ [][Next]_vars
=============================================================================
