-------------------------- MODULE PrivateContexts --------------------------
(***************************************************************************)
(* What a context switch promises the threads: each has a register file, a *)
(* stack pointer and a program counter of its own.  The running thread     *)
(* changes its own; a switch changes none of them, except that the thread  *)
(* that gives way is past its yield.                                       *)
(***************************************************************************)
EXTENDS Naturals

CONSTANTS Threads, Nobody,
          Created(_),       \* the possible contexts of a new thread
          PastYield(_)      \* a context past its yield

VARIABLES running, ctx      \* ctx[t]: the context of t, or Nobody

vars == <<running, ctx>>

Init == running = Nobody /\ ctx = [t \in Threads |-> Nobody]

Create(t) ==
    /\ ctx[t] = Nobody
    /\ \E c \in Created(t) : ctx' = [ctx EXCEPT ![t] = c]
    /\ UNCHANGED running

Compute(t) ==
    /\ running = t
    /\ \A u \in Threads \ {t} : ctx'[u] = ctx[u]
    /\ UNCHANGED running

Start(t) == running = Nobody /\ ctx[t] # Nobody /\ running' = t /\ UNCHANGED ctx

Switch(t, u) ==
    /\ running = t /\ ctx[u] # Nobody
    /\ running' = u
    /\ ctx' = [ctx EXCEPT ![t] = PastYield(@)]

Next ==
    \E t \in Threads :
        Create(t) \/ Compute(t) \/ Start(t) \/ \E u \in Threads \ {t} : Switch(t, u)

Spec == Init /\ [][Next]_vars
=============================================================================
