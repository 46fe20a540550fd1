----------------------------- MODULE RtMemPool -----------------------------
(***************************************************************************)
(* A memory pool of mempool.c on the kernel of RtKernel: a list of free    *)
(* blocks and a list of threads that wait for one, newest first.  A woken  *)
(* thread looks again, for another may have been faster.                   *)
(***************************************************************************)
EXTENDS RtKernel, FiniteSets

CONSTANTS PoolList,     \* mp->suspend_thread
          Blocks,
          PoolOps           \* the calls the application makes beside alloc and free

PoolAssumption ==
    PoolList \in Queues /\ IsFiniteSet(Blocks) /\ Blocks # {} /\ IsFiniteSet(Threads)

VARIABLES mp,      \* block_list, block_free_count, and whether the pool exists
          wait,    \* time of each thread's call, less the ticks gone by
          held     \* the blocks each thread has got and not freed

poolVars == <<k, call, mp, wait, held>>

(* the blocks in the order of their addresses *)
Chains == {s \in [1..Cardinality(Blocks) -> Blocks] : Elems(s) = Blocks}

PoolInit ==
    /\ KernelInit
    /\ \E s \in Chains : mp = [list |-> s, free |-> Cardinality(Blocks), alive |-> TRUE]
    /\ wait = [t \in Threads |-> 0]
    /\ held = [t \in Threads |-> {}]

(***************************************************************************)
(* rt_mp_alloc                                                             *)
(***************************************************************************)
(* Mutant: a thread takes the block it was woken for without looking again. *)
TakeUnasked(t) ==
    /\ mp.list # <<>> \/ call[t].op = "alloc"
    /\ mp' = [mp EXCEPT !.free = @ - 1, !.list = IF @ = <<>> THEN @ ELSE Tail(@)]
    /\ held' = [held EXCEPT ![t] = @ \cup IF mp.list = <<>> THEN {} ELSE {Head(mp.list)}]
    /\ call' = [call EXCEPT ![t] = UserCode]
    /\ UNCHANGED <<k, wait>>

Take(t) ==
    /\ mp.free # 0
    /\ mp' = [mp EXCEPT !.free = @ - 1, !.list = Tail(@)]
    /\ held' = [held EXCEPT ![t] = @ \cup {Head(mp.list)}]
    /\ call' = [call EXCEPT ![t] = UserCode]
    /\ UNCHANGED <<k, wait>>

(* t goes to the front of the list *)
Wait(t, n) ==
    /\ mp.free = 0 /\ n # 0
    /\ LET s == [rt_thread_suspend([k EXCEPT !.error[t] = "EOK"], t) EXCEPT !.waitq[PoolList] = <<t>> \o @]
       IN k' = IF n > 0 THEN rt_timer_start(s, t, n) ELSE s
    /\ wait' = [wait EXCEPT ![t] = n]
    /\ ThenSchedule(t, "alloc", "mp")
    /\ UNCHANGED <<mp, held>>

Leave(t, e) ==
    /\ k' = [k EXCEPT !.error[t] = e]
    /\ call' = [call EXCEPT ![t] = UserCode]
    /\ UNCHANGED <<mp, wait, held>>

Fails(t, n) == mp.free = 0 /\ n = 0 /\ Leave(t, "ETIMEOUT")

MpAlloc(t, n) ==
    /\ Running(t) /\ mp.alive /\ (n = 0 \/ k.nest = 0)
    /\ Take(t) \/ Wait(t, n) \/ Fails(t, n)

MpAllocBack(t) ==
    /\ Returned(t, "alloc")
    /\ \/ k.error[t] # "EOK" /\ Leave(t, k.error[t])
       \/ k.error[t] = "EOK" /\ (Take(t) \/ Wait(t, wait[t]) \/ Fails(t, wait[t]))

(***************************************************************************)
(* rt_mp_free; rt_mp_detach and rt_mp_delete, which do not schedule.  The  *)
(* memory of a deleted pool is taken to stay as it was.                    *)
(***************************************************************************)
(* Mutant: only the first free block wakes a thread. *)
FreeWakesIfEmpty(t, b) ==
    /\ Running(t) /\ mp.alive /\ b \in held[t]
    /\ mp' = [mp EXCEPT !.free = @ + 1, !.list = <<b>> \o @]
    /\ held' = [held EXCEPT ![t] = @ \ {b}]
    /\ IF k.waitq[PoolList] = <<>> \/ mp.free # 0 THEN UNCHANGED <<k, call>>
       ELSE k' = ipc_list_resume(k, PoolList) /\ ThenSchedule(t, "none", "none")
    /\ UNCHANGED wait

MpFree(t, b) ==
    /\ Running(t) /\ mp.alive /\ b \in held[t]
    /\ mp' = [mp EXCEPT !.free = @ + 1, !.list = <<b>> \o @]
    /\ held' = [held EXCEPT ![t] = @ \ {b}]
    /\ IF k.waitq[PoolList] = <<>> THEN UNCHANGED <<k, call>>
       ELSE k' = ipc_list_resume(k, PoolList) /\ ThenSchedule(t, "none", "none")
    /\ UNCHANGED wait

MpDelete(t) ==
    /\ "delete" \in PoolOps /\ Running(t) /\ mp.alive
    /\ k' = ipc_list_resume_all(k, PoolList)
    /\ mp' = [mp EXCEPT !.alive = FALSE]
    /\ UNCHANGED <<call, wait, held>>

MpCalls(t) ==
    \/ \E n \in Timeouts : MpAlloc(t, n)
    \/ \E b \in Blocks : MpFree(t, b)
    \/ MpAllocBack(t) \/ MpDelete(t)

(* a tick also brings the calls in progress nearer to their end *)
Tick ==
    /\ TickIncrease
    /\ wait' = [t \in Threads |-> IF wait[t] > 0 THEN wait[t] - 1 ELSE wait[t]]
    /\ UNCHANGED <<mp, held>>

(* any thread resumes a waiter, on a port with a clock one that waits      *)
(* forever (InOneStep)                                                     *)
AllocResumed(t, u) ==
    /\ "resume" \in PoolOps /\ Running(t) /\ u \in Elems(k.waitq[PoolList]) /\ InOneStep(u)
    /\ k' = rt_thread_resume(k, u)
    /\ ThenSchedule(t, "none", "none")
    /\ UNCHANGED <<mp, wait, held>>

PoolKernelSteps ==
    /\ \/ TimerCheck \/ IdleLoop
       \/ \E t \in Threads : \/ Schedule(t) \/ ThreadYield(t)
                              \/ \E u \in Threads : ThreadStartup(t, u)
    /\ UNCHANGED <<mp, wait, held>>

PoolNext ==
    \/ Tick \/ PoolKernelSteps
    \/ \E t \in Threads : MpCalls(t) \/ \E u \in Threads : AllocResumed(t, u)

PoolSpec == PoolInit /\ [][PoolNext]_poolVars
----------------------------------------------------------------------------
(* woken by rt_mp_free and about to look again *)
Woken == {t \in Threads : call[t].op = "alloc" /\ k.stat[t] # "suspend" /\ k.error[t] = "EOK"}

(* While threads wait for a block, every free block has a woken thread on  *)
(* its way to it.                                                          *)
NoLostWakeup == k.waitq[PoolList] # <<>> => mp.free <= Cardinality(Woken)

(* Every block is on the free list, once, or held by one thread, and       *)
(* block_free_count is the length of the list.                             *)
BlocksAccounted ==
    /\ mp.free = Len(mp.list) /\ mp.free = Cardinality(Elems(mp.list))
    /\ \A b \in Blocks :
          Cardinality({t \in Threads : b \in held[t]}) = IF b \in Elems(mp.list) THEN 0 ELSE 1
=============================================================================
