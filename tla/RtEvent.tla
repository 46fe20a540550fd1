------------------------------ MODULE RtEvent ------------------------------
(***************************************************************************)
(* An event object of ipc.c on the kernel of RtKernel: a set of flags for  *)
(* which threads wait, each for all of the flags it asks for (AND) or for  *)
(* one of them (OR), and take them out of the set (CLEAR) or leave them.   *)
(* One send may satisfy several waiters; it walks the suspend list, and    *)
(* what one waiter clears the next one does not see.                       *)
(***************************************************************************)
EXTENDS RtKernel

CONSTANTS Ev,        \* the event object and its suspend list
          Flags,
          Ops        \* the calls the application makes

EventAssumption == Queues = {Ev}

VARIABLES set,       \* event->set
          info,      \* event_set and event_info of the threads in a receive
          asked,     \* what the receive in progress was called with
          alive

vars == <<k, call, set, info, asked, alive>>

NoInfo == [set |-> {}, option |-> "OR", clear |-> FALSE]

Init ==
    /\ KernelInit
    /\ set = {} /\ alive = TRUE
    /\ info = [t \in Threads |-> NoInfo]
    /\ asked = [t \in Threads |-> {}]

(* flags s are what option o asks for, in a set e *)
Satisfied(o, s, e) == IF o = "AND" THEN s \subseteq e ELSE s \cap e # {}

(***************************************************************************)
(* rt_event_recv.  event_set and event_info are filled here and read by    *)
(* senders and on the way back; what they hold afterwards is not kept.     *)
(***************************************************************************)
EventRecvNow(t, s, o, clear) ==
    /\ Running(t) /\ alive /\ k.nest = 0
    /\ Satisfied(o, s, set)
    /\ k' = [k EXCEPT !.error[t] = "EOK"]
    /\ set' = IF clear THEN set \ s ELSE set
    /\ UNCHANGED <<call, info, asked, alive>>

(* With timeout 0 the call returns -RT_ETIMEOUT: it only sets the error of *)
(* the thread, which its next call sets again.                             *)
EventRecvWait(t, s, o, clear, n) ==
    /\ Running(t) /\ alive /\ k.nest = 0 /\ n # 0
    /\ ~Satisfied(o, s, set)
    /\ info' = [info EXCEPT ![t] = [set |-> s, option |-> o, clear |-> clear]]
    /\ asked' = [asked EXCEPT ![t] = s]
    /\ LET q == ipc_list_suspend([k EXCEPT !.error[t] = "EINTR"], Ev, t)
       IN k' = IF n > 0 THEN rt_timer_start(q, t, n) ELSE q
    /\ ThenSchedule(t, "recv", Ev)
    /\ UNCHANGED <<set, alive>>

(* *recved is the event_set that the sender left, the result thread->error *)
EventRecvBack(t) ==
    /\ Returned(t, "recv")
    /\ call' = [call EXCEPT ![t] = UserCode]
    /\ asked' = [asked EXCEPT ![t] = {}]
    /\ info' = [info EXCEPT ![t] = NoInfo]
    /\ UNCHANGED <<k, set, alive>>

(***************************************************************************)
(* rt_event_send: r is the walk so far                                     *)
(***************************************************************************)

(* Mutant: what a CLEAR waiter got stays in the set for the next one. *)
WakeNoClear(r, t) ==
    LET i == r.info[t]
        received == IF i.option = "AND" THEN i.set ELSE i.set \cap r.set
    IN IF ~Satisfied(i.option, i.set, r.set) THEN r
       ELSE [k |-> [rt_thread_resume(r.k, t) EXCEPT !.error[t] = "EOK"],
             info |-> [r.info EXCEPT ![t].set = received],
             set |-> r.set]

WakeIfSatisfied(r, t) ==
    LET i == r.info[t]
        received == IF i.option = "AND" THEN i.set ELSE i.set \cap r.set
    IN IF ~Satisfied(i.option, i.set, r.set) THEN r
       ELSE [k |-> [rt_thread_resume(r.k, t) EXCEPT !.error[t] = "EOK"],
             info |-> [r.info EXCEPT ![t].set = received],
             set |-> IF i.clear THEN r.set \ received ELSE r.set]

Walk(s) ==
    LET list == k.waitq[Ev]
        upto[i \in 0..Len(list)] ==
            IF i = 0 THEN [k |-> k, info |-> info, set |-> set \cup s]
            ELSE WakeIfSatisfied(upto[i - 1], list[i])
    IN upto[Len(list)]

EventSend(t, s) ==
    /\ Running(t) /\ alive
    /\ LET r == Walk(s)
       IN /\ k' = r.k /\ info' = r.info /\ set' = r.set
          /\ IF r.k = k THEN UNCHANGED call ELSE ThenSchedule(t, "none", "none")
    /\ UNCHANGED <<asked, alive>>

(* RT_IPC_CMD_RESET *)
EventReset(t) ==
    /\ "reset" \in Ops /\ Running(t) /\ alive
    /\ k' = ipc_list_resume_all(k, Ev)
    /\ set' = {}
    /\ ThenSchedule(t, "none", "none")
    /\ UNCHANGED <<info, asked, alive>>

(* rt_event_detach and rt_event_delete do not call rt_schedule *)
EventDelete(t) ==
    /\ "delete" \in Ops /\ Running(t) /\ alive
    /\ k' = ipc_list_resume_all(k, Ev)
    /\ alive' = FALSE
    /\ UNCHANGED <<call, set, info, asked>>

(* another thread wakes a waiter with rt_thread_resume, on a port with a   *)
(* clock one that waits forever (InOneStep)                                *)
WaiterResumed(t, u) ==
    /\ "resume" \in Ops /\ Running(t) /\ k.stat[u] = "suspend" /\ InOneStep(u)
    /\ k' = rt_thread_resume(k, u)
    /\ ThenSchedule(t, "none", "none")
    /\ UNCHANGED <<set, info, asked, alive>>

FlagSets == SUBSET Flags \ {{}}

EventCalls(t) ==
    \/ \E s \in FlagSets, o \in {"AND", "OR"}, clear \in BOOLEAN :
          \/ EventRecvNow(t, s, o, clear)
          \/ \E n \in Timeouts : EventRecvWait(t, s, o, clear, n)
    \/ EventRecvBack(t) \/ EventReset(t) \/ EventDelete(t)
    \/ \E s \in FlagSets : EventSend(t, s)
    \/ \E u \in Threads \ {IdleThread} : WaiterResumed(t, u)

KernelSteps ==
    /\ \/ TickIncrease \/ TimerCheck \/ IdleLoop
       \/ \E t \in Threads : \/ Schedule(t) \/ ThreadYield(t)
                              \/ \E u \in Threads : ThreadStartup(t, u)
    /\ UNCHANGED <<set, info, asked, alive>>

Next == KernelSteps \/ \E t \in Threads : EventCalls(t)

Spec == Init /\ [][Next]_vars
----------------------------------------------------------------------------
(* No wakeup is lost: whoever is on the suspend list asks for something    *)
(* that the set does not hold, after every send, clear and reset.          *)
NoSatisfiedWaiter ==
    \A t \in Elems(k.waitq[Ev]) : ~Satisfied(info[t].option, info[t].set, set)

(* woken by a send, and the receive returns RT_EOK when the thread runs    *)
Delivered == {t \in Threads : call[t].op = "recv" /\ k.stat[t] # "suspend" /\ k.error[t] = "EOK"}

(* What a woken receiver finds in event_set is what it asked for: all of   *)
(* it with AND, some of it and nothing else with OR.  Sends, clears and    *)
(* resets between its wakeup and its return do not change it.              *)
ReceivedIsAsked ==
    \A t \in Delivered :
        IF info[t].option = "AND" THEN info[t].set = asked[t]
        ELSE info[t].set # {} /\ info[t].set \subseteq asked[t]

(* A step that delivers to several CLEAR receivers gives no flag to two of *)
(* them, and exactly the flags they got are out of the set afterwards.     *)
DeliveredOnce ==
    LET new == Delivered' \ Delivered
        clearers == {t \in new : info'[t].clear}
    IN /\ \A t, u \in clearers : t # u => info'[t].set \cap info'[u].set = {}
       /\ \A t \in clearers : info'[t].set \cap set' = {}
       /\ new # {} => set \subseteq set' \cup UNION {info'[t].set : t \in clearers}
=============================================================================
