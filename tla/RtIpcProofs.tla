---------------------------- MODULE RtIpcProofs -----------------------------
(***************************************************************************)
(* The semaphores, the memory pools and the mutexes of MCRtIpc, for any    *)
(* number of threads, any priorities, waiting times and calls of the       *)
(* application, with a clock or without.                                   *)
(***************************************************************************)
EXTENDS RtMutex, RtSemaphore, RtMemPool, RtKernelLemmas, FiniteSetTheorems

(***************************************************************************)
(* A semaphore.                                                            *)
(***************************************************************************)
SemCallState == Calls({"none", "take"}, {"none", Sem})

(* Threads wait for the semaphore and for nothing else: the suspended ones *)
(* are those on its list, in the middle of a take, and what thread->error  *)
(* says to them is that they were interrupted until somebody says more.    *)
WaitBooks ==
    /\ Suspended(k) = Elems(k.waitq[Sem])
    /\ \A t \in Suspended(k) : call[t].op = "take" /\ k.error[t] = "EINTR"

(* A thread that suspended itself goes no further than rt_schedule, and in *)
(* its own code it is in the middle of nothing.                            *)
CallBooks ==
    /\ call \in [Threads -> SemCallState]
    /\ \A t \in Threads : call[t].pc = "user" => call[t].op = "none"
    /\ k.stat[k.cur] = "suspend" => call[k.cur].pc = "sched"

ValueBooks ==
    /\ value \in 0..MaxValue /\ alive \in BOOLEAN
    /\ result \in [Threads -> {"none"} \cup Errors]

(* The inductive invariant. *)
SemInv ==
    /\ Sane(k) /\ k.nest = 0
    /\ CallBooks /\ WaitBooks /\ ValueBooks /\ NoWaitWithToken

LEMMA GrantedIs ==
    /\ Granted = {t \in Threads : call[t].op = "take" /\ t \notin Suspended(k) /\ k.error[t] = "EOK"}
    /\ Granted' = {t \in Threads : call'[t].op = "take" /\ t \notin Suspended(k') /\ k'.error[t] = "EOK"}
BY DEF Granted, Suspended

(* The calls in progress stay what they are. *)
SameCalls ==
    /\ \A t \in Threads : call'[t].op = call[t].op
    /\ CallBooks'

(* A step that wakes nobody. *)
LEMMA SemQuietKeeps ==
    ASSUME SemAssumption, SemInv, Quiet(k, k'), SameCalls, UNCHANGED <<value, alive, result>>
    PROVE  SemInv' /\ Granted' = Granted
<1>1. Sane(k') /\ k'.nest = 0 /\ k'.waitq = k.waitq /\ k'.error = k.error /\ Suspended(k') = Suspended(k)
  BY DEF Quiet, SemInv
<1>2. WaitBooks'
  <2>1. Suspended(k) \subseteq Threads
    BY DEF Suspended
  <2> QED
    BY <1>1, <2>1 DEF SemInv, WaitBooks, SameCalls
<1>3. NoWaitWithToken' /\ ValueBooks'
  BY <1>1 DEF SemInv, NoWaitWithToken, ValueBooks
<1>4. Granted' = Granted
  BY <1>1, GrantedIs DEF SameCalls
<1> QED
  BY <1>1, <1>2, <1>3, <1>4 DEF SemInv, SameCalls

(* A step that wakes u with the error e. *)
LEMMA SemWakeKeeps ==
    ASSUME SemAssumption, SemInv, NEW u \in Suspended(k), NEW e \in Errors,
           Sane(k'), k'.nest = k.nest, k'.error = [k.error EXCEPT ![u] = e],
           Suspended(k') = Suspended(k) \ {u}, QueuesLose(k, k', u),
           SameCalls, UNCHANGED <<value, alive, result>>
    PROVE  /\ SemInv' /\ u \notin Granted /\ u \in Threads
           /\ Granted' = IF e = "EOK" THEN Granted \cup {u} ELSE Granted
<1>1. /\ u \in Threads /\ Sem \in Queues /\ Suspended(k) \subseteq Threads
      /\ k.error \in [Threads -> Errors]
  BY DEF Suspended, SemAssumption, SemInv, Sane, KernelState
<1>2. Elems(k'.waitq[Sem]) = Elems(k.waitq[Sem]) \ {u}
  BY <1>1 DEF QueuesLose
<1>3. WaitBooks'
  BY <1>1, <1>2 DEF SemInv, WaitBooks, SameCalls
<1>4. value' = 0
  <2>1. u \in Elems(k.waitq[Sem])
    BY DEF SemInv, WaitBooks
  <2>2. k.waitq[Sem] # <<>>
    BY <2>1 DEF Elems
  <2> QED
    BY <2>2 DEF SemInv, NoWaitWithToken, ValueBooks
<1>5. NoWaitWithToken' /\ ValueBooks'
  BY <1>4 DEF SemInv, NoWaitWithToken, ValueBooks
<1>6. u \notin Granted
  BY GrantedIs
<1>7. Granted' = IF e = "EOK" THEN Granted \cup {u} ELSE Granted
  <2>1. call'[u].op = "take" /\ \A t \in Threads : call'[t].op = call[t].op
    BY <1>1 DEF SameCalls, SemInv, WaitBooks
  <2>2. \A t \in Threads : k'.error[t] = IF t = u THEN e ELSE k.error[t]
    BY <1>1
  <2>3. ASSUME NEW t PROVE t \in Granted' <=> t \in (IF e = "EOK" THEN Granted \cup {u} ELSE Granted)
    <3>1. CASE t = u
      BY <1>1, <2>1, <2>2, <3>1, GrantedIs
    <3>2. CASE t # u
      BY <1>1, <2>1, <2>2, <3>2, GrantedIs
    <3> QED
      BY <3>1, <3>2
  <2> QED
    BY <2>3
<1> QED
  BY <1>1, <1>3, <1>5, <1>6, <1>7 DEF SemInv, SameCalls

(* A thread in its own code that goes on to rt_schedule changes no call.   *)
LEMMA ToScheduleSame ==
    ASSUME SemInv, NEW t \in Threads, Running(t), ThenSchedule(t, "none", "none"),
           Sane(k'), k'.cur = k.cur
    PROVE  SameCalls
<1>1. t = k.cur /\ call[t].op = "none" /\ call \in [Threads -> SemCallState]
  BY DEF Running, SemInv, CallBooks
<1>2. call' = [call EXCEPT ![t] = [pc |-> "sched", op |-> "none", obj |-> "none"]]
  BY DEF ThenSchedule
<1>3. [pc |-> "sched", op |-> "none", obj |-> "none"] \in SemCallState
  BY DEF SemCallState, Calls
<1>4. call' \in [Threads -> SemCallState] /\ call'[t].pc = "sched"
      /\ \A x \in Threads : call'[x].op = call[x].op
  BY <1>1, <1>2, <1>3
<1>5. \A x \in Threads : call'[x].pc = "user" => call'[x].op = "none"
  BY <1>1, <1>2, <1>4 DEF SemInv, CallBooks
<1> QED
  BY <1>1, <1>4, <1>5 DEF SameCalls, CallBooks

LEMMA SameCallsUnchanged ==
    ASSUME SemInv, UNCHANGED call, RunsOn(k, k') \/ (Dispatched(k') /\ k'.nest = k.nest)
    PROVE  SameCalls
BY DEF SemInv, RunsOn, Dispatched, SameCalls, CallBooks

LEMMA KernelStepKeeps ==
    ASSUME KernelAssumption, SemAssumption, SemInv, SemKernelSteps
    PROVE  SemInv' /\ Granted' = Granted
<1>1. Sane(k) /\ UNCHANGED <<value, alive, result>>
  BY DEF SemInv, SemKernelSteps
<1>2. CASE TickIncrease
  <2>1. Quiet(k, k') /\ (RunsOn(k, k') \/ Dispatched(k')) /\ UNCHANGED call
    BY <1>1, <1>2, TickIncreaseStep DEF TickIncrease
  <2>2. SameCalls
    BY <2>1, SameCallsUnchanged DEF Quiet
  <2> QED
    BY <1>1, <2>1, <2>2, SemQuietKeeps
<1>3. CASE TimerCheck
  <2>1. UNCHANGED call
    BY <1>3 DEF TimerCheck
  <2>2. CASE Quiet(k, k') /\ RunsOn(k, k')
    BY <1>1, <2>1, <2>2, SameCallsUnchanged, SemQuietKeeps
  <2>3. CASE Dispatched(k') /\ \E t \in Suspended(k) : TimedOut(k, k', t)
    <3>1. PICK t \in Suspended(k) : TimedOut(k, k', t)
      BY <2>3
    <3>2. /\ Sane(k') /\ k'.nest = k.nest /\ k'.error = [k.error EXCEPT ![t] = "ETIMEOUT"]
          /\ Suspended(k') = Suspended(k) \ {t} /\ QueuesLose(k, k', t)
      BY <3>1 DEF TimedOut
    <3>3. SameCalls
      BY <2>1, <2>3, <3>2, SameCallsUnchanged
    <3>4. "ETIMEOUT" \in Errors
      BY DEF Errors
    <3>5. SemInv' /\ Granted' = IF "ETIMEOUT" = "EOK" THEN Granted \cup {t} ELSE Granted
      BY <1>1, <3>2, <3>3, <3>4, SemWakeKeeps
    <3> QED
      BY <3>5
  <2> QED
    BY <1>1, <1>3, <2>2, <2>3, TimerCheckStep
<1>4. CASE IdleLoop
  <2>1. Quiet(k, k') /\ RunsOn(k, k') /\ UNCHANGED call
    BY <1>1, <1>4, IdleLoopStep DEF IdleLoop
  <2> QED
    BY <1>1, <2>1, SameCallsUnchanged, SemQuietKeeps
<1>5. ASSUME NEW t \in Threads, Schedule(t) PROVE SemInv' /\ Granted' = Granted
  <2>1. Quiet(k, k') /\ Dispatched(k')
    BY <1>1, <1>5, ScheduleStepQuiet
  <2>2. call \in [Threads -> SemCallState] /\ \A x \in Threads : call[x].pc = "user" => call[x].op = "none"
    BY DEF SemInv, CallBooks
  <2> DEFINE c == IF call[t].op = "none" THEN UserCode ELSE [call[t] EXCEPT !.pc = "back"]
  <2>3. c \in SemCallState /\ c.op = call[t].op /\ (c.pc = "user" => c.op = "none")
    BY <2>2 DEF SemCallState, Calls, UserCode
  <2>4. call' = [call EXCEPT ![t] = c]
    BY <1>5 DEF Schedule
  <2> HIDE DEF c
  <2>5. /\ call' \in [Threads -> SemCallState]
        /\ \A x \in Threads : call'[x].op = call[x].op /\ (call'[x].pc = "user" => call'[x].op = "none")
    BY <2>2, <2>3, <2>4
  <2>6. k'.stat[k'.cur] # "suspend"
    BY <2>1 DEF Quiet, Dispatched, SemInv
  <2>7. SameCalls
    BY <2>5, <2>6 DEF SameCalls, CallBooks
  <2> QED
    BY <1>1, <2>1, <2>7, SemQuietKeeps
<1>6. ASSUME NEW t \in Threads, ThreadYield(t) PROVE SemInv' /\ Granted' = Granted
  <2>1. Quiet(k, k') /\ RunsOn(k, k')
    BY <1>1, <1>6, ThreadYieldStep
  <2>2. SameCalls
    BY <1>6, <2>1, ToScheduleSame DEF ThreadYield, Quiet, RunsOn
  <2> QED
    BY <1>1, <2>1, <2>2, SemQuietKeeps
<1>7. ASSUME NEW t \in Threads, NEW u \in Threads, ThreadStartup(t, u) PROVE SemInv' /\ Granted' = Granted
  <2>1. Quiet(k, k') /\ k'.cur = k.cur
    BY <1>1, <1>7, ThreadStartupStep
  <2>2. SameCalls
    BY <1>7, <2>1, ToScheduleSame DEF ThreadStartup, Quiet
  <2> QED
    BY <1>1, <2>1, <2>2, SemQuietKeeps
<1> QED
  BY <1>2, <1>3, <1>4, <1>5, <1>6, <1>7 DEF SemKernelSteps

(***************************************************************************)
(* The calls of the semaphore                                              *)
(***************************************************************************)
LEMMA TakeNowKeeps ==
    ASSUME SemAssumption, SemInv, NEW t \in Threads, SemTakeNow(t)
    PROVE  SemInv' /\ Granted' = Granted
<1>1. UNCHANGED <<k, call>> /\ value > 0 /\ value' = value - 1 /\ value \in 0..MaxValue
      /\ alive' = alive /\ result' = [result EXCEPT ![t] = "EOK"]
  BY DEF SemTakeNow, Return, SemInv, ValueBooks
<1>2. ValueBooks'
  BY <1>1 DEF SemInv, ValueBooks, SemAssumption, Errors
<1>3. NoWaitWithToken'
  BY <1>1 DEF SemInv, NoWaitWithToken
<1> QED
  BY <1>1, <1>2, <1>3 DEF SemInv, CallBooks, WaitBooks, Granted

LEMMA SemTryTakeKeeps ==
    ASSUME SemAssumption, SemInv, NEW t \in Threads, SemTryTakeFails(t)
    PROVE  SemInv' /\ Granted' = Granted
<1>1. UNCHANGED <<k, call, value, alive>> /\ result' = [result EXCEPT ![t] = "ETIMEOUT"]
  BY DEF SemTryTakeFails, Return
<1>2. ValueBooks'
  BY <1>1 DEF SemInv, ValueBooks, Errors
<1> QED
  BY <1>1, <1>2 DEF SemInv, CallBooks, WaitBooks, Granted, NoWaitWithToken

(* A thread that has to wait is on the list, with its timer running or not, *)
(* before it comes to rt_schedule.                                         *)
LEMMA SemTakeWaitKeeps ==
    ASSUME KernelAssumption, SemAssumption, SemInv, NEW t \in Threads, NEW n \in Timeouts,
           SemTakeWait(t, n)
    PROVE  SemInv' /\ Granted' = Granted
<1> DEFINE a == [k EXCEPT !.error[t] = "EINTR"]
           s == ipc_list_suspend(a, Sem, t)
           b == rt_timer_start(s, t, n)
<1>1. /\ t = k.cur /\ t # IdleThread /\ call[t].pc = "user" /\ value = 0 /\ n # 0
      /\ k' = (IF n > 0 THEN b ELSE s)
      /\ call' = [call EXCEPT ![t] = [pc |-> "sched", op |-> "take", obj |-> Sem]]
      /\ UNCHANGED <<value, alive, result>>
  BY DEF SemTakeWait, Running, ThenSchedule
<1>2. /\ Sane(k) /\ k.nest = 0 /\ Sem \in Queues /\ call \in [Threads -> SemCallState]
      /\ call[t].op = "none" /\ k.stat[t] # "suspend"
  BY <1>1 DEF SemInv, CallBooks, SemAssumption
<1>3. /\ Sane(a) /\ a.error = [k.error EXCEPT ![t] = "EINTR"] /\ a.cur = k.cur /\ a.nest = k.nest
      /\ a.stat = k.stat /\ a.waitq = k.waitq
  BY <1>2, SaneError DEF Errors
<1> HIDE DEF a
<1>4. WaitsOn(a, s, Sem, t)
  BY <1>1, <1>2, <1>3, SaneIpcSuspend
<1> HIDE DEF s
<1>5. /\ Sane(s) /\ SameCore(a, s) /\ s.stat = [a.stat EXCEPT ![t] = "suspend"]
      /\ Suspended(s) = Suspended(a) \cup {t}
      /\ Elems(s.waitq[Sem]) = Elems(a.waitq[Sem]) \cup {t}
  BY <1>4 DEF WaitsOn
<1>6. k.stat \in [Threads -> Statuses] /\ k.error \in [Threads -> Errors]
  BY <1>2 DEF Sane, KernelState
<1>7. /\ Sane(k') /\ SameCore(s, k') /\ k'.stat = s.stat /\ k'.waitq = s.waitq
  <2>1. CASE n > 0
    <3>1. n \in Nat /\ s.stat[t] = "suspend"
      BY <1>3, <1>5, <1>6, <2>1 DEF KernelAssumption, Forever
    <3>2. Sane(b) /\ SameCore(s, b) /\ b.stat = s.stat /\ b.waitq = s.waitq
      BY <1>5, <2>1, <3>1, SaneTimerStart
    <3> HIDE DEF b
    <3> QED
      BY <1>1, <2>1, <3>2
  <2>2. CASE ~(n > 0)
    BY <1>1, <1>5, <2>2 DEF SameCore
  <2> QED
    BY <2>1, <2>2
<1>8. /\ Suspended(a) = Suspended(k) /\ Suspended(k') = Suspended(s)
  BY <1>3, <1>7 DEF Suspended
<1>9. /\ Suspended(k') = Suspended(k) \cup {t} /\ k'.nest = 0 /\ k'.cur = t
      /\ Elems(k'.waitq[Sem]) = Elems(k.waitq[Sem]) \cup {t}
      /\ k'.error = [k.error EXCEPT ![t] = "EINTR"]
  BY <1>1, <1>2, <1>3, <1>5, <1>7, <1>8 DEF SameCore
<1>10. [pc |-> "sched", op |-> "take", obj |-> Sem] \in SemCallState
  BY DEF SemCallState, Calls
<1>11. /\ call' \in [Threads -> SemCallState] /\ call'[t].pc = "sched" /\ call'[t].op = "take"
       /\ \A x \in Threads \ {t} : call'[x] = call[x]
  BY <1>1, <1>2, <1>10
<1>12. CallBooks'
  <2>1. \A x \in Threads : call'[x].pc = "user" => call'[x].op = "none"
    BY <1>11 DEF SemInv, CallBooks
  <2> QED
    BY <1>9, <1>11, <2>1 DEF CallBooks
<1>13. WaitBooks'
  BY <1>6, <1>9, <1>11 DEF SemInv, WaitBooks, Suspended
<1>14. NoWaitWithToken' /\ ValueBooks'
  BY <1>1 DEF SemInv, NoWaitWithToken, ValueBooks
<1>15. Granted' = Granted
  <2>1. ASSUME NEW x PROVE x \in Granted' <=> x \in Granted
    <3>1. CASE x = t
      BY <1>2, <1>9, <3>1, GrantedIs
    <3>2. CASE x # t
      BY <1>6, <1>9, <1>11, <3>2, GrantedIs
    <3> QED
      BY <3>1, <3>2
  <2> QED
    BY <2>1
<1> QED
  BY <1>7, <1>9, <1>12, <1>13, <1>14, <1>15 DEF SemInv

(* What a woken thread returns is what thread->error says. *)
LEMMA SemTakeBackKeeps ==
    ASSUME SemAssumption, SemInv, NEW t \in Threads, SemTakeBack(t)
    PROVE  /\ SemInv' /\ Granted' = Granted \ {t}
           /\ t \in Granted <=> k.error[t] = "EOK"
           /\ k.error[t] \in Errors
<1>1. /\ t = k.cur /\ call[t].pc = "back" /\ call[t].op = "take"
      /\ call' = [call EXCEPT ![t] = UserCode] /\ UNCHANGED <<k, value, alive>>
      /\ result' = [result EXCEPT ![t] = k.error[t]]
  BY DEF SemTakeBack, Returned, Return
<1>2. k.error[t] \in Errors
  BY DEF SemInv, Sane, KernelState
<1>3. k.stat[t] # "suspend" /\ t \notin Suspended(k) /\ call \in [Threads -> SemCallState]
  BY <1>1 DEF SemInv, CallBooks, Suspended
<1>4. UserCode \in SemCallState /\ UserCode.op = "none"
  BY DEF UserCode, SemCallState, Calls
<1>5. /\ call' \in [Threads -> SemCallState] /\ call'[t].op = "none"
      /\ \A x \in Threads \ {t} : call'[x] = call[x]
  BY <1>1, <1>3, <1>4
<1>6. CallBooks'
  BY <1>1, <1>3, <1>5 DEF SemInv, CallBooks
<1>7. WaitBooks'
  BY <1>1, <1>3, <1>5 DEF SemInv, WaitBooks, Suspended
<1>8. ValueBooks' /\ NoWaitWithToken'
  BY <1>1, <1>2 DEF SemInv, ValueBooks, NoWaitWithToken
<1>9. Granted' = Granted \ {t}
  <2>1. ASSUME NEW x PROVE x \in Granted' <=> x \in Granted \ {t}
    <3>1. CASE x = t
      BY <1>5, <3>1, GrantedIs
    <3>2. CASE x # t
      BY <1>1, <1>5, <3>2, GrantedIs
    <3> QED
      BY <3>1, <3>2
  <2> QED
    BY <2>1
<1>10. t \in Granted <=> k.error[t] = "EOK"
  BY <1>1, <1>3, GrantedIs
<1> QED
  BY <1>1, <1>2, <1>6, <1>7, <1>8, <1>9, <1>10 DEF SemInv

(* A release raises the value or hands its token to one thread. *)
LEMMA SemReleaseKeeps ==
    ASSUME KernelAssumption, SemAssumption, SemInv, NEW t \in Threads, SemRelease(t)
    PROVE  /\ SemInv' /\ UNCHANGED result
           /\ \/ Granted' = Granted /\ value' = value + 1
              \/ value' = value /\ \E u \in Threads \ Granted : Granted' = Granted \cup {u}
<1>1. Sane(k) /\ k.nest = 0 /\ Sem \in Queues /\ Running(t) /\ UNCHANGED <<alive, result>>
  BY DEF SemInv, SemAssumption, SemRelease
<1>2. CASE k.waitq[Sem] # <<>> /\ k' = ipc_list_resume(k, Sem) /\ ThenSchedule(t, "none", "none")
           /\ UNCHANGED value
  <2> DEFINE u == Head(k.waitq[Sem])
  <2>1. u \in Threads /\ k.stat[u] = "suspend" /\ WokenWith(k, k', u, "EOK")
    BY <1>1, <1>2, SaneIpcResume
  <2> HIDE DEF u
  <2>2. u \in Suspended(k) /\ "EOK" \in Errors
    BY <2>1 DEF Suspended, Errors
  <2>3. /\ Sane(k') /\ k'.error = [k.error EXCEPT ![u] = "EOK"] /\ k'.cur = k.cur /\ k'.nest = k.nest
        /\ Suspended(k') = Suspended(k) \ {u} /\ QueuesLose(k, k', u)
    BY <2>1 DEF WokenWith
  <2>4. SameCalls
    BY <1>1, <1>2, <2>3, ToScheduleSame
  <2>5. /\ SemInv' /\ u \notin Granted
        /\ Granted' = IF "EOK" = "EOK" THEN Granted \cup {u} ELSE Granted
    BY <1>1, <1>2, <2>2, <2>3, <2>4, SemWakeKeeps
  <2> QED
    BY <1>1, <1>2, <2>1, <2>5
<1>3. CASE k.waitq[Sem] = <<>> /\ value < MaxValue /\ value' = value + 1 /\ UNCHANGED <<k, call>>
  <2>1. ValueBooks' /\ NoWaitWithToken'
    BY <1>1, <1>3 DEF SemInv, ValueBooks, NoWaitWithToken, SemAssumption
  <2> QED
    BY <1>1, <1>3, <2>1 DEF SemInv, CallBooks, WaitBooks, Granted
<1> QED
  BY <1>2, <1>3 DEF SemRelease

(* Everybody on the list is woken, and nobody is given a token. *)
LEMMA AllWoken ==
    ASSUME KernelAssumption, SemAssumption, SemInv, k' = ipc_list_resume_all(k, Sem),
           (Sane(k') /\ k'.cur = k.cur) => SameCalls,
           ValueBooks'
    PROVE  SemInv' /\ Granted' = Granted
<1> DEFINE s == k.waitq[Sem]
<1>1. Sane(k) /\ Sem \in Queues /\ Suspended(k) = Elems(s) /\ Suspended(k) \subseteq Threads
  BY DEF SemInv, SemAssumption, WaitBooks, Suspended
<1>2. WokenUpTo(k, k', s, Len(s))
  BY <1>1, SaneResumeAll
<1>3. {s[j] : j \in 1..Len(s)} = Elems(s)
  <2>1. s \in Lists1(Threads)
    BY <1>1 DEF Sane, KernelState
  <2>2. DOMAIN s = 1..Len(s)
    BY <2>1, ListElems
  <2> QED
    BY <2>2 DEF Elems
<1> HIDE DEF s
<1>4. /\ Sane(k') /\ k'.cur = k.cur /\ k'.nest = k.nest
      /\ Suspended(k') = {} /\ Elems(k'.waitq[Sem]) = {}
      /\ \A u \in Threads : k'.error[u] = IF u \in Elems(s) THEN "ERROR" ELSE k.error[u]
  BY <1>1, <1>2, <1>3 DEF WokenUpTo, s
<1>5. SameCalls
  BY <1>4
<1>6. WaitBooks'
  BY <1>4 DEF WaitBooks
<1>7. NoWaitWithToken'
  <2>1. k'.waitq[Sem] \in Lists1(Threads)
    BY <1>1, <1>4 DEF Sane, KernelState
  <2>2. k'.waitq[Sem] = <<>>
    BY <1>4, <2>1, ListElems
  <2> QED
    BY <2>2 DEF NoWaitWithToken
<1>8. Granted' = Granted
  <2>1. ASSUME NEW x PROVE x \in Granted' <=> x \in Granted
    BY <1>1, <1>4, <1>5, GrantedIs DEF SameCalls
  <2> QED
    BY <2>1
<1> QED
  BY <1>4, <1>5, <1>6, <1>7, <1>8 DEF SemInv, SameCalls

LEMMA ResetKeeps ==
    ASSUME KernelAssumption, SemAssumption, SemInv, NEW t \in Threads, NEW v \in 0..MaxValue,
           SemReset(t, v)
    PROVE  SemInv' /\ Granted' = Granted
<1>1. /\ Running(t) /\ k' = ipc_list_resume_all(k, Sem) /\ value' = v
      /\ ThenSchedule(t, "none", "none") /\ UNCHANGED <<alive, result>>
  BY DEF SemReset
<1>2. ValueBooks'
  BY <1>1 DEF SemInv, ValueBooks
<1>3. ASSUME Sane(k') /\ k'.cur = k.cur PROVE SameCalls
  BY <1>1, <1>3, ToScheduleSame
<1> QED
  BY <1>1, <1>2, <1>3, AllWoken

LEMMA SemDeleteKeeps ==
    ASSUME KernelAssumption, SemAssumption, SemInv, NEW t \in Threads, SemDelete(t)
    PROVE  SemInv' /\ Granted' = Granted
<1>1. /\ Running(t) /\ k' = ipc_list_resume_all(k, Sem) /\ alive' = FALSE
      /\ UNCHANGED <<call, value, result>>
  BY DEF SemDelete
<1>2. ValueBooks'
  BY <1>1 DEF SemInv, ValueBooks
<1>3. SameCalls
  <2>1. Sane(k) /\ Sem \in Queues
    BY DEF SemInv, SemAssumption
  <2>2. WokenUpTo(k, k', k.waitq[Sem], Len(k.waitq[Sem]))
    BY <1>1, <2>1, SaneResumeAll
  <2>3. k'.cur = k.cur /\ (k'.stat[k'.cur] = "running" \/ k'.stat[k'.cur] = k.stat[k.cur])
    BY <2>2 DEF WokenUpTo
  <2> QED
    BY <1>1, <2>3 DEF SemInv, SameCalls, CallBooks
<1> QED
  BY <1>1, <1>2, <1>3, AllWoken

LEMMA SemResumedKeeps ==
    ASSUME KernelAssumption, SemAssumption, SemInv, NEW t \in Threads, NEW u \in Threads,
           TakerResumed(t, u)
    PROVE  SemInv' /\ Granted' = Granted
<1>1. /\ Running(t) /\ k.stat[u] = "suspend" /\ k' = rt_thread_resume(k, u)
      /\ ThenSchedule(t, "none", "none") /\ UNCHANGED <<value, alive, result>> /\ Sane(k)
  BY DEF TakerResumed, SemInv
<1>2. Sane(k') /\ SameCore(k, k') /\ Suspended(k') = Suspended(k) \ {u} /\ QueuesLose(k, k', u)
  BY <1>1, SaneResume
<1>3. u \in Suspended(k) /\ k.error[u] = "EINTR" /\ k.error \in [Threads -> Errors]
  BY <1>1 DEF SemInv, WaitBooks, Suspended, Sane, KernelState
<1>4. k'.error = [k.error EXCEPT ![u] = "EINTR"] /\ k'.nest = k.nest /\ k'.cur = k.cur
  BY <1>2, <1>3 DEF SameCore
<1>5. SameCalls
  BY <1>1, <1>2, <1>4, ToScheduleSame
<1>6. "EINTR" \in Errors
  BY DEF Errors
<1>7. SemInv' /\ Granted' = IF "EINTR" = "EOK" THEN Granted \cup {u} ELSE Granted
  BY <1>1, <1>2, <1>3, <1>4, <1>5, <1>6, SemWakeKeeps
<1> QED
  BY <1>7

LEMMA ChangePrioKeeps ==
    ASSUME KernelAssumption, SemAssumption, SemInv, NEW t \in Threads, NEW u \in Threads,
           NEW p \in Prios, ChangePrio(t, u, p)
    PROVE  SemInv' /\ Granted' = Granted
<1>1. /\ Running(t) /\ k' = ChangePriority(k, u, p) /\ ThenSchedule(t, "none", "none")
      /\ UNCHANGED <<value, alive, result>> /\ Sane(k)
  BY DEF ChangePrio, SemInv
<1>2. Sane(k') /\ k'.stat = k.stat /\ k'.waitq = k.waitq /\ k'.error = k.error
      /\ k'.cur = k.cur /\ k'.nest = k.nest
  BY <1>1, SaneChangePriority
<1>3. Quiet(k, k')
  BY <1>2 DEF Quiet, Suspended
<1>4. SameCalls
  BY <1>1, <1>2, ToScheduleSame
<1> QED
  BY <1>1, <1>3, <1>4, SemQuietKeeps

LEMMA SemInvInit ==
    ASSUME KernelAssumption, SemAssumption, SemInit
    PROVE  SemInv /\ Granted = {}
<1>1. Sane(k) /\ k.nest = 0 /\ Suspended(k) = {} /\ k.stat[k.cur] = "running"
  BY SaneInit DEF SemInit
<1>2. /\ call = [t \in Threads |-> UserCode] /\ k.waitq[Sem] = <<>>
      /\ value = InitValue /\ alive = TRUE /\ result = [t \in Threads |-> "none"]
  BY DEF SemInit, KernelInit, SemAssumption
<1>3. CallBooks
  BY <1>1, <1>2 DEF CallBooks, UserCode, SemCallState, Calls
<1>4. WaitBooks
  BY <1>1, <1>2 DEF WaitBooks, Elems
<1>5. ValueBooks /\ NoWaitWithToken
  BY <1>2 DEF ValueBooks, NoWaitWithToken, SemAssumption
<1>6. Granted = {}
  BY <1>2 DEF Granted, UserCode
<1> QED
  BY <1>1, <1>3, <1>4, <1>5, <1>6 DEF SemInv

(* The kinds of steps there are, seen from the semaphore: tokens are the   *)
(* value and the granted ones.                                             *)
TokenStep ==
    \/ UNCHANGED <<value, result>> /\ Granted' = Granted
    \/ value' = value + 1 /\ Granted' = Granted /\ UNCHANGED result
    \/ /\ UNCHANGED <<value, result>>
       /\ \E u \in Threads \ Granted : Granted' = Granted \cup {u}
    \/ value' \in 0..MaxValue /\ Granted' = Granted /\ UNCHANGED result
    \/ \E t \in Threads :
          \/ value > 0 /\ value' = value - 1 /\ Granted' = Granted
             /\ result' = [result EXCEPT ![t] = "EOK"]
          \/ t \in Granted /\ UNCHANGED value /\ Granted' = Granted \ {t}
             /\ result' = [result EXCEPT ![t] = "EOK"]
          \/ UNCHANGED value /\ Granted' = Granted
             /\ \E e \in Errors \ {"EOK"} : result' = [result EXCEPT ![t] = e]

LEMMA SemStep ==
    ASSUME KernelAssumption, SemAssumption, SemInv, [SemNext]_semVars
    PROVE  SemInv' /\ TokenStep
<1>1. CASE SemKernelSteps
  BY <1>1, KernelStepKeeps DEF SemKernelSteps, TokenStep
<1>2. ASSUME NEW t \in Threads, SemTakeNow(t) PROVE SemInv' /\ TokenStep
  BY <1>2, TakeNowKeeps DEF SemTakeNow, Return, TokenStep
<1>3. ASSUME NEW t \in Threads, SemTryTakeFails(t) PROVE SemInv' /\ TokenStep
  <2>1. "ETIMEOUT" \in Errors \ {"EOK"}
    BY DEF Errors
  <2> QED
    BY <1>3, <2>1, SemTryTakeKeeps DEF SemTryTakeFails, Return, TokenStep
<1>4. ASSUME NEW t \in Threads, SemTakeBack(t) PROVE SemInv' /\ TokenStep
  <2>1. /\ SemInv' /\ Granted' = Granted \ {t} /\ (t \in Granted <=> k.error[t] = "EOK")
        /\ k.error[t] \in Errors
    BY <1>4, SemTakeBackKeeps
  <2>2. UNCHANGED value /\ result' = [result EXCEPT ![t] = k.error[t]]
    BY <1>4 DEF SemTakeBack, Return
  <2>3. CASE t \in Granted
    BY <2>1, <2>2, <2>3 DEF TokenStep
  <2>4. CASE t \notin Granted
    <3>1. Granted' = Granted /\ k.error[t] \in Errors \ {"EOK"}
      BY <2>1, <2>4
    <3> QED
      BY <2>1, <2>2, <3>1 DEF TokenStep
  <2> QED
    BY <2>3, <2>4
<1>5. ASSUME NEW t \in Threads, SemRelease(t) PROVE SemInv' /\ TokenStep
  BY <1>5, SemReleaseKeeps DEF TokenStep
<1>6. ASSUME NEW t \in Threads, SemDelete(t) PROVE SemInv' /\ TokenStep
  BY <1>6, SemDeleteKeeps DEF SemDelete, TokenStep
<1>7. ASSUME NEW t \in Threads, NEW n \in Timeouts, SemTakeWait(t, n) PROVE SemInv' /\ TokenStep
  BY <1>7, SemTakeWaitKeeps DEF SemTakeWait, TokenStep
<1>8. ASSUME NEW t \in Threads, NEW v \in 0..MaxValue, SemReset(t, v) PROVE SemInv' /\ TokenStep
  BY <1>8, ResetKeeps DEF SemReset, TokenStep
<1>9. ASSUME NEW t \in Threads, NEW u \in Threads, TakerResumed(t, u) PROVE SemInv' /\ TokenStep
  BY <1>9, SemResumedKeeps DEF TakerResumed, TokenStep
<1>10. ASSUME NEW t \in Threads, NEW u \in Threads, NEW p \in Prios, ChangePrio(t, u, p)
       PROVE  SemInv' /\ TokenStep
  BY <1>10, ChangePrioKeeps DEF ChangePrio, TokenStep
<1>11. CASE UNCHANGED semVars
  BY <1>11 DEF semVars, SemInv, CallBooks, WaitBooks, ValueBooks, NoWaitWithToken, TokenStep, Granted
<1>12. CASE \E t \in Threads : SemCalls(t)
  BY <1>2, <1>3, <1>4, <1>5, <1>6, <1>7, <1>8, <1>9, <1>10, <1>12 DEF SemCalls
<1> QED
  BY <1>1, <1>11, <1>12 DEF SemNext

LEMMA SemInvAlways ==
    ASSUME KernelAssumption, SemAssumption
    PROVE  SemSpec => []SemInv
<1>1. SemInit => SemInv
  BY SemInvInit
<1>2. SemInv /\ [SemNext]_semVars => SemInv'
  BY SemStep
<1> QED
  BY <1>1, <1>2, PTL DEF SemSpec

(* No wakeup is lost: a thread never waits for a semaphore that has a      *)
(* token, whatever releases, resets, timeouts, and resumes under the       *)
(* conditions of InOneStep, come.                                          *)
THEOREM SemNoWaitWithToken ==
    ASSUME KernelAssumption, SemAssumption
    PROVE  SemSpec => []NoWaitWithToken
<1>1. SemInv => NoWaitWithToken
  BY DEF SemInv
<1> QED
  BY <1>1, SemInvAlways, PTL

(* A thread in the middle of a take is on the suspend list exactly as long *)
(* as it is suspended: no later release can give its token to a thread     *)
(* that timed out, was woken by a reset, or was resumed under the          *)
(* conditions of InOneStep.                                                *)
THEOREM SemWaitersOnList ==
    ASSUME KernelAssumption, SemAssumption
    PROVE  SemSpec => []WaitersOnList
<1>1. SemInv => WaitersOnList
  BY DEF SemInv, WaitBooks, WaitersOnList, Suspended
<1> QED
  BY <1>1, SemInvAlways, PTL

(* The types, and with them the limits of sem->value: it never passes      *)
(* RT_SEM_VALUE_MAX and never falls below zero.                            *)
THEOREM SemTypes ==
    ASSUME KernelAssumption, SemAssumption
    PROVE  SemSpec => []TypeOK
<1>1. SemInv => TypeOK
  <2> SUFFICES ASSUME SemInv PROVE TypeOK
    OBVIOUS
  <2>1. KernelTypeOK
    BY KernelTypes DEF SemInv, CallBooks, SemCallState
  <2> QED
    BY <2>1 DEF SemInv, ValueBooks, TypeOK, Errors
<1> QED
  BY <1>1, SemInvAlways, PTL

(* With waiters, timeouts, resets, and resumes under the conditions of     *)
(* InOneStep, too, the ready table is exact and a running timer belongs to *)
(* a suspended thread.                                                     *)
THEOREM SemReadyTable ==
    ASSUME KernelAssumption, SemAssumption
    PROVE  SemSpec => [](ReadyTableExact /\ TimerOfSuspended)
<1>1. SemInv => ReadyTableExact /\ TimerOfSuspended
  BY SaneWhole DEF SemInv, CallBooks, SemCallState
<1> QED
  BY <1>1, SemInvAlways, PTL

(***************************************************************************)
(* The refinement                                                          *)
(***************************************************************************)
tokens == value + Cardinality(Granted)
outcome == [t \in Threads |-> IF result[t] \in {"none", "EOK"} THEN result[t] ELSE "failed"]

LEMMA GrantedFinite ==
    ASSUME SemAssumption, SemInv, SemInv'
    PROVE  /\ IsFiniteSet(Granted) /\ Cardinality(Granted) \in Nat
           /\ IsFiniteSet(Granted') /\ Cardinality(Granted') \in Nat
           /\ value \in Nat /\ value' \in Nat /\ MaxValue \in Nat
<1>1. Granted \subseteq Threads /\ Granted' \subseteq Threads
  BY DEF Granted
<1>2. IsFiniteSet(Granted) /\ IsFiniteSet(Granted')
  BY <1>1, FS_Subset DEF SemAssumption
<1>3. Cardinality(Granted) \in Nat /\ Cardinality(Granted') \in Nat
  BY <1>2, FS_CardinalityType
<1> QED
  BY <1>2, <1>3 DEF SemInv, ValueBooks, SemAssumption

LEMMA OutcomeOf ==
    ASSUME SemInv, NEW t \in Threads, NEW e, result' = [result EXCEPT ![t] = e]
    PROVE  outcome' = [outcome EXCEPT ![t] = IF e \in {"none", "EOK"} THEN e ELSE "failed"]
BY DEF SemInv, ValueBooks, outcome

LEMMA TokenStepCounts ==
    ASSUME SemAssumption, SemInv, SemInv', TokenStep
    PROVE  \/ UNCHANGED <<tokens, outcome>>
           \/ tokens' = tokens + 1 /\ UNCHANGED outcome
           \/ /\ \E v \in 0..MaxValue, promised \in 0..tokens : tokens' = v + promised
              /\ UNCHANGED outcome
           \/ \E t \in Threads :
                 \/ /\ tokens > 0 /\ tokens' = tokens - 1
                    /\ outcome' = [outcome EXCEPT ![t] = "EOK"]
                 \/ UNCHANGED tokens /\ outcome' = [outcome EXCEPT ![t] = "failed"]
<1> DEFINE c == Cardinality(Granted)
           cc == Cardinality(Granted')
<1>1. /\ IsFiniteSet(Granted) /\ c \in Nat /\ cc \in Nat
      /\ value \in Nat /\ value' \in Nat /\ MaxValue \in Nat
  BY GrantedFinite
<1>2. tokens = value + c /\ tokens' = value' + cc
  BY DEF tokens
<1>3. Granted' = Granted => cc = c
  OBVIOUS
<1>4. ASSUME NEW u \in Threads \ Granted, Granted' = Granted \cup {u} PROVE cc = c + 1
  BY <1>1, <1>4, FS_AddElement
<1>5. ASSUME NEW t \in Granted, Granted' = Granted \ {t} PROVE cc = c - 1 /\ c > 0
  <2>1. cc = c - 1
    BY <1>1, <1>5, FS_RemoveElement
  <2> HIDE DEF c, cc
  <2> QED
    BY <1>1, <2>1
<1> HIDE DEF c, cc
<1>6. UNCHANGED result => UNCHANGED outcome
  BY DEF outcome
<1>7. CASE UNCHANGED <<value, result>> /\ Granted' = Granted
  BY <1>2, <1>3, <1>6, <1>7
<1>8. CASE value' = value + 1 /\ Granted' = Granted /\ UNCHANGED result
  BY <1>1, <1>2, <1>3, <1>6, <1>8
<1>9. CASE UNCHANGED <<value, result>> /\ \E u \in Threads \ Granted : Granted' = Granted \cup {u}
  BY <1>1, <1>2, <1>4, <1>6, <1>9
<1>10. CASE value' \in 0..MaxValue /\ Granted' = Granted /\ UNCHANGED result
  <2>1. c \in 0..tokens /\ tokens' = value' + c
    BY <1>1, <1>2, <1>3, <1>10
  <2> QED
    BY <1>6, <1>10, <2>1
<1>11. ASSUME NEW t \in Threads, value > 0, value' = value - 1, Granted' = Granted,
              result' = [result EXCEPT ![t] = "EOK"]
       PROVE  tokens > 0 /\ tokens' = tokens - 1 /\ outcome' = [outcome EXCEPT ![t] = "EOK"]
  <2>1. outcome' = [outcome EXCEPT ![t] = IF "EOK" \in {"none", "EOK"} THEN "EOK" ELSE "failed"]
    BY <1>11, OutcomeOf
  <2> QED
    BY <1>1, <1>2, <1>3, <1>11, <2>1
<1>12. ASSUME NEW t \in Threads, t \in Granted, UNCHANGED value, Granted' = Granted \ {t},
              result' = [result EXCEPT ![t] = "EOK"]
       PROVE  tokens > 0 /\ tokens' = tokens - 1 /\ outcome' = [outcome EXCEPT ![t] = "EOK"]
  <2>1. outcome' = [outcome EXCEPT ![t] = IF "EOK" \in {"none", "EOK"} THEN "EOK" ELSE "failed"]
    BY <1>12, OutcomeOf
  <2>2. cc = c - 1 /\ c > 0
    BY <1>5, <1>12
  <2> QED
    BY <1>1, <1>2, <1>12, <2>1, <2>2
<1>13. ASSUME NEW t \in Threads, UNCHANGED value, Granted' = Granted,
              NEW e \in Errors \ {"EOK"}, result' = [result EXCEPT ![t] = e]
       PROVE  UNCHANGED tokens /\ outcome' = [outcome EXCEPT ![t] = "failed"]
  <2>1. e \notin {"none", "EOK"}
    BY DEF Errors
  <2>2. outcome' = [outcome EXCEPT ![t] = IF e \in {"none", "EOK"} THEN e ELSE "failed"]
    BY <1>13, OutcomeOf
  <2> QED
    BY <1>2, <1>3, <1>13, <2>1, <2>2
<1> QED
  BY <1>7, <1>8, <1>9, <1>10, <1>11, <1>12, <1>13 DEF TokenStep

LEMMA CountingInit ==
    ASSUME KernelAssumption, SemAssumption, SemInit
    PROVE  Abstract!Init
<1>1. Granted = {} /\ value = InitValue /\ result = [t \in Threads |-> "none"] /\ InitValue \in Nat
  BY SemInvInit DEF SemInit, SemAssumption
<1>2. Cardinality(Granted) = 0
  BY <1>1, FS_EmptySet
<1> QED
  BY <1>1, <1>2 DEF Abstract!Init

LEMMA CountingStep ==
    ASSUME KernelAssumption, SemAssumption, SemInv, [SemNext]_semVars
    PROVE  [Abstract!Next]_(Abstract!vars)
<1>1. SemInv' /\ TokenStep
  BY SemStep
<1>2. \/ UNCHANGED <<tokens, outcome>>
      \/ tokens' = tokens + 1 /\ UNCHANGED outcome
      \/ /\ \E v \in 0..MaxValue, promised \in 0..tokens : tokens' = v + promised
         /\ UNCHANGED outcome
      \/ \E t \in Threads :
            \/ /\ tokens > 0 /\ tokens' = tokens - 1
               /\ outcome' = [outcome EXCEPT ![t] = "EOK"]
            \/ UNCHANGED tokens /\ outcome' = [outcome EXCEPT ![t] = "failed"]
  BY <1>1, TokenStepCounts
<1> QED
  BY <1>2 DEF tokens, outcome, Abstract!Next, Abstract!vars, Abstract!Release, Abstract!Reset,
              Abstract!TakeOK, Abstract!TakeFails

(* A semaphore of ipc.c implements a counting semaphore: every take that   *)
(* returns RT_EOK uses up one token that was there at the start, was       *)
(* released or came with a reset, and no token is lost or used twice,      *)
(* whatever timeouts, resets, deletion, and resumes under the conditions   *)
(* of InOneStep, come between a release and the moment the woken thread    *)
(* runs again.                                                             *)
THEOREM SemImplementsCounting ==
    ASSUME KernelAssumption, SemAssumption
    PROVE  SemSpec => ImplementsCounting
<1>1. SemInit => Abstract!Init
  BY CountingInit
<1>2. SemInv /\ [SemNext]_semVars => [Abstract!Next]_(Abstract!vars)
  BY CountingStep
<1> QED
  BY <1>1, <1>2, SemInvAlways, PTL DEF SemSpec, ImplementsCounting, Abstract!Spec

-----------------------------------------------------------------------------
(***************************************************************************)
(* A memory pool with any number of blocks.                                *)
(***************************************************************************)
PoolCallsFit  == CallsFit({"none", "alloc"}, {"none", "mp"})
PoolCallsKept == CallsKept({"none", "alloc"}, {"none", "mp"})

(* The suspended threads are those on the list of the pool, in the middle  *)
(* of rt_mp_alloc; error is RT_EOK until their time runs out or the pool   *)
(* is deleted.                                                             *)
PoolWaits ==
    /\ Suspended(k) = Elems(k.waitq[PoolList])
    /\ \A t \in Suspended(k) : call[t].op = "alloc" /\ k.error[t] = "EOK"
    /\ wait \in [Threads -> Nat \cup {Forever}]

(* Every block is in one place. *)
BlockBooks ==
    /\ mp \in [list : Lists1(Blocks), free : Nat, alive : BOOLEAN]
    /\ mp.free = Len(mp.list)
    /\ held \in [Threads -> SUBSET Blocks]
    /\ \A b \in Blocks : b \in Elems(mp.list) \/ \E t \in Threads : b \in held[t]
    /\ \A t \in Threads : held[t] \cap Elems(mp.list) = {}
    /\ \A t, u \in Threads : t # u => held[t] \cap held[u] = {}

(* The inductive invariant. *)
PoolInv ==
    /\ Sane(k) /\ k.nest = 0
    /\ PoolCallsFit /\ PoolWaits /\ BlockBooks /\ NoLostWakeup

(***************************************************************************)
(* The free list                                                           *)
(***************************************************************************)
(* rt_mp_alloc takes the first block off the list. *)
LEMMA BlockTaken ==
    ASSUME BlockBooks, NEW t \in Threads, mp.free # 0,
           mp' = [mp EXCEPT !.free = @ - 1, !.list = Tail(@)],
           held' = [held EXCEPT ![t] = @ \cup {Head(mp.list)}]
    PROVE  BlockBooks' /\ mp'.free = mp.free - 1
<1> DEFINE l == mp.list
           b == Head(l)
<1>1. /\ mp \in [list : Lists1(Blocks), free : Nat, alive : BOOLEAN] /\ l \in Lists1(Blocks)
      /\ mp.free = Len(l) /\ held \in [Threads -> SUBSET Blocks]
  BY DEF BlockBooks
<1>2. l \in Seq(Blocks) /\ l # <<>>
  BY <1>1, ListElems
<1>3. b \in Elems(l) /\ b \in Blocks
  BY <1>1, <1>2, ListElems
<1>4. Tail(l) \in Lists1(Blocks) /\ Elems(Tail(l)) = Elems(l) \ {b}
  BY <1>1, <1>2, ListPop
<1>5. Len(Tail(l)) = Len(l) - 1 /\ Len(l) \in Nat /\ Len(Tail(l)) \in Nat
  BY <1>2, <1>4, ListElems, HeadTailProperties
<1>6. /\ mp'.list = Tail(l) /\ mp'.free = mp.free - 1
      /\ mp' = [mp EXCEPT !.free = mp'.free, !.list = mp'.list]
  BY <1>1
<1>7. mp' \in [list : Lists1(Blocks), free : Nat, alive : BOOLEAN] /\ mp'.free = Len(mp'.list)
  BY <1>1, <1>4, <1>5, <1>6
<1> HIDE DEF l, b
<1>8. /\ \A u \in Threads : held'[u] = IF u = t THEN held[t] \cup {b} ELSE held[u]
      /\ held' \in [Threads -> SUBSET Blocks]
  BY <1>1, <1>3 DEF l, b
<1>9. Elems(mp'.list) = Elems(l) \ {b}
  BY <1>4, <1>6
<1>10. /\ \A c \in Blocks : c \in Elems(l) \/ \E u \in Threads : c \in held[u]
       /\ \A u \in Threads : held[u] \cap Elems(l) = {}
       /\ \A u, v \in Threads : u # v => held[u] \cap held[v] = {}
  BY DEF BlockBooks, l
<1>11. \A c \in Blocks : c \in Elems(mp'.list) \/ \E u \in Threads : c \in held'[u]
  BY <1>8, <1>9, <1>10
<1>12. \A u \in Threads : held'[u] \cap Elems(mp'.list) = {}
  BY <1>8, <1>9, <1>10
<1>13. \A u, v \in Threads : u # v => held'[u] \cap held'[v] = {}
  BY <1>3, <1>8, <1>10
<1> QED
  BY <1>6, <1>7, <1>8, <1>11, <1>12, <1>13 DEF BlockBooks

(* rt_mp_free puts the block in front. *)
LEMMA BlockFreed ==
    ASSUME BlockBooks, NEW t \in Threads, NEW b \in held[t],
           mp' = [mp EXCEPT !.free = @ + 1, !.list = <<b>> \o @],
           held' = [held EXCEPT ![t] = @ \ {b}]
    PROVE  BlockBooks' /\ mp'.free = mp.free + 1
<1> DEFINE l == mp.list
           w == <<b>> \o l
<1>1. /\ mp \in [list : Lists1(Blocks), free : Nat, alive : BOOLEAN] /\ l \in Lists1(Blocks)
      /\ mp.free = Len(l) /\ held \in [Threads -> SUBSET Blocks] /\ b \in Blocks /\ b \notin Elems(l)
  BY DEF BlockBooks
<1>2. w \in Lists1(Blocks) /\ Elems(w) = Elems(l) \cup {b}
  BY <1>1, ListPush
<1>3. Len(w) = Len(l) + 1 /\ Len(l) \in Nat
  BY <1>1, ListElems
<1>4. /\ mp'.list = w /\ mp'.free = mp.free + 1
      /\ mp' = [mp EXCEPT !.free = mp'.free, !.list = mp'.list]
  BY <1>1
<1> HIDE DEF w
<1>5. mp' \in [list : Lists1(Blocks), free : Nat, alive : BOOLEAN] /\ mp'.free = Len(mp'.list)
  <2>1. mp.free + 1 \in Nat /\ mp.free + 1 = Len(w)
    BY <1>1, <1>3
  <2>2. mp' = [mp EXCEPT !.free = mp.free + 1, !.list = w]
    BY <1>4
  <2> QED
    BY <1>1, <1>2, <1>4, <2>1, <2>2
<1> HIDE DEF l
<1>6. /\ \A u \in Threads : held'[u] = IF u = t THEN held[t] \ {b} ELSE held[u]
      /\ held' \in [Threads -> SUBSET Blocks]
  BY <1>1
<1>7. Elems(mp'.list) = Elems(l) \cup {b}
  BY <1>2, <1>4
<1>8. /\ \A c \in Blocks : c \in Elems(l) \/ \E u \in Threads : c \in held[u]
      /\ \A u \in Threads : held[u] \cap Elems(l) = {}
      /\ \A u, v \in Threads : u # v => held[u] \cap held[v] = {}
  BY DEF BlockBooks, l
<1>9. \A c \in Blocks : c \in Elems(mp'.list) \/ \E u \in Threads : c \in held'[u]
  BY <1>6, <1>7, <1>8
<1>10. \A u \in Threads : held'[u] \cap Elems(mp'.list) = {}
  BY <1>6, <1>7, <1>8
<1>11. \A u, v \in Threads : u # v => held'[u] \cap held'[v] = {}
  BY <1>6, <1>8
<1> QED
  BY <1>4, <1>5, <1>6, <1>9, <1>10, <1>11 DEF BlockBooks

(***************************************************************************)
(* Threads on the way to a block                                           *)
(***************************************************************************)
LEMMA WokenIs ==
    /\ Woken = {t \in Threads : call[t].op = "alloc" /\ t \notin Suspended(k) /\ k.error[t] = "EOK"}
    /\ Woken' = {t \in Threads : call'[t].op = "alloc" /\ t \notin Suspended(k') /\ k'.error[t] = "EOK"}
BY DEF Woken, Suspended

LEMMA WokenFinite ==
    ASSUME PoolAssumption
    PROVE  /\ IsFiniteSet(Woken) /\ Cardinality(Woken) \in Nat
           /\ IsFiniteSet(Woken') /\ Cardinality(Woken') \in Nat
<1>1. Woken \subseteq Threads /\ Woken' \subseteq Threads
  BY DEF Woken
<1>2. IsFiniteSet(Woken) /\ IsFiniteSet(Woken')
  BY <1>1, FS_Subset DEF PoolAssumption
<1> QED
  BY <1>2, FS_CardinalityType

(* Without free blocks, or without waiters, there is nothing to be lost. *)
LEMMA NothingToLose ==
    ASSUME PoolAssumption, mp'.free = 0 \/ k'.waitq[PoolList] = <<>>
    PROVE  NoLostWakeup'
BY WokenFinite DEF NoLostWakeup

(* Nobody new waits, nobody woken is lost and no block is freed. *)
LEMMA WokenStay ==
    ASSUME PoolAssumption, NoLostWakeup, mp.free \in Nat, mp'.free = mp.free,
           k'.waitq[PoolList] # <<>> => k.waitq[PoolList] # <<>>, Woken \subseteq Woken'
    PROVE  NoLostWakeup'
<1>1. /\ IsFiniteSet(Woken') /\ Cardinality(Woken) \in Nat /\ Cardinality(Woken') \in Nat
  BY WokenFinite
<1>2. Cardinality(Woken) <= Cardinality(Woken')
  BY <1>1, FS_Subset
<1> QED
  BY <1>1, <1>2 DEF NoLostWakeup

(***************************************************************************)
(* The steps                                                               *)
(***************************************************************************)
(* A step that wakes nobody. *)
LEMMA PoolQuietKeeps ==
    ASSUME PoolAssumption, PoolInv, Quiet(k, k'), PoolCallsKept, UNCHANGED <<mp, held>>,
           wait' \in [Threads -> Nat \cup {Forever}]
    PROVE  PoolInv'
<1>1. Sane(k') /\ k'.nest = 0 /\ k'.waitq = k.waitq /\ k'.error = k.error /\ Suspended(k') = Suspended(k)
  BY DEF Quiet, PoolInv
<1>2. PoolCallsFit' /\ \A t \in Threads : call'[t].op = call[t].op
  BY DEF PoolCallsKept, CallsKept, PoolCallsFit
<1>3. PoolWaits'
  <2>1. Suspended(k) \subseteq Threads
    BY DEF Suspended
  <2> QED
    BY <1>1, <1>2, <2>1 DEF PoolInv, PoolWaits
<1>4. BlockBooks'
  BY DEF PoolInv, BlockBooks
<1>5. Woken' = Woken
  BY <1>1, <1>2, WokenIs
<1>6. NoLostWakeup'
  BY <1>1, <1>5 DEF PoolInv, NoLostWakeup
<1> QED
  BY <1>1, <1>2, <1>3, <1>4, <1>6 DEF PoolInv

(* A step that wakes u with the error e; if it frees a block, e is RT_EOK. *)
LEMMA PoolWakeKeeps ==
    ASSUME PoolAssumption, PoolInv, NEW u \in Suspended(k), NEW e \in Errors,
           Sane(k'), k'.nest = k.nest, k'.error = [k.error EXCEPT ![u] = e],
           Suspended(k') = Suspended(k) \ {u}, QueuesLose(k, k', u),
           PoolCallsKept, UNCHANGED wait,
           BlockBooks', mp'.free = mp.free \/ (e = "EOK" /\ mp'.free = mp.free + 1)
    PROVE  PoolInv'
<1>1. /\ u \in Threads /\ PoolList \in Queues /\ Suspended(k) \subseteq Threads
      /\ k.error \in [Threads -> Errors] /\ mp.free \in Nat /\ mp'.free \in Nat
  BY DEF Suspended, PoolAssumption, PoolInv, Sane, KernelState, BlockBooks
<1>2. Elems(k'.waitq[PoolList]) = Elems(k.waitq[PoolList]) \ {u}
  BY <1>1 DEF QueuesLose
<1>3. PoolCallsFit' /\ \A t \in Threads : call'[t].op = call[t].op
  BY DEF PoolCallsKept, CallsKept, PoolCallsFit
<1>4. PoolWaits'
  BY <1>1, <1>2, <1>3 DEF PoolInv, PoolWaits
<1>5. k.waitq[PoolList] # <<>>
  <2>1. u \in Elems(k.waitq[PoolList])
    BY DEF PoolInv, PoolWaits
  <2> QED
    BY <2>1 DEF Elems
<1>6. mp.free <= Cardinality(Woken) /\ u \notin Woken
  BY <1>5, WokenIs DEF PoolInv, NoLostWakeup
<1>7. \A t \in Threads : k'.error[t] = IF t = u THEN e ELSE k.error[t]
  BY <1>1
<1>8. Woken \subseteq Woken'
  BY <1>1, <1>3, <1>6, <1>7, WokenIs
<1>9. NoLostWakeup'
  <2>1. CASE mp'.free = mp.free
    BY <1>1, <1>5, <1>8, <2>1, WokenStay DEF PoolInv
  <2>2. CASE e = "EOK" /\ mp'.free = mp.free + 1
    <3>1. call'[u].op = "alloc"
      BY <1>1, <1>3 DEF PoolInv, PoolWaits
    <3>2. Woken \cup {u} \subseteq Woken'
      BY <1>1, <1>7, <1>8, <2>2, <3>1, WokenIs
    <3>3. /\ IsFiniteSet(Woken) /\ IsFiniteSet(Woken')
          /\ Cardinality(Woken) \in Nat /\ Cardinality(Woken') \in Nat
      BY WokenFinite
    <3>4. IsFiniteSet(Woken \cup {u}) /\ Cardinality(Woken \cup {u}) = Cardinality(Woken) + 1
      BY <1>6, <3>3, FS_AddElement
    <3>5. Cardinality(Woken \cup {u}) <= Cardinality(Woken')
      BY <3>2, <3>3, FS_Subset
    <3>6. mp'.free <= Cardinality(Woken')
      BY <1>1, <1>6, <2>2, <3>3, <3>4, <3>5
    <3> QED
      BY <3>6 DEF NoLostWakeup
  <2> QED
    BY <2>1, <2>2
<1> QED
  BY <1>3, <1>4, <1>9 DEF PoolInv

LEMMA CommonKeeps ==
    ASSUME KernelAssumption, PoolAssumption, PoolInv, CommonStep, UNCHANGED <<mp, held>>,
           wait' \in [Threads -> Nat \cup {Forever}], wait' = wait \/ TickIncrease
    PROVE  PoolInv'
<1>1. Sane(k) /\ k.nest = 0 /\ PoolCallsFit
  BY DEF PoolInv
<1>2. /\ PoolCallsKept
      /\ Quiet(k, k') \/ \E t \in Suspended(k) : TimedOut(k, k', t)
  BY <1>1, CommonStepEffect DEF PoolCallsFit, PoolCallsKept
<1>3. CASE Quiet(k, k')
  BY <1>2, <1>3, PoolQuietKeeps
<1>4. CASE ~Quiet(k, k')
  <2>1. PICK t \in Suspended(k) : TimedOut(k, k', t)
    BY <1>2, <1>4
  <2>2. wait' = wait
    BY <1>1, <1>4, TickIncreaseStep
  <2>3. /\ Sane(k') /\ k'.nest = k.nest /\ k'.error = [k.error EXCEPT ![t] = "ETIMEOUT"]
        /\ Suspended(k') = Suspended(k) \ {t} /\ QueuesLose(k, k', t)
    BY <2>1 DEF TimedOut
  <2>4. "ETIMEOUT" \in Errors
    BY DEF Errors
  <2>5. BlockBooks' /\ mp'.free = mp.free
    BY DEF PoolInv, BlockBooks
  <2> QED
    BY <1>2, <2>2, <2>3, <2>4, <2>5, PoolWakeKeeps
<1> QED
  BY <1>3, <1>4

(* A block is taken, at once or after waiting. *)
LEMMA TakeKeeps ==
    ASSUME KernelAssumption, PoolAssumption, PoolInv, NEW t \in Threads, t = k.cur,
           call[t].pc \in {"user", "back"}, Take(t)
    PROVE  PoolInv'
<1>1. /\ mp.free # 0 /\ mp' = [mp EXCEPT !.free = @ - 1, !.list = Tail(@)]
      /\ held' = [held EXCEPT ![t] = @ \cup {Head(mp.list)}]
      /\ call' = [call EXCEPT ![t] = UserCode] /\ UNCHANGED <<k, wait>>
  BY DEF Take
<1>2. BlockBooks' /\ mp'.free = mp.free - 1 /\ mp.free \in Nat
  BY <1>1, BlockTaken DEF PoolInv, BlockBooks
<1>3. /\ PoolCallsFit' /\ call'[t].op = "none" /\ k.stat[t] # "suspend"
      /\ \A x \in Threads \ {t} : call'[x] = call[x]
  <2>1. CallsFit({"none", "alloc"}, {"none", "mp"}) /\ k'.cur = k.cur /\ k'.stat = k.stat
        /\ EndsCall(t)
    BY <1>1 DEF PoolInv, PoolCallsFit, EndsCall
  <2> QED
    BY <2>1, CallsEnd DEF PoolCallsFit
<1>4. PoolWaits'
  BY <1>1, <1>3 DEF PoolInv, PoolWaits, Suspended
<1>5. NoLostWakeup'
  <2>1. Woken \ {t} \subseteq Woken'
    BY <1>1, <1>3, WokenIs
  <2>2. /\ IsFiniteSet(Woken) /\ IsFiniteSet(Woken')
        /\ Cardinality(Woken) \in Nat /\ Cardinality(Woken') \in Nat
    BY WokenFinite
  <2>3. Cardinality(Woken) - 1 <= Cardinality(Woken \ {t}) /\ IsFiniteSet(Woken \ {t})
    <3>1. /\ IsFiniteSet(Woken \ {t})
          /\ Cardinality(Woken \ {t}) = IF t \in Woken THEN Cardinality(Woken) - 1 ELSE Cardinality(Woken)
      BY <2>2, FS_RemoveElement
    <3> QED
      BY <2>2, <3>1
  <2>4. Cardinality(Woken \ {t}) <= Cardinality(Woken') /\ Cardinality(Woken \ {t}) \in Nat
    BY <2>1, <2>2, <2>3, FS_Subset, FS_CardinalityType
  <2>5. Cardinality(Woken) - 1 <= Cardinality(Woken')
    BY <2>2, <2>3, <2>4
  <2> QED
    BY <1>1, <1>2, <2>2, <2>5 DEF PoolInv, NoLostWakeup
<1> QED
  BY <1>1, <1>2, <1>3, <1>4, <1>5 DEF PoolInv

(* t waits, or waits once more: there is no block. *)
LEMMA WaitKeeps ==
    ASSUME KernelAssumption, PoolAssumption, PoolInv, NEW t \in Threads, t = k.cur, t # IdleThread,
           call[t].pc \in {"user", "back"}, NEW n \in Nat \cup {Forever}, Wait(t, n)
    PROVE  PoolInv'
<1> DEFINE a == [k EXCEPT !.error[t] = "EOK"]
           s == [rt_thread_suspend(a, t) EXCEPT !.waitq[PoolList] = <<t>> \o @]
<1>1. /\ mp.free = 0 /\ k' = (IF n > 0 THEN rt_timer_start(s, t, n) ELSE s)
      /\ wait' = [wait EXCEPT ![t] = n] /\ ThenSchedule(t, "alloc", "mp") /\ UNCHANGED <<mp, held>>
  BY DEF Wait
<1>2. /\ Sane(k) /\ k.nest = 0 /\ PoolList \in Queues /\ k.stat[t] # "suspend" /\ PoolCallsFit
      /\ "EOK" \in Errors
  BY DEF PoolInv, PoolAssumption, PoolCallsFit, CallsFit, Errors
<1>3. /\ Sane(a) /\ a.stat = k.stat /\ a.waitq = k.waitq
  BY <1>2, SaneError
<1>4. WaitsOn(a, s, PoolList, t)
  <2> HIDE DEF a
  <2> DEFINE d == rt_thread_suspend(a, t)
             w == <<t>> \o d.waitq[PoolList]
  <2>1. Sane(d) /\ Off(d, t) /\ QueuesLose(a, d, t)
    BY <1>3, SaneSuspend
  <2>2. t \notin Elems(a.waitq[PoolList])
    BY <1>2, <1>3 DEF Sane, ExactBut, Agrees
  <2>3. /\ d.waitq[PoolList] = a.waitq[PoolList] /\ d.waitq[PoolList] \in Lists1(Threads)
        /\ t \notin Elems(d.waitq[PoolList])
    BY <1>2, <2>1, <2>2 DEF QueuesLose, Sane, KernelState, Off
  <2>4. w \in Lists1(Threads) /\ Elems(w) = Elems(a.waitq[PoolList]) \cup {t}
    BY <2>3, ListPush
  <2>5. s = [d EXCEPT !.waitq[PoolList] = w]
    <3>1. d.waitq \in [Queues -> Lists1(Threads)] /\ d \in KernelState
      BY <2>1 DEF Sane, KernelState
    <3> QED
      BY <3>1
  <2> HIDE DEF w
  <2>6. WaitsOn(a, [d EXCEPT !.waitq[PoolList] = w], PoolList, t)
    BY <1>2, <1>3, <2>4, SaneWaitOn
  <2> QED
    BY <2>5, <2>6
<1> HIDE DEF s
<1>5. Blocked(k, k', PoolList, t, "EOK")
  <2>1. Blocked(k, IF n > 0 THEN rt_timer_start(s, t, n) ELSE s, PoolList, t, "EOK")
    BY <1>2, <1>4, BlockedWithTimer
  <2> QED
    BY <1>1, <2>1
<1>6. /\ Sane(k') /\ k'.cur = k.cur /\ k'.nest = 0 /\ k'.error = [k.error EXCEPT ![t] = "EOK"]
      /\ Suspended(k') = Suspended(k) \cup {t}
      /\ Elems(k'.waitq[PoolList]) = Elems(k.waitq[PoolList]) \cup {t}
      /\ k.error \in [Threads -> Errors]
  BY <1>2, <1>5 DEF Blocked, Sane, KernelState
<1>7. /\ PoolCallsFit' /\ call'[t].op = "alloc"
      /\ \A x \in Threads \ {t} : call'[x] = call[x]
  BY <1>1, <1>2, <1>6, CallsToSchedule DEF PoolCallsFit
<1>8. PoolWaits'
  BY <1>1, <1>6, <1>7 DEF PoolInv, PoolWaits, Suspended
<1>9. BlockBooks' /\ mp'.free = 0
  BY <1>1 DEF PoolInv, BlockBooks
<1> QED
  BY <1>6, <1>7, <1>8, <1>9, NothingToLose DEF PoolInv

(* The call fails: there is no block, or the thread was not woken for one. *)
LEMMA LeaveKeeps ==
    ASSUME KernelAssumption, PoolAssumption, PoolInv, NEW t \in Threads, t = k.cur,
           call[t].pc \in {"user", "back"}, NEW e \in Errors, Leave(t, e),
           mp.free = 0 \/ (k.error[t] # "EOK")
    PROVE  PoolInv'
<1>1. /\ k' = [k EXCEPT !.error[t] = e] /\ call' = [call EXCEPT ![t] = UserCode]
      /\ UNCHANGED <<mp, wait, held>> /\ Sane(k) /\ k.nest = 0
  BY DEF Leave, PoolInv
<1>2. /\ Sane(k') /\ k'.error = [k.error EXCEPT ![t] = e] /\ k'.cur = k.cur /\ k'.nest = 0
      /\ k'.stat = k.stat /\ k'.waitq = k.waitq
  BY <1>1, SaneError
<1>3. /\ PoolCallsFit' /\ call'[t].op = "none" /\ k.stat[t] # "suspend"
      /\ \A x \in Threads \ {t} : call'[x] = call[x]
  <2>1. CallsFit({"none", "alloc"}, {"none", "mp"}) /\ EndsCall(t)
    BY <1>1 DEF PoolInv, PoolCallsFit, EndsCall
  <2> QED
    BY <1>2, <2>1, CallsEnd DEF PoolCallsFit
<1>4. /\ Suspended(k') = Suspended(k) /\ t \notin Suspended(k) /\ Suspended(k) \subseteq Threads
      /\ \A x \in Threads \ {t} : k'.error[x] = k.error[x]
  BY <1>1, <1>2, <1>3 DEF Suspended, Sane, KernelState
<1>5. PoolWaits'
  BY <1>1, <1>2, <1>3, <1>4 DEF PoolInv, PoolWaits
<1>6. BlockBooks'
  BY <1>1 DEF PoolInv, BlockBooks
<1>7. NoLostWakeup'
  <2>1. CASE mp.free = 0
    BY <1>1, <2>1, NothingToLose
  <2>2. CASE k.error[t] # "EOK"
    <3>1. Woken \subseteq Woken'
      BY <1>3, <1>4, <2>2, WokenIs
    <3> QED
      BY <1>1, <1>2, <3>1, WokenStay DEF PoolInv, BlockBooks
  <2> QED
    BY <2>1, <2>2
<1> QED
  BY <1>2, <1>3, <1>5, <1>6, <1>7 DEF PoolInv

LEMMA AllocKeeps ==
    ASSUME KernelAssumption, PoolAssumption, PoolInv, NEW t \in Threads, NEW n \in Timeouts,
           MpAlloc(t, n)
    PROVE  PoolInv'
<1>1. /\ t = k.cur /\ t # IdleThread /\ call[t].pc \in {"user", "back"}
      /\ (Take(t) \/ Wait(t, n) \/ Fails(t, n)) /\ n \in Nat \cup {Forever}
  BY DEF MpAlloc, Running, KernelAssumption
<1>2. CASE Take(t)
  BY <1>1, <1>2, TakeKeeps
<1>3. CASE Wait(t, n)
  BY <1>1, <1>3, WaitKeeps DEF KernelAssumption
<1>4. CASE Fails(t, n)
  <2>1. Leave(t, "ETIMEOUT") /\ mp.free = 0 /\ "ETIMEOUT" \in Errors
    BY <1>4 DEF Fails, Errors
  <2> QED
    BY <1>1, <2>1, LeaveKeeps
<1> QED
  BY <1>1, <1>2, <1>3, <1>4

LEMMA AllocBackKeeps ==
    ASSUME KernelAssumption, PoolAssumption, PoolInv, NEW t \in Threads, MpAllocBack(t)
    PROVE  PoolInv'
<1>1. t = k.cur /\ call[t].pc \in {"user", "back"} /\ call[t].op = "alloc"
  BY DEF MpAllocBack, Returned
<1>2. /\ t # IdleThread /\ k.error[t] \in Errors /\ wait[t] \in Nat \cup {Forever}
  BY <1>1 DEF PoolInv, PoolCallsFit, CallsFit, PoolWaits, Sane, KernelState
<1>3. CASE k.error[t] # "EOK" /\ Leave(t, k.error[t])
  <2> DEFINE e == k.error[t]
  <2>1. e \in Errors /\ Leave(t, e) /\ k.error[t] # "EOK"
    BY <1>2, <1>3
  <2> HIDE DEF e
  <2> QED
    BY <1>1, <2>1, LeaveKeeps
<1>4. CASE Take(t)
  BY <1>1, <1>4, TakeKeeps
<1>5. CASE Wait(t, wait[t])
  <2> DEFINE n == wait[t]
  <2>1. n \in Nat \cup {Forever} /\ Wait(t, n)
    BY <1>2, <1>5
  <2> HIDE DEF n
  <2> QED
    BY <1>1, <1>2, <2>1, WaitKeeps
<1>6. CASE Fails(t, wait[t])
  <2>1. Leave(t, "ETIMEOUT") /\ mp.free = 0 /\ "ETIMEOUT" \in Errors
    BY <1>6 DEF Fails, Errors
  <2> QED
    BY <1>1, <2>1, LeaveKeeps
<1> QED
  BY <1>3, <1>4, <1>5, <1>6 DEF MpAllocBack

(* A block that is freed has a thread on its way to it, if one waited. *)
LEMMA FreeKeeps ==
    ASSUME KernelAssumption, PoolAssumption, PoolInv, NEW t \in Threads, NEW b \in Blocks,
           MpFree(t, b)
    PROVE  PoolInv'
<1>1. /\ Running(t) /\ b \in held[t] /\ mp' = [mp EXCEPT !.free = @ + 1, !.list = <<b>> \o @]
      /\ held' = [held EXCEPT ![t] = @ \ {b}] /\ UNCHANGED wait
  BY DEF MpFree
<1>2. BlockBooks' /\ mp'.free = mp.free + 1
  BY <1>1, BlockFreed DEF PoolInv
<1>3. Sane(k) /\ k.nest = 0 /\ PoolList \in Queues /\ PoolCallsFit
  BY DEF PoolInv, PoolAssumption
<1>4. CASE k.waitq[PoolList] = <<>>
  <2>1. UNCHANGED <<k, call>>
    BY <1>4 DEF MpFree
  <2>2. NoLostWakeup'
    BY <1>4, <2>1, NothingToLose
  <2> QED
    BY <1>1, <1>2, <2>1, <2>2 DEF PoolInv, PoolCallsFit, CallsFit, PoolWaits
<1>5. CASE k.waitq[PoolList] # <<>>
  <2> DEFINE u == Head(k.waitq[PoolList])
  <2>1. k' = ipc_list_resume(k, PoolList) /\ ThenSchedule(t, "none", "none")
    BY <1>5 DEF MpFree
  <2>2. u \in Threads /\ k.stat[u] = "suspend" /\ WokenWith(k, k', u, "EOK")
    BY <1>3, <1>5, <2>1, SaneIpcResume
  <2> HIDE DEF u
  <2>3. u \in Suspended(k) /\ "EOK" \in Errors
    BY <2>2 DEF Suspended, Errors
  <2>4. /\ Sane(k') /\ k'.error = [k.error EXCEPT ![u] = "EOK"] /\ k'.cur = k.cur /\ k'.nest = k.nest
        /\ Suspended(k') = Suspended(k) \ {u} /\ QueuesLose(k, k', u)
    BY <2>2 DEF WokenWith
  <2>5. PoolCallsKept
    BY <1>1, <1>3, <2>1, <2>4, CallsYield DEF PoolCallsFit, PoolCallsKept
  <2> QED
    BY <1>1, <1>2, <2>3, <2>4, <2>5, PoolWakeKeeps
<1> QED
  BY <1>4, <1>5

LEMMA PoolDeleteKeeps ==
    ASSUME KernelAssumption, PoolAssumption, PoolInv, NEW t \in Threads, MpDelete(t)
    PROVE  PoolInv'
<1>1. /\ k' = ipc_list_resume_all(k, PoolList) /\ mp' = [mp EXCEPT !.alive = FALSE]
      /\ UNCHANGED <<call, wait, held>>
  BY DEF MpDelete
<1>2. Sane(k) /\ k.nest = 0 /\ PoolList \in Queues /\ PoolCallsFit /\ PoolWaits /\ BlockBooks
  BY DEF PoolInv, PoolAssumption
<1>3. /\ Sane(k') /\ k'.cur = k.cur /\ k'.nest = k.nest
      /\ Suspended(k') = Suspended(k) \ Elems(k.waitq[PoolList])
      /\ k'.waitq[PoolList] = <<>>
      /\ k'.stat[k'.cur] = "running" \/ k'.stat[k'.cur] = k.stat[k'.cur]
  BY <1>1, <1>2, AllWokenOf DEF Emptied
<1>4. PoolCallsFit'
  <2>1. (k'.cur = k.cur /\ k'.stat[k'.cur] = k.stat[k.cur]) \/ k'.stat[k'.cur] # "suspend"
    BY <1>3
  <2> QED
    BY <1>1, <1>2, <2>1, CallsSame DEF PoolCallsFit, CallsKept
<1>5. PoolWaits'
  <2>1. Suspended(k') = {} /\ Elems(k'.waitq[PoolList]) = {}
    BY <1>2, <1>3 DEF PoolWaits, Elems
  <2> QED
    BY <1>1, <1>2, <2>1 DEF PoolWaits
<1>6. BlockBooks'
  <2>1. /\ mp' \in [list : Lists1(Blocks), free : Nat, alive : BOOLEAN]
        /\ mp'.list = mp.list /\ mp'.free = mp.free
    BY <1>1, <1>2 DEF BlockBooks
  <2> QED
    BY <1>1, <1>2, <2>1 DEF BlockBooks
<1>7. NoLostWakeup'
  BY <1>3, NothingToLose
<1> QED
  BY <1>2, <1>3, <1>4, <1>5, <1>6, <1>7 DEF PoolInv

LEMMA PoolResumedKeeps ==
    ASSUME KernelAssumption, PoolAssumption, PoolInv, NEW t \in Threads, NEW u \in Threads,
           AllocResumed(t, u)
    PROVE  PoolInv'
<1>1. /\ u \in Elems(k.waitq[PoolList]) /\ k' = rt_thread_resume(k, u)
      /\ Running(t) /\ ThenSchedule(t, "none", "none") /\ UNCHANGED <<mp, wait, held>>
      /\ Sane(k) /\ PoolCallsFit /\ PoolWaits /\ BlockBooks
  BY DEF AllocResumed, PoolInv
<1>2. /\ u \in Suspended(k) /\ k.stat[u] = "suspend" /\ k.error[u] = "EOK"
      /\ k.error \in [Threads -> Errors] /\ k.stat \in [Threads -> Statuses] /\ k.cur \in Threads
  BY <1>1 DEF PoolWaits, Suspended, Sane, KernelState
<1>3. /\ Sane(k') /\ SameCore(k, k') /\ Suspended(k') = Suspended(k) \ {u} /\ QueuesLose(k, k', u)
      /\ k'.stat = [k.stat EXCEPT ![u] = IF u = k.cur THEN "running" ELSE "ready"]
  BY <1>1, <1>2, SaneResume
<1>4. /\ k'.error = [k.error EXCEPT ![u] = "EOK"] /\ k'.nest = k.nest /\ k'.cur = k.cur
      /\ "EOK" \in Errors
  BY <1>2, <1>3 DEF SameCore, Errors
<1>5. PoolCallsKept
  BY <1>1, <1>4, CallsYield DEF PoolCallsFit, PoolCallsKept
<1>6. BlockBooks' /\ mp'.free = mp.free
  BY <1>1 DEF BlockBooks
<1> QED
  BY <1>1, <1>2, <1>3, <1>4, <1>5, <1>6, PoolWakeKeeps

(* The blocks in the order of their addresses are a list of all of them. *)
LEMMA ChainIsList ==
    ASSUME PoolAssumption, NEW s \in Chains
    PROVE  s \in Lists1(Blocks) /\ Len(s) = Cardinality(Blocks) /\ Elems(s) = Blocks
<1> DEFINE n == Cardinality(Blocks)
<1>1. n \in Nat
  BY FS_CardinalityType DEF PoolAssumption
<1>2. s \in [1..n -> Blocks] /\ Elems(s) = Blocks
  BY DEF Chains
<1> HIDE DEF n
<1>3. s \in Seq(Blocks) /\ Len(s) = n
  BY <1>1, <1>2
<1>4. s \in Surjection(1..n, Blocks)
  BY <1>2 DEF Elems, Surjection
<1>5. IsFiniteSet(1..n) /\ Cardinality(1..n) = n
  BY <1>1, FS_Interval
<1>6. s \in Injection(1..n, Blocks)
  <2>1. Cardinality(1..n) = Cardinality(Blocks)
    BY <1>5 DEF n
  <2> QED
    BY <1>4, <1>5, <2>1, FS_SurjSameCardinalityImpliesInj
<1>7. \A i, j \in 1..n : s[i] = s[j] => i = j
  BY <1>2, <1>6 DEF Injection, IsInjective
<1> QED
  BY <1>2, <1>3, <1>7 DEF Lists1, n

LEMMA PoolInvInit ==
    ASSUME KernelAssumption, PoolAssumption, PoolInit
    PROVE  PoolInv
<1>1. Sane(k) /\ k.nest = 0 /\ Suspended(k) = {}
  BY SaneInit DEF PoolInit
<1>2. PoolCallsFit
  BY CallsFitInit DEF PoolInit, PoolCallsFit
<1>3. k.waitq[PoolList] = <<>> /\ wait = [t \in Threads |-> 0] /\ held = [t \in Threads |-> {}]
  BY DEF PoolInit, KernelInit, PoolAssumption
<1>4. PoolWaits
  BY <1>1, <1>3 DEF PoolWaits, Elems
<1>5. PICK s \in Chains : mp = [list |-> s, free |-> Cardinality(Blocks), alive |-> TRUE]
  BY DEF PoolInit
<1>6. s \in Lists1(Blocks) /\ Len(s) = Cardinality(Blocks) /\ Elems(s) = Blocks
      /\ Cardinality(Blocks) \in Nat
  BY ChainIsList, FS_CardinalityType DEF PoolAssumption
<1>7. /\ mp \in [list : Lists1(Blocks), free : Nat, alive : BOOLEAN]
      /\ mp.free = Len(mp.list) /\ mp.list = s
  BY <1>5, <1>6
<1>8. BlockBooks
  BY <1>3, <1>6, <1>7 DEF BlockBooks
<1>9. NoLostWakeup
  BY <1>3 DEF NoLostWakeup
<1> QED
  BY <1>1, <1>2, <1>4, <1>8, <1>9 DEF PoolInv

LEMMA PoolInvStep ==
    ASSUME KernelAssumption, PoolAssumption, PoolInv, [PoolNext]_poolVars
    PROVE  PoolInv'
<1>1. wait \in [Threads -> Nat \cup {Forever}]
  BY DEF PoolInv, PoolWaits
<1>2. CASE Tick
  <2>1. /\ TickIncrease /\ UNCHANGED <<mp, held>>
        /\ wait' = [t \in Threads |-> IF wait[t] > 0 THEN wait[t] - 1 ELSE wait[t]]
    BY <1>2 DEF Tick
  <2>2. ASSUME NEW t \in Threads
        PROVE  (IF wait[t] > 0 THEN wait[t] - 1 ELSE wait[t]) \in Nat \cup {Forever}
    <3>1. wait[t] \in Nat \cup {-1}
      BY <1>1 DEF Forever
    <3> QED
      BY <3>1 DEF Forever
  <2>3. wait' \in [Threads -> Nat \cup {Forever}]
    BY <2>1, <2>2
  <2> QED
    BY <2>1, <2>3, CommonKeeps DEF CommonStep
<1>3. CASE PoolKernelSteps
  <2>1. CommonStep /\ UNCHANGED <<mp, wait, held>>
    BY <1>3 DEF PoolKernelSteps, CommonStep
  <2> QED
    BY <1>1, <2>1, CommonKeeps
<1>4. ASSUME NEW t \in Threads, MpCalls(t) PROVE PoolInv'
  BY <1>4, AllocKeeps, AllocBackKeeps, FreeKeeps, PoolDeleteKeeps DEF MpCalls
<1>5. ASSUME NEW t \in Threads, NEW u \in Threads, AllocResumed(t, u) PROVE PoolInv'
  BY <1>5, PoolResumedKeeps
<1>6. CASE UNCHANGED poolVars
  BY <1>6 DEF poolVars, PoolInv, PoolCallsFit, CallsFit, PoolWaits, BlockBooks, NoLostWakeup, Woken
<1> QED
  BY <1>2, <1>3, <1>4, <1>5, <1>6 DEF PoolNext

LEMMA PoolInvAlways ==
    ASSUME KernelAssumption, PoolAssumption
    PROVE  PoolSpec => []PoolInv
<1>1. PoolInit => PoolInv
  BY PoolInvInit
<1>2. PoolInv /\ [PoolNext]_poolVars => PoolInv'
  BY PoolInvStep
<1> QED
  BY <1>1, <1>2, PTL DEF PoolSpec

(* No wakeup is lost: while threads wait for a block, every free block has *)
(* a woken thread on its way to it, however many free, take and time out   *)
(* between a wakeup and the second look of the thread that was woken.      *)
THEOREM PoolNoLostWakeup ==
    ASSUME KernelAssumption, PoolAssumption
    PROVE  PoolSpec => []NoLostWakeup
<1>1. PoolInv => NoLostWakeup
  BY DEF PoolInv
<1> QED
  BY <1>1, PoolInvAlways, PTL

LEMMA ListCardinality ==
    ASSUME NEW S, NEW s \in Lists1(S)
    PROVE  Cardinality(Elems(s)) = Len(s)
<1>1. Len(s) \in Nat /\ DOMAIN s = 1..Len(s) /\ s \in Seq(S)
  BY ListElems
<1>2. s \in [1..Len(s) -> Elems(s)]
  BY <1>1 DEF Elems
<1>3. s \in Bijection(1..Len(s), Elems(s))
  BY <1>1, <1>2 DEF Bijection, Injection, Surjection, IsInjective, Elems, Lists1
<1> QED
  BY <1>1, <1>3, FS_CountingElements DEF ExistsBijection

(* Every block is on the free list, once, or held by one thread, and       *)
(* block_free_count is the length of the list: rt_mp_alloc never hands out *)
(* a block that somebody has, and rt_mp_free loses none.                   *)
THEOREM PoolBlocksAccounted ==
    ASSUME KernelAssumption, PoolAssumption
    PROVE  PoolSpec => []BlocksAccounted
<1>1. PoolInv => BlocksAccounted
  <2> SUFFICES ASSUME PoolInv PROVE BlocksAccounted
    OBVIOUS
  <2>1. BlockBooks
    BY DEF PoolInv
  <2>2. mp.free = Len(mp.list) /\ mp.free = Cardinality(Elems(mp.list))
    BY <2>1, ListCardinality DEF BlockBooks
  <2>3. ASSUME NEW b \in Blocks
        PROVE  Cardinality({t \in Threads : b \in held[t]}) = IF b \in Elems(mp.list) THEN 0 ELSE 1
    <3>1. CASE b \in Elems(mp.list)
      <4>1. {t \in Threads : b \in held[t]} = {}
        BY <2>1, <3>1 DEF BlockBooks
      <4> QED
        BY <3>1, <4>1, FS_EmptySet
    <3>2. CASE b \notin Elems(mp.list)
      <4>1. PICK u \in Threads : b \in held[u]
        BY <2>1, <3>2 DEF BlockBooks
      <4>2. {t \in Threads : b \in held[t]} = {u}
        BY <2>1, <4>1 DEF BlockBooks
      <4> QED
        BY <3>2, <4>2, FS_Singleton
    <3> QED
      BY <3>1, <3>2
  <2> QED
    BY <2>2, <2>3 DEF BlocksAccounted
<1> QED
  BY <1>1, PoolInvAlways, PTL

(* Under a pool, too, the ready table is exact and a running timer belongs *)
(* to a suspended thread, if waiters are resumed by other threads only     *)
(* under the conditions of InOneStep.                                      *)
THEOREM PoolReadyTable ==
    ASSUME KernelAssumption, PoolAssumption
    PROVE  PoolSpec => [](ReadyTableExact /\ TimerOfSuspended)
<1>1. PoolInv => ReadyTableExact /\ TimerOfSuspended
  BY SaneWhole DEF PoolInv, PoolCallsFit, CallsFit
<1> QED
  BY <1>1, PoolInvAlways, PTL

-----------------------------------------------------------------------------
(***************************************************************************)
(* Any number of mutexes, with any ceilings and limits, in an application  *)
(* that does not suspend or resume threads itself.                         *)
(***************************************************************************)
(* Threads wait for mutexes only.  README, Other deviations, says what     *)
(* goes wrong otherwise.                                                   *)
OnlyMutexWaits == "suspend" \notin MutexOps /\ "resume" \notin MutexOps

MutexState ==
    [owner : [Mutexes -> Threads \cup {NoThread}], hold : [Mutexes -> 0..MaxHold],
     priority : [Mutexes -> 0..NoPrio], ceiling : [Mutexes -> 0..NoPrio],
     life : [Mutexes -> {"alive", "detached", "freed"}],
     taken : [Threads -> SUBSET Mutexes], pending : [Threads -> Mutexes \cup {NoMutex}]]

(* What inheritance relies on when it follows a chain of owners: a thread  *)
(* that is suspended is on the list of its pending mutex, and a mutex with *)
(* a waiter has an owner.                                                  *)
ChainOk(x) ==
    /\ x = [k |-> x.k, m |-> x.m] /\ Sane(x.k) /\ x.m \in MutexState
    /\ \A t \in Suspended(x.k) : x.m.pending[t] \in Mutexes /\ t \in Elems(x.k.waitq[x.m.pending[t]])
    /\ \A q \in Mutexes : Elems(x.k.waitq[q]) # {} => x.m.owner[q] \in Threads

(* what inheritance leaves alone: all but priorities and the order of lists *)
Shuffled(x, y) ==
    /\ ChainOk(y)
    /\ y.k.cur = x.k.cur /\ y.k.nest = x.k.nest /\ y.k.isr = x.k.isr
    /\ y.k.error = x.k.error /\ y.k.stat = x.k.stat
    /\ \A q \in Queues : Elems(y.k.waitq[q]) = Elems(x.k.waitq[q])
    /\ y.m.owner = x.m.owner /\ y.m.hold = x.m.hold /\ y.m.ceiling = x.m.ceiling
    /\ y.m.life = x.m.life /\ y.m.taken = x.m.taken /\ y.m.pending = x.m.pending

LEMMA ShuffledSelf ==
    ASSUME NEW x, ChainOk(x)
    PROVE  Shuffled(x, x)
BY DEF Shuffled

LEMMA ShuffledTwice ==
    ASSUME NEW x, NEW y, NEW z, Shuffled(x, y), Shuffled(y, z)
    PROVE  Shuffled(x, z)
BY DEF Shuffled

(* Lists, states and mutexes as before up to order. *)
LEMMA ShuffledIf ==
    ASSUME MutexAssumption, NEW x, ChainOk(x), NEW kk, Sane(kk), NEW mm \in MutexState,
           kk.cur = x.k.cur, kk.nest = x.k.nest, kk.isr = x.k.isr,
           kk.error = x.k.error, kk.stat = x.k.stat,
           \A q \in Queues : Elems(kk.waitq[q]) = Elems(x.k.waitq[q]),
           mm.owner = x.m.owner, mm.hold = x.m.hold, mm.ceiling = x.m.ceiling,
           mm.life = x.m.life, mm.taken = x.m.taken, mm.pending = x.m.pending
    PROVE  Shuffled(x, [k |-> kk, m |-> mm])
<1> DEFINE y == [k |-> kk, m |-> mm]
<1>1. y.k = kk /\ y.m = mm /\ y = [k |-> y.k, m |-> y.m]
  OBVIOUS
<1> HIDE DEF y
<1>2. Suspended(y.k) = Suspended(x.k) /\ Suspended(x.k) \subseteq Threads
  BY <1>1 DEF Suspended
<1>3. ASSUME NEW t \in Suspended(y.k)
      PROVE  y.m.pending[t] \in Mutexes /\ t \in Elems(y.k.waitq[y.m.pending[t]])
  BY <1>1, <1>2, <1>3 DEF ChainOk, MutexAssumption
<1>4. ASSUME NEW q \in Mutexes, Elems(y.k.waitq[q]) # {} PROVE y.m.owner[q] \in Threads
  BY <1>1, <1>4 DEF ChainOk, MutexAssumption
<1>5. ChainOk(y)
  BY <1>1, <1>3, <1>4 DEF ChainOk
<1>6. Shuffled(x, y)
  BY <1>1, <1>5 DEF Shuffled
<1> QED
  BY <1>6 DEF y

(***************************************************************************)
(* Priorities                                                              *)
(***************************************************************************)
LEMMA AskedPriority ==
    ASSUME KernelAssumption, NEW x, x.m \in MutexState, NEW t \in Threads
    PROVE  thread_get_mutex_priority(x, t) \in Prios
<1> DEFINE asked == {InitPrio[t]} \cup {x.m.priority[q] : q \in x.m.taken[t]}
                                  \cup {x.m.ceiling[q] : q \in x.m.taken[t]}
           p == CHOOSE p \in asked : \A r \in asked : p <= r
<1>1. /\ x.m.taken[t] \subseteq Mutexes /\ MaxPrio \in Nat
      /\ x.m.priority \in [Mutexes -> 0..MaxPrio] /\ x.m.ceiling \in [Mutexes -> 0..MaxPrio]
      /\ InitPrio[t] \in 0..(MaxPrio - 1)
  BY DEF MutexState, KernelAssumption, NoPrio, Prios
<1>2. asked \subseteq Nat /\ asked # {} /\ InitPrio[t] \in asked
  BY <1>1
<1>3. \E u \in asked : \A r \in asked : u <= r
  BY <1>2, SmallestOf
<1>4. p \in asked /\ \A r \in asked : p <= r
  BY <1>3
<1>5. p \in Prios
  <2>1. p \in Nat /\ p <= InitPrio[t]
    BY <1>2, <1>4
  <2> HIDE DEF p
  <2> QED
    BY <1>1, <2>1 DEF Prios
<1> QED
  BY <1>5 DEF thread_get_mutex_priority

LEMMA HeadPriorityRange ==
    ASSUME KernelAssumption, MutexAssumption, NEW x, Sane(x.k), NEW q \in Mutexes
    PROVE  HeadPriority(x, q) \in 0..NoPrio
<1>1. x.k.waitq[q] \in Lists1(Threads) /\ x.k.prio \in [Threads -> Prios] /\ MaxPrio \in Nat
  BY DEF Sane, KernelState, MutexAssumption, KernelAssumption
<1>2. x.k.waitq[q] # <<>> => Head(x.k.waitq[q]) \in Threads
  BY <1>1, ListElems
<1> QED
  BY <1>1, <1>2 DEF HeadPriority, NoPrio, Prios

LEMMA MutexUpdatePriority ==
    ASSUME KernelAssumption, MutexAssumption, NEW x, ChainOk(x), NEW q \in Mutexes
    PROVE  Shuffled(x, mutex_update_priority(x, q))
<1> DEFINE h == HeadPriority(x, q)
           mm == [x.m EXCEPT !.priority[q] = h]
<1>1. x = [k |-> x.k, m |-> x.m] /\ Sane(x.k) /\ x.m \in MutexState
  BY DEF ChainOk
<1>2. h \in 0..NoPrio
  BY <1>1, HeadPriorityRange
<1>3. mutex_update_priority(x, q) = [k |-> x.k, m |-> mm]
  BY <1>1 DEF mutex_update_priority
<1> HIDE DEF h
<1>4. /\ mm \in MutexState
      /\ mm.owner = x.m.owner /\ mm.hold = x.m.hold /\ mm.ceiling = x.m.ceiling
      /\ mm.life = x.m.life /\ mm.taken = x.m.taken /\ mm.pending = x.m.pending
  BY <1>1, <1>2 DEF MutexState
<1> HIDE DEF mm
<1> QED
  BY <1>1, <1>3, <1>4, ShuffledIf

LEMMA PriorityChanged ==
    ASSUME KernelAssumption, MutexAssumption, NEW x, ChainOk(x), NEW t \in Threads, NEW p \in Prios
    PROVE  Shuffled(x, [x EXCEPT !.k = ChangePriority(@, t, p)])
<1> DEFINE r == ChangePriority(x.k, t, p)
<1>1. x = [k |-> x.k, m |-> x.m] /\ Sane(x.k) /\ x.m \in MutexState
  BY DEF ChainOk
<1>2. /\ Sane(r) /\ r.stat = x.k.stat /\ r.waitq = x.k.waitq /\ r.error = x.k.error
      /\ r.cur = x.k.cur /\ r.nest = x.k.nest /\ r.isr = x.k.isr
  BY <1>1, SaneChangePriority
<1>3. [x EXCEPT !.k = ChangePriority(@, t, p)] = [k |-> r, m |-> x.m]
  BY <1>1
<1> HIDE DEF r
<1> QED
  BY <1>1, <1>2, <1>3, ShuffledIf

(* A waiter is taken off its list and put back in its new place. *)
LEMMA SaneUnlink ==
    ASSUME KernelAssumption, NEW kk, Sane(kk), NEW t \in Threads, kk.stat[t] = "suspend"
    PROVE  LET r == rt_list_remove(kk, t)
           IN /\ Sane(r) /\ SameCore(kk, r) /\ r.stat = kk.stat /\ Off(r, t) /\ QueuesLose(kk, r, t)
<1> DEFINE r == rt_list_remove(kk, t)
<1>1. kk \in KernelState /\ ExactBut(kk, {})
  BY DEF Sane
<1>2. /\ r \in KernelState /\ SameCore(kk, r) /\ r.stat = kk.stat /\ r.timers = kk.timers
      /\ \A q \in Queues : Elems(r.waitq[q]) = Elems(kk.waitq[q]) \ {t}
      /\ \A q \in Queues : t \notin Elems(kk.waitq[q]) => r.waitq[q] = kk.waitq[q]
  BY <1>1, ListRemove
<1>3. ExactBut(r, {t})
  BY <1>1, ListRemoveExact
<1> HIDE DEF r
<1>4. ExactBut(r, {}) /\ Off(r, t)
  <2>1. r.stat[t] = "suspend"
    BY <1>2
  <2>2. ExactBut(r, {})
    BY <1>3, <2>1, TakeIn
  <2> QED
    BY <1>3, <2>2 DEF ExactBut
<1>5. Sane(r)
  BY <1>2, <1>4 DEF Sane, OneRuns, SameCore
<1> QED
  BY <1>2, <1>4, <1>5 DEF r, QueuesLose

LEMMA SaneRequeue ==
    ASSUME KernelAssumption, NEW kk, Sane(kk), NEW t \in Threads, kk.stat[t] = "suspend",
           NEW q \in Queues, t \in Elems(kk.waitq[q])
    PROVE  LET r == ipc_list_suspend(rt_list_remove(kk, t), q, t)
           IN /\ Sane(r) /\ SameCore(kk, r) /\ r.stat = kk.stat
              /\ \A z \in Queues : Elems(r.waitq[z]) = Elems(kk.waitq[z])
<1> DEFINE a == rt_list_remove(kk, t)
           s == a.waitq[q]
           after == {i \in DOMAIN s : a.prio[t] < a.prio[s[i]]}
           at == IF QueueFlag[q] = "FIFO" \/ after = {} THEN Len(s) + 1
                 ELSE CHOOSE i \in after : \A j \in after : i <= j
           w == InsertBefore(s, at, t)
           r == [a EXCEPT !.waitq[q] = w]
<1>1. /\ Sane(a) /\ SameCore(kk, a) /\ a.stat = kk.stat /\ Off(a, t) /\ QueuesLose(kk, a, t)
  BY SaneUnlink
<1>2. ipc_list_suspend(a, q, t) = r
  BY <1>1 DEF ipc_list_suspend
<1> HIDE DEF a
<1>3. s \in Lists1(Threads) /\ t \notin Elems(s) /\ Elems(s) = Elems(kk.waitq[q]) \ {t}
  BY <1>1 DEF Sane, KernelState, QueuesLose
<1> HIDE DEF s
<1>4. Len(s) \in Nat /\ DOMAIN s = 1..Len(s)
  BY <1>3, ListElems
<1>5. at \in 1..(Len(s) + 1)
  <2>1. CASE QueueFlag[q] = "FIFO"
    BY <1>4, <2>1
  <2>2. CASE QueueFlag[q] # "FIFO"
    <3>1. after \in SUBSET (DOMAIN s)
      OBVIOUS
    <3>2. at = IF after = {} THEN Len(s) + 1 ELSE CHOOSE i \in after : \A j \in after : i <= j
      BY <2>2
    <3> HIDE DEF after, at
    <3> QED
      BY <1>4, <3>1, <3>2, PlaceOf
  <2> QED
    BY <2>1, <2>2
<1> HIDE DEF at
<1>6. w \in Lists1(Threads) /\ Elems(w) = Elems(s) \cup {t}
  BY <1>3, <1>5, ListInsert
<1> HIDE DEF w
<1>7. /\ Sane(r) /\ SameCore(a, r) /\ r.stat = a.stat
      /\ r.waitq = [a.waitq EXCEPT ![q] = w]
  <2>1. Elems(w) = Elems(a.waitq[q]) \cup {t} /\ a.stat[t] = "suspend"
    BY <1>1, <1>6 DEF s
  <2> QED
    BY <1>1, <1>6, <2>1, SaneJoin
<1> HIDE DEF r
<1>8. ASSUME NEW z \in Queues PROVE Elems(r.waitq[z]) = Elems(kk.waitq[z])
  <2>1. a.waitq \in [Queues -> Lists1(Threads)]
    BY <1>1 DEF Sane, KernelState
  <2>2. CASE z = q
    BY <1>3, <1>6, <1>7, <2>1, <2>2
  <2>3. CASE z # q
    <3>1. t \notin Elems(kk.waitq[z])
      BY <2>3 DEF Sane, ExactBut, QueuesApart
    <3> QED
      BY <1>1, <1>7, <2>1, <2>3, <3>1 DEF QueuesLose
  <2> QED
    BY <2>2, <2>3
<1>9. Sane(r) /\ SameCore(kk, r) /\ r.stat = kk.stat
  BY <1>1, <1>7 DEF SameCore
<1> QED
  BY <1>2, <1>8, <1>9 DEF a

LEMMA Requeued ==
    ASSUME KernelAssumption, MutexAssumption, NEW x, ChainOk(x), NEW t \in Suspended(x.k)
    PROVE  LET q == x.m.pending[t]
           IN Shuffled(x, Requeue(x, q, t)) /\ q \in Mutexes /\ x.m.owner[q] \in Threads
<1> DEFINE q == x.m.pending[t]
           r == ipc_list_suspend(rt_list_remove(x.k, t), q, t)
           y == [k |-> r, m |-> x.m]
<1>1. x = [k |-> x.k, m |-> x.m] /\ Sane(x.k) /\ x.m \in MutexState
  BY DEF ChainOk
<1>2. /\ q \in Mutexes /\ q \in Queues /\ t \in Elems(x.k.waitq[q]) /\ x.m.owner[q] \in Threads
      /\ t \in Threads /\ x.k.stat[t] = "suspend"
  BY DEF ChainOk, MutexAssumption, Suspended
<1> HIDE DEF q
<1>3. /\ Sane(r) /\ SameCore(x.k, r) /\ r.stat = x.k.stat
      /\ \A z \in Queues : Elems(r.waitq[z]) = Elems(x.k.waitq[z])
  BY <1>1, <1>2, SaneRequeue
<1>4. Requeue(x, q, t) = mutex_update_priority(y, q)
  BY <1>1 DEF Requeue
<1> HIDE DEF r
<1>5. Shuffled(x, y)
  BY <1>1, <1>3, ShuffledIf DEF SameCore
<1>6. Shuffled(y, mutex_update_priority(y, q))
  BY <1>2, <1>5, MutexUpdatePriority DEF Shuffled
<1>7. Shuffled(x, Requeue(x, q, t))
  BY <1>4, <1>5, <1>6, ShuffledTwice
<1> QED
  BY <1>2, <1>7 DEF q

(***************************************************************************)
(* Following the chain of owners                                           *)
(***************************************************************************)
Follows(x, s) == Shuffled(x, s.x) /\ s.t \in Threads /\ s.p \in Prios

LEMMA DeeperFollows ==
    ASSUME KernelAssumption, MutexAssumption, NEW x, NEW s, Follows(x, s)
    PROVE  Follows(x, Deeper(s))
<1> DEFINE a == s.x
           t == s.t
           p == s.p
           q == a.m.pending[t]
           b == [a EXCEPT !.k = ChangePriority(@, t, p)]
           c == Requeue(b, q, t)
           o == a.m.owner[q]
<1>1. Shuffled(x, a) /\ ChainOk(a) /\ t \in Threads /\ p \in Prios
  BY DEF Follows, Shuffled
<1>2. Shuffled(a, b)
  BY <1>1, PriorityChanged
<1> HIDE DEF a, t, p, b
<1>3. Shuffled(x, b)
  BY <1>1, <1>2, ShuffledTwice
<1>4. CASE s.more /\ a.k.stat[t] = "suspend" /\ IsMutex(a, q)
  <2>1. Deeper(s) = ToDo(c, o, thread_get_mutex_priority(c, o), thread_get_mutex_priority(c, o) # c.k.prio[o])
    BY <1>4 DEF Deeper, UpdateOne, Owner, ThenOwner, a, t, p, b
  <2>2. ChainOk(b) /\ t \in Suspended(b.k) /\ b.m.pending[t] = q /\ b.m.owner = a.m.owner
    BY <1>1, <1>2, <1>4 DEF Shuffled, Suspended
  <2>3. Shuffled(b, c) /\ q \in Mutexes /\ o \in Threads
    BY <2>2, Requeued
  <2> HIDE DEF c, o, q
  <2>4. Shuffled(x, c) /\ c.m \in MutexState
    BY <1>3, <2>3, ShuffledTwice DEF Shuffled, ChainOk
  <2>5. thread_get_mutex_priority(c, o) \in Prios
    BY <2>3, <2>4, AskedPriority
  <2> QED
    BY <2>1, <2>3, <2>4, <2>5 DEF Follows, ToDo
<1>5. CASE s.more /\ ~(a.k.stat[t] = "suspend" /\ IsMutex(a, q))
  <2>1. Deeper(s) = ToDo(b, t, p, FALSE)
    BY <1>5 DEF Deeper, UpdateOne, a, t, p, b
  <2> QED
    BY <1>1, <1>3, <2>1 DEF Follows, ToDo
<1>6. CASE ~s.more
  BY <1>6 DEF Deeper
<1> QED
  BY <1>4, <1>5, <1>6

IsOwnerChain(f, s, n) == f = [i \in 0..n |-> IF i = 0 THEN s ELSE Deeper(f[i - 1])]

(* The recursive function of thread_update_priority is a function, however *)
(* many levels it has.                                                     *)
LEMMA OwnerChain ==
    ASSUME NEW s, NEW n \in Nat
    PROVE  \E f : IsOwnerChain(f, s, n)
<1> DEFINE Step(x) == Deeper(x)
           Chain(f, j) == f = [i \in 0..j |-> IF i = 0 THEN s ELSE Step(f[i - 1])]
           T == {j \in Nat : ~ \E f : Chain(f, j)}
<1> SUFFICES \E f : Chain(f, n)
  BY DEF IsOwnerChain
<1> HIDE DEF Step
<1>1. SUFFICES T = {}
  OBVIOUS
<1>2. SUFFICES ASSUME T # {} PROVE FALSE
  OBVIOUS
<1>3. PICK j \in T : \A y \in T : j <= y
  BY <1>2, SmallestOf
<1>4. j # 0
  <2>1. Chain([i \in 0..0 |-> s], 0)
    OBVIOUS
  <2> QED
    BY <1>3, <2>1
<1>5. j - 1 \in Nat /\ j - 1 \notin T
  BY <1>3, <1>4
<1>6. PICK f : Chain(f, j - 1)
  BY <1>5
<1> DEFINE g == [i \in 0..j |-> IF i = j THEN Step(f[j - 1]) ELSE f[i]]
<1>7. \A i \in 0..j : g[i] = IF i = 0 THEN s ELSE Step(g[i - 1])
  <2> SUFFICES ASSUME NEW i \in 0..j PROVE g[i] = IF i = 0 THEN s ELSE Step(g[i - 1])
    OBVIOUS
  <2>1. j \in Nat /\ j >= 1
    BY <1>3, <1>4
  <2>2. CASE i = j
    BY <2>1, <2>2, <1>4
  <2>3. CASE i # j
    <3>1. i \in 0..(j - 1)
      BY <2>1, <2>3
    <3>2. f[i] = IF i = 0 THEN s ELSE Step(f[i - 1])
      BY <1>6, <3>1
    <3>3. i # 0 => i - 1 \in 0..j /\ i - 1 # j
      BY <2>1, <3>1
    <3> QED
      BY <2>3, <3>2, <3>3
  <2> QED
    BY <2>2, <2>3
<1>8. Chain(g, j)
  <2>1. g = [i \in 0..j |-> g[i]]
    OBVIOUS
  <2> HIDE DEF g
  <2> QED
    BY <1>7, <2>1
<1> QED
  BY <1>3, <1>8

(* Inheritance changes priorities and the order of lists, nothing else. *)
LEMMA UpdateShuffles ==
    ASSUME KernelAssumption, MutexAssumption, NEW x, ChainOk(x), NEW t \in Threads, NEW p \in Prios
    PROVE  Shuffled(x, thread_update_priority(x, t, p))
<1> DEFINE s == ToDo(x, t, p, TRUE)
           f == CHOOSE g : IsOwnerChain(g, s, ChainBound)
           T == {i \in 0..ChainBound : ~Follows(x, f[i])}
<1>1. ChainBound \in Nat
  <2>1. Cardinality(Threads) \in Nat /\ MaxPrio \in Nat
    BY FS_CardinalityType DEF MutexAssumption, KernelAssumption
  <2> QED
    BY <2>1 DEF ChainBound
<1>2. thread_update_priority(x, t, p) = f[ChainBound].x
  BY DEF thread_update_priority, IsOwnerChain
<1>3. Follows(x, s)
  BY ShuffledSelf DEF Follows, ToDo
<1> HIDE DEF s
<1>4. f = [i \in 0..ChainBound |-> IF i = 0 THEN s ELSE Deeper(f[i - 1])]
  <2>1. IsOwnerChain(f, s, ChainBound)
    BY <1>1, OwnerChain
  <2> QED
    BY <2>1 DEF IsOwnerChain
<1> HIDE DEF f
<1>5. T = {}
  <2> SUFFICES ASSUME T # {} PROVE FALSE
    OBVIOUS
  <2>1. T \subseteq Nat
    BY <1>1
  <2>2. PICK i \in T : \A y \in T : i <= y
    BY <2>1, SmallestOf
  <2>3. f[0] = s
    BY <1>1, <1>4
  <2>4. i # 0
    BY <1>3, <2>2, <2>3
  <2>5. i - 1 \in 0..ChainBound /\ i - 1 \notin T /\ i \in 0..ChainBound
    BY <1>1, <2>2, <2>4
  <2>6. Follows(x, f[i - 1])
    BY <2>5
  <2>7. f[i] = Deeper(f[i - 1])
    BY <1>4, <2>4, <2>5
  <2>8. Follows(x, f[i])
    BY <2>6, <2>7, DeeperFollows
  <2> QED
    BY <2>2, <2>8
<1>6. Follows(x, f[ChainBound])
  BY <1>1, <1>5
<1> QED
  BY <1>2, <1>6 DEF Follows

LEMMA RefreshShuffles ==
    ASSUME KernelAssumption, MutexAssumption, NEW x, ChainOk(x), NEW q \in Mutexes,
           x.m.owner[q] \in Threads
    PROVE  Shuffled(x, RefreshOwner(x, q))
<1> DEFINE o == x.m.owner[q]
           p == thread_get_mutex_priority(x, o)
<1>1. p \in Prios
  BY AskedPriority DEF ChainOk
<1>2. RefreshOwner(x, q) = IF p = x.k.prio[o] THEN x ELSE thread_update_priority(x, o, p)
  BY DEF RefreshOwner, Refresh
<1> HIDE DEF p, o
<1>3. Shuffled(x, x) /\ Shuffled(x, thread_update_priority(x, o, p))
  BY <1>1, ShuffledSelf, UpdateShuffles DEF o
<1> QED
  BY <1>2, <1>3

LEMMA GiveUpShuffles ==
    ASSUME KernelAssumption, MutexAssumption, NEW x, ChainOk(x), NEW q \in Mutexes, NEW t \in Threads,
           x.m.owner[q] \in Threads
    PROVE  Shuffled(x, GiveUp(x, q, t))
<1> DEFINE y == mutex_update_priority(x, q)
<1>1. Shuffled(x, y)
  BY MutexUpdatePriority
<1>2. GiveUp(x, q, t) = IF x.k.prio[x.m.owner[q]] = x.k.prio[t] THEN RefreshOwner(y, q) ELSE y
  BY DEF GiveUp
<1> HIDE DEF y
<1>3. Shuffled(y, RefreshOwner(y, q))
  BY <1>1, RefreshShuffles DEF Shuffled
<1>4. Shuffled(x, RefreshOwner(y, q))
  BY <1>1, <1>3, ShuffledTwice
<1> QED
  BY <1>1, <1>2, <1>4

----------------------------------------------------------------------------
(* A mutex that is alive is on the taken list of its owner only, is held   *)
(* exactly while it is owned, and its owner does not wait for it.          *)
OwnerBooks(x) ==
    \A q \in Mutexes : x.m.life[q] = "alive" =>
        /\ \A t \in Threads : q \in x.m.taken[t] <=> x.m.owner[q] = t
        /\ x.m.hold[q] > 0 <=> x.m.owner[q] # NoThread
        /\ x.m.owner[q] \notin Elems(x.k.waitq[q])

(* Who is suspended is so in rt_mutex_take of its pending mutex and has no *)
(* error yet; who is not, and has no error, was given the mutex.           *)
TakerBooks(x, c) ==
    /\ \A t \in Suspended(x.k) : c[t].op = "lock" /\ c[t].obj = x.m.pending[t] /\ x.k.error[t] = "EOK"
    /\ \A t \in Threads : c[t].op = "lock" =>
          /\ c[t].obj \in Mutexes
          /\ (t \notin Suspended(x.k) /\ x.k.error[t] = "EOK") => x.m.owner[c[t].obj] = t

LockCalls == CallsFit({"none", "lock"}, {"none"} \cup Mutexes)

MutexInv ==
    /\ ChainOk(State) /\ OwnerBooks(State) /\ TakerBooks(State, call)
    /\ k.nest = 0 /\ LockCalls

LEMMA ShuffledSuspended ==
    ASSUME NEW x, NEW y, Shuffled(x, y)
    PROVE  Suspended(y.k) = Suspended(x.k)
BY DEF Shuffled, Suspended

LEMMA BooksShuffled ==
    ASSUME MutexAssumption, NEW x, NEW y, NEW c, Shuffled(x, y), OwnerBooks(x), TakerBooks(x, c)
    PROVE  ChainOk(y) /\ OwnerBooks(y) /\ TakerBooks(y, c)
<1>1. Suspended(y.k) = Suspended(x.k)
  BY ShuffledSuspended
<1>2. OwnerBooks(y)
  BY DEF Shuffled, OwnerBooks, MutexAssumption
<1>3. TakerBooks(y, c)
  BY <1>1 DEF Shuffled, TakerBooks
<1> QED
  BY <1>2, <1>3 DEF Shuffled

LEMMA StepTo ==
    ASSUME NEW y, Become(y), ChainOk(y), OwnerBooks(y), TakerBooks(y, call'), y.k.nest = 0, LockCalls'
    PROVE  MutexInv'
<1>1. State' = y
  BY DEF State, Become, ChainOk
<1>2. k'.nest = 0
  BY DEF Become
<1> QED
  BY <1>1, <1>2 DEF MutexInv

(* what the invariant says of the state and of the thread calling *)
LEMMA InvMeans ==
    ASSUME MutexInv
    PROVE  /\ Sane(k) /\ m \in MutexState /\ State.k = k /\ State.m = m
           /\ Suspended(k) = {t \in Threads : k.stat[t] = "suspend"}
           /\ \A t \in Suspended(k) : m.pending[t] \in Mutexes /\ t \in Elems(k.waitq[m.pending[t]])
           /\ \A q \in Mutexes : Elems(k.waitq[q]) # {} => m.owner[q] \in Threads
           /\ \A t \in Threads : (t = k.cur /\ call[t].pc = "user") => t \notin Suspended(k) /\ call[t].op = "none"
<1>1. State.k = k /\ State.m = m
  BY DEF State
<1> QED
  BY <1>1 DEF MutexInv, ChainOk, Suspended, LockCalls, CallsFit

(* A step of a thread in its own code that wakes nobody, blocks nobody,    *)
(* and takes no mutex from anybody.                                        *)
LEMMA Undisturbed ==
    ASSUME MutexAssumption, MutexInv, NEW t \in Threads, call[t].op = "none",
           NEW kk, Sane(kk), NEW mm \in MutexState,
           Suspended(kk) = Suspended(k), t \notin Suspended(k),
           \A q \in Queues : Elems(kk.waitq[q]) = Elems(k.waitq[q]),
           \A u \in Threads \ {t} : kk.error[u] = k.error[u],
           mm.pending = m.pending,
           \A q \in Mutexes : mm.owner[q] = m.owner[q] \/ (m.owner[q] \notin Threads /\ mm.owner[q] \in Threads)
    PROVE  ChainOk([k |-> kk, m |-> mm]) /\ TakerBooks([k |-> kk, m |-> mm], call)
<1> DEFINE y == [k |-> kk, m |-> mm]
<1>1. y.k = kk /\ y.m = mm /\ y = [k |-> y.k, m |-> y.m]
  OBVIOUS
<1> HIDE DEF y
<1>2. /\ State.k = k /\ State.m = m /\ Suspended(k) \subseteq Threads
      /\ \A u \in Suspended(k) : m.pending[u] \in Mutexes /\ u \in Elems(k.waitq[m.pending[u]])
      /\ \A q \in Mutexes : Elems(k.waitq[q]) # {} => m.owner[q] \in Threads
  BY InvMeans
<1>3. ChainOk(y)
  BY <1>1, <1>2 DEF ChainOk, MutexAssumption
<1>4. TakerBooks(State, call)
  BY DEF MutexInv
<1>5. \A u \in Threads : call[u].op = "lock" => u # t
  OBVIOUS
<1>6. TakerBooks(y, call)
  BY <1>1, <1>2, <1>4, <1>5 DEF TakerBooks
<1> QED
  BY <1>3, <1>6 DEF y

LEMMA MutexInvInit ==
    ASSUME KernelAssumption, MutexAssumption, MutexInit
    PROVE  MutexInv
<1>1. /\ Sane(k) /\ Suspended(k) = {} /\ k.nest = 0 /\ State.k = k /\ State.m = m
  BY SaneInit DEF MutexInit, State
<1>2. \A q \in Queues : Elems(k.waitq[q]) = {}
  <2>1. k.waitq = [q \in Queues |-> <<>>]
    BY DEF MutexInit, KernelInit
  <2> QED
    BY <2>1 DEF Elems
<1>3. m \in MutexState
  BY DEF MutexInit, FreeMutexes, MutexState, MutexAssumption, KernelAssumption, NoPrio
<1>4. ChainOk(State)
  BY <1>1, <1>2, <1>3 DEF ChainOk, State, MutexAssumption
<1>5. /\ m.owner = [q \in Mutexes |-> NoThread] /\ m.hold = [q \in Mutexes |-> 0]
      /\ m.taken = [t \in Threads |-> {}]
  BY DEF MutexInit, FreeMutexes
<1>6. OwnerBooks(State)
  BY <1>1, <1>2, <1>5 DEF OwnerBooks, MutexAssumption
<1>7. \A t \in Threads : call[t].op = "none"
  BY DEF MutexInit, KernelInit, UserCode
<1>8. TakerBooks(State, call)
  BY <1>1, <1>7 DEF TakerBooks
<1>9. LockCalls
  BY CallsFitInit DEF LockCalls, MutexInit
<1> QED
  BY <1>1, <1>4, <1>6, <1>8, <1>9 DEF MutexInv

(* The waits of the threads in U end with an error, and no mutex changes   *)
(* its owner.                                                              *)
LEMMA WaitsEnd ==
    ASSUME MutexAssumption, MutexInv, NEW U, NEW e, e # "EOK",
           CallsKept({"none", "lock"}, {"none"} \cup Mutexes),
           Sane(k'), Suspended(k') = Suspended(k) \ U,
           \A q \in Queues : Elems(k'.waitq[q]) = Elems(k.waitq[q]) \ U,
           \A t \in Threads : k'.error[t] = IF t \in U THEN e ELSE k.error[t],
           m' \in MutexState, m'.owner = m.owner, m'.pending = m.pending
    PROVE  ChainOk(State)' /\ TakerBooks(State, call)'
<1>1. /\ State.k = k /\ State.m = m /\ Suspended(k) \subseteq Threads
      /\ \A u \in Suspended(k) : m.pending[u] \in Mutexes /\ u \in Elems(k.waitq[m.pending[u]])
      /\ \A q \in Mutexes : Elems(k.waitq[q]) # {} => m.owner[q] \in Threads
  BY InvMeans
<1>2. /\ (State').k = k' /\ (State').m = m' /\ State' = [k |-> (State').k, m |-> (State').m]
  BY DEF State
<1>3. ChainOk(State')
  BY <1>1, <1>2 DEF ChainOk, MutexAssumption
<1>4. TakerBooks(State, call)
  BY DEF MutexInv
<1>5. \A t \in Threads : call'[t].op = call[t].op /\ (call[t].op = "lock" => call'[t].obj = call[t].obj)
  BY DEF CallsKept
<1>6. TakerBooks(State', call')
  BY <1>1, <1>2, <1>4, <1>5 DEF TakerBooks
<1> QED
  BY <1>3, <1>6

LEMMA KernelStepsKeep ==
    ASSUME KernelAssumption, MutexAssumption, MutexInv, MutexKernelSteps
    PROVE  MutexInv'
<1> DEFINE ops == {"none", "lock"}
           objs == {"none"} \cup Mutexes
<1>1. CommonStep /\ m' = m
  BY DEF MutexKernelSteps, CommonStep
<1>2. Sane(k) /\ k.nest = 0 /\ CallsFit(ops, objs) /\ m \in MutexState /\ State.k = k /\ State.m = m
  BY InvMeans DEF MutexInv, LockCalls
<1>3. /\ CallsKept(ops, objs)
      /\ Quiet(k, k') \/ \E t \in Suspended(k) : TimedOut(k, k', t)
  BY <1>1, <1>2, CommonStepEffect
<1>4. /\ (State').k = k' /\ (State').m = m
  BY <1>1 DEF State
<1>5. ASSUME NEW U, Sane(k'), Suspended(k') = Suspended(k) \ U, k'.nest = k.nest,
             \A q \in Queues : Elems(k'.waitq[q]) = Elems(k.waitq[q]) \ U,
             \A t \in Threads : k'.error[t] = IF t \in U THEN "ETIMEOUT" ELSE k.error[t]
      PROVE  MutexInv'
  <2>1. ChainOk(State)' /\ TakerBooks(State, call)'
    BY <1>1, <1>2, <1>3, <1>5, WaitsEnd
  <2>2. OwnerBooks(State')
    BY <1>2, <1>4, <1>5 DEF MutexInv, OwnerBooks, MutexAssumption
  <2> QED
    BY <1>2, <1>3, <1>5, <2>1, <2>2 DEF MutexInv, LockCalls, CallsKept
<1>6. CASE Quiet(k, k')
  <2>1. PICK U : U = {}
    OBVIOUS
  <2>2. /\ Sane(k') /\ k'.nest = k.nest /\ Suspended(k') = Suspended(k) \ U
        /\ \A q \in Queues : Elems(k'.waitq[q]) = Elems(k.waitq[q]) \ U
        /\ \A t \in Threads : k'.error[t] = IF t \in U THEN "ETIMEOUT" ELSE k.error[t]
    BY <1>6, <2>1 DEF Quiet
  <2> HIDE <2>1
  <2> QED
    BY <1>5, <2>2
<1>7. ASSUME NEW t \in Suspended(k), TimedOut(k, k', t) PROVE MutexInv'
  <2>1. /\ Sane(k') /\ k'.nest = k.nest /\ k'.error = [k.error EXCEPT ![t] = "ETIMEOUT"]
        /\ Suspended(k') = Suspended(k) \ {t}
        /\ \A q \in Queues : Elems(k'.waitq[q]) = Elems(k.waitq[q]) \ {t}
    BY <1>7 DEF TimedOut, QueuesLose
  <2>2. k.error \in [Threads -> Errors]
    BY <1>2 DEF Sane, KernelState
  <2>3. \A u \in Threads : k'.error[u] = IF u \in {t} THEN "ETIMEOUT" ELSE k.error[u]
    BY <2>1, <2>2
  <2> QED
    BY <1>5, <2>1, <2>3
<1> QED
  BY <1>3, <1>6, <1>7

(***************************************************************************)
(* rt_mutex_take                                                           *)
(***************************************************************************)
(* No thread changes its state, and only the errors of t, a thread in its  *)
(* own code.                                                               *)
LEMMA ErrorSet ==
    ASSUME MutexInv, NEW t \in Threads, t = k.cur, call[t].pc = "user", NEW e \in Errors
    PROVE  LET kk == [k EXCEPT !.error[t] = e]
           IN /\ Sane(kk) /\ kk.stat = k.stat /\ kk.waitq = k.waitq /\ kk.cur = k.cur
              /\ kk.nest = 0 /\ kk.prio = k.prio /\ Suspended(kk) = Suspended(k)
              /\ kk.error = [k.error EXCEPT ![t] = e]
              /\ \A u \in Threads \ {t} : kk.error[u] = k.error[u]
              /\ call[t].op = "none" /\ t \notin Suspended(k)
<1> DEFINE kk == [k EXCEPT !.error[t] = e]
<1>1. Sane(k) /\ k.nest = 0 /\ call[t].op = "none" /\ t \notin Suspended(k)
  BY InvMeans DEF MutexInv
<1>2. /\ Sane(kk) /\ kk.error = [k.error EXCEPT ![t] = e] /\ kk.cur = k.cur /\ kk.nest = k.nest
      /\ kk.prio = k.prio /\ kk.stat = k.stat /\ kk.waitq = k.waitq
  BY <1>1, SaneError
<1> HIDE DEF kk
<1>3. Suspended(kk) = Suspended(k)
  BY <1>2 DEF Suspended
<1>4. \A u \in Threads \ {t} : kk.error[u] = k.error[u]
  BY <1>2
<1> QED
  BY <1>1, <1>2, <1>3, <1>4 DEF kk

LEMMA TakeAgainKeeps ==
    ASSUME KernelAssumption, MutexAssumption, MutexInv, NEW t \in Threads, NEW q \in Mutexes, MutexTakeAgain(t, q)
    PROVE  MutexInv'
<1> DEFINE kk == [k EXCEPT !.error[t] = "EOK"]
           mm == [m EXCEPT !.hold[q] = @ + 1]
           y == [k |-> kk, m |-> mm]
<1>1. /\ t = k.cur /\ call[t].pc = "user" /\ m.owner[q] = t /\ m.hold[q] < MaxHold
      /\ k' = kk /\ m' = mm /\ UNCHANGED call
  BY DEF MutexTakeAgain, MayTake, Running
<1>2. /\ Sane(kk) /\ kk.stat = k.stat /\ kk.waitq = k.waitq /\ kk.cur = k.cur /\ kk.nest = 0
      /\ Suspended(kk) = Suspended(k)
      /\ \A u \in Threads \ {t} : kk.error[u] = k.error[u]
      /\ call[t].op = "none" /\ t \notin Suspended(k)
  BY <1>1, ErrorSet DEF Errors
<1> HIDE DEF kk
<1>3. m \in MutexState /\ State.k = k /\ State.m = m
  BY InvMeans
<1>4. /\ mm \in MutexState /\ mm.hold = [m.hold EXCEPT ![q] = @ + 1] /\ m.hold \in [Mutexes -> Nat]
      /\ mm.owner = m.owner /\ mm.life = m.life /\ mm.taken = m.taken /\ mm.pending = m.pending
  <2> DEFINE h == m.hold[q] + 1
  <2>1. m.hold[q] \in 0..MaxHold /\ MaxHold \in Nat
    BY <1>3 DEF MutexState, MutexAssumption
  <2>2. h \in 0..MaxHold
    BY <1>1, <2>1
  <2>3. mm = [m EXCEPT !.hold[q] = h]
    OBVIOUS
  <2> HIDE DEF h
  <2>4. /\ mm \in MutexState /\ mm.hold = [m.hold EXCEPT ![q] = h] /\ m.hold \in [Mutexes -> 0..MaxHold]
        /\ mm.owner = m.owner /\ mm.life = m.life /\ mm.taken = m.taken /\ mm.pending = m.pending
    BY <1>3, <2>2, <2>3, SMTT(20) DEF MutexState
  <2>5. m.hold \in [Mutexes -> Nat]
    BY <2>1, <2>4
  <2> QED
    BY <2>4, <2>5 DEF h
<1> HIDE DEF mm
<1>5. ChainOk(y) /\ TakerBooks(y, call)
  BY <1>2, <1>4, Undisturbed
<1>6. y.k = kk /\ y.m = mm
  OBVIOUS
<1> HIDE DEF y
<1>7. OwnerBooks(y)
  BY <1>1, <1>2, <1>3, <1>4, <1>6 DEF MutexInv, OwnerBooks, MutexAssumption
<1>8. LockCalls'
  <2>1. k'.cur = k.cur /\ k'.stat[k'.cur] = k.stat[k.cur]
    BY <1>1, <1>2
  <2> QED
    BY <1>1, <2>1, CallsSame DEF MutexInv, LockCalls, CallsKept
<1> QED
  BY <1>1, <1>2, <1>5, <1>6, <1>7, <1>8, StepTo DEF Become

LEMMA MutexTryTakeKeeps ==
    ASSUME KernelAssumption, MutexAssumption, MutexInv, NEW t \in Threads, NEW q \in Mutexes, MutexTryTakeFails(t, q)
    PROVE  MutexInv'
<1> DEFINE kk == [k EXCEPT !.error[t] = "ETIMEOUT"]
           y == [k |-> kk, m |-> m]
<1>1. t = k.cur /\ call[t].pc = "user" /\ k' = kk /\ m' = m /\ UNCHANGED call
  BY DEF MutexTryTakeFails, MayTake, Running
<1>2. /\ Sane(kk) /\ kk.stat = k.stat /\ kk.waitq = k.waitq /\ kk.cur = k.cur /\ kk.nest = 0
      /\ Suspended(kk) = Suspended(k)
      /\ \A u \in Threads \ {t} : kk.error[u] = k.error[u]
      /\ call[t].op = "none" /\ t \notin Suspended(k)
  BY <1>1, ErrorSet DEF Errors
<1> HIDE DEF kk
<1>3. m \in MutexState /\ State.k = k /\ State.m = m
  BY InvMeans
<1>5. ChainOk(y) /\ TakerBooks(y, call)
  BY <1>2, <1>3, Undisturbed
<1>6. y.k = kk /\ y.m = m
  OBVIOUS
<1> HIDE DEF y
<1>7. OwnerBooks(y)
  BY <1>2, <1>3, <1>6 DEF MutexInv, OwnerBooks, MutexAssumption
<1>8. LockCalls'
  <2>1. k'.cur = k.cur /\ k'.stat[k'.cur] = k.stat[k.cur]
    BY <1>1, <1>2
  <2> QED
    BY <1>1, <2>1, CallsSame DEF MutexInv, LockCalls, CallsKept
<1> QED
  BY <1>1, <1>2, <1>5, <1>6, <1>7, <1>8, StepTo DEF Become

(* The mutex is on the taken list only after the priority of the taker has *)
(* been raised to the ceiling.                                             *)
LEMMA TakeFreeKeeps ==
    ASSUME KernelAssumption, MutexAssumption, MutexInv, NEW t \in Threads, NEW q \in Mutexes, MutexTakeFree(t, q)
    PROVE  MutexInv'
<1> DEFINE kk == [k EXCEPT !.error[t] = "EOK"]
           mm == [m EXCEPT !.owner[q] = t, !.priority[q] = NoPrio, !.hold[q] = 1]
           x == [k |-> kk, m |-> mm]
           y == IF m.ceiling[q] < k.prio[t] THEN thread_update_priority(x, t, m.ceiling[q]) ELSE x
           z == [y EXCEPT !.m.taken[t] = @ \cup {q}]
<1>1. /\ t = k.cur /\ call[t].pc = "user" /\ m.owner[q] = NoThread /\ m.life[q] = "alive"
      /\ Become(z) /\ UNCHANGED call
  BY DEF MutexTakeFree, MayTake, Running
<1>2. /\ Sane(kk) /\ kk.stat = k.stat /\ kk.waitq = k.waitq /\ kk.cur = k.cur /\ kk.nest = 0
      /\ Suspended(kk) = Suspended(k)
      /\ \A u \in Threads \ {t} : kk.error[u] = k.error[u]
      /\ call[t].op = "none" /\ t \notin Suspended(k)
  BY <1>1, ErrorSet DEF Errors
<1> HIDE DEF kk
<1>3. /\ m \in MutexState /\ State.k = k /\ State.m = m /\ k.prio[t] \in Prios
      /\ \A r \in Mutexes : Elems(k.waitq[r]) # {} => m.owner[r] \in Threads
  BY InvMeans DEF Sane, KernelState
<1>4. /\ mm \in MutexState /\ mm.hold = [m.hold EXCEPT ![q] = 1]
      /\ mm.owner = [m.owner EXCEPT ![q] = t] /\ mm.life = m.life /\ mm.taken = m.taken /\ mm.pending = m.pending
  <2> DEFINE o == [m.owner EXCEPT ![q] = t]
             p == [m.priority EXCEPT ![q] = NoPrio]
             h == [m.hold EXCEPT ![q] = 1]
  <2>1. NoPrio \in 0..NoPrio /\ 1 \in 0..MaxHold
    BY DEF KernelAssumption, MutexAssumption, NoPrio
  <2>2. /\ o \in [Mutexes -> Threads \cup {NoThread}] /\ p \in [Mutexes -> 0..NoPrio]
        /\ h \in [Mutexes -> 0..MaxHold]
    BY <1>3, <2>1 DEF MutexState
  <2>3. mm = [m EXCEPT !.owner = o, !.priority = p, !.hold = h]
    BY <1>3 DEF MutexState
  <2> HIDE DEF o, p, h, mm
  <2>4. /\ mm \in MutexState /\ mm.owner = o /\ mm.hold = h
        /\ mm.life = m.life /\ mm.taken = m.taken /\ mm.pending = m.pending
    BY <1>3, <2>2, <2>3 DEF MutexState
  <2> QED
    BY <2>4 DEF o, h
<1>5. /\ m.owner \in [Mutexes -> Threads \cup {NoThread}] /\ m.taken \in [Threads -> SUBSET Mutexes]
      /\ m.hold \in [Mutexes -> 0..MaxHold] /\ NoThread \notin Threads
      /\ m.ceiling[q] \in 0..MaxPrio /\ MaxPrio \in Nat
  BY <1>3 DEF MutexState, MutexAssumption, NoPrio, KernelAssumption
<1> HIDE DEF mm
<1>6. ChainOk(x) /\ TakerBooks(x, call)
  <2>1. \A r \in Mutexes : mm.owner[r] = m.owner[r] \/ (m.owner[r] \notin Threads /\ mm.owner[r] \in Threads)
    BY <1>1, <1>4, <1>5
  <2> QED
    BY <1>2, <1>4, <2>1, Undisturbed
<1>7. x.k = kk /\ x.m = mm
  OBVIOUS
<1> HIDE DEF x
<1>8. Shuffled(x, y)
  <2>1. CASE m.ceiling[q] < k.prio[t]
    <3>1. m.ceiling[q] \in Prios
      BY <1>3, <1>5, <2>1 DEF Prios
    <3> QED
      BY <1>6, <2>1, <3>1, UpdateShuffles
  <2>2. CASE ~(m.ceiling[q] < k.prio[t])
    BY <1>6, <2>2, ShuffledSelf
  <2> QED
    BY <2>1, <2>2
<1> HIDE DEF y
<1>9. /\ ChainOk(y) /\ TakerBooks(y, call) /\ y.k.cur = k.cur /\ y.k.nest = 0 /\ y.k.stat = k.stat
      /\ y.m.owner = mm.owner /\ y.m.hold = mm.hold /\ y.m.life = m.life /\ y.m.taken = m.taken
      /\ \A r \in Queues : Elems(y.k.waitq[r]) = Elems(k.waitq[r])
  <2>1. Suspended(y.k) = Suspended(x.k)
    BY <1>8, ShuffledSuspended
  <2>2. TakerBooks(y, call)
    BY <1>6, <1>8, <2>1 DEF Shuffled, TakerBooks
  <2> QED
    BY <1>2, <1>4, <1>7, <1>8, <2>2 DEF Shuffled
<1>10. /\ z.k = y.k /\ z = [k |-> z.k, m |-> z.m] /\ z.m \in MutexState
       /\ z.m.owner = y.m.owner /\ z.m.hold = y.m.hold /\ z.m.life = y.m.life
       /\ z.m.pending = y.m.pending /\ z.m.taken = [m.taken EXCEPT ![t] = @ \cup {q}]
  <2> DEFINE n == [y.m EXCEPT !.taken[t] = @ \cup {q}]
  <2>1. y = [k |-> y.k, m |-> y.m] /\ y.m \in MutexState /\ y.m.taken = m.taken
    BY <1>9 DEF ChainOk
  <2>2. z = [k |-> y.k, m |-> n]
    BY <2>1
  <2>3. /\ n \in MutexState /\ n.owner = y.m.owner /\ n.hold = y.m.hold /\ n.life = y.m.life
        /\ n.pending = y.m.pending /\ n.taken = [m.taken EXCEPT ![t] = @ \cup {q}]
    BY <2>1 DEF MutexState
  <2> HIDE DEF n, z
  <2> QED
    BY <2>2, <2>3
<1> HIDE DEF z
<1>11. ChainOk(z) /\ TakerBooks(z, call)
  BY <1>9, <1>10 DEF ChainOk, TakerBooks
<1>12. OwnerBooks(z)
  <2> SUFFICES ASSUME NEW r \in Mutexes, m.life[r] = "alive"
               PROVE  /\ \A u \in Threads : r \in z.m.taken[u] <=> z.m.owner[r] = u
                      /\ z.m.hold[r] > 0 <=> z.m.owner[r] # NoThread
                      /\ z.m.owner[r] \notin Elems(z.k.waitq[r])
    BY <1>9, <1>10 DEF OwnerBooks
  <2>1. /\ \A u \in Threads : r \in m.taken[u] <=> m.owner[r] = u
        /\ m.hold[r] > 0 <=> m.owner[r] # NoThread
        /\ m.owner[r] \notin Elems(k.waitq[r])
    BY <1>3 DEF MutexInv, OwnerBooks
  <2>2. z.m.owner = [m.owner EXCEPT ![q] = t] /\ z.m.hold = [m.hold EXCEPT ![q] = 1]
        /\ Elems(z.k.waitq[r]) = Elems(k.waitq[r])
    BY <1>4, <1>9, <1>10 DEF MutexAssumption
  <2>3. CASE r = q
    <3>1. Elems(k.waitq[q]) = {}
      BY <1>1, <1>3, <1>5
    <3>2. \A u \in Threads : q \notin m.taken[u]
      BY <1>1, <1>5, <2>1, <2>3
    <3>3. \A u \in Threads : q \in z.m.taken[u] <=> u = t
      BY <1>5, <1>10, <3>2
    <3> QED
      BY <1>5, <2>2, <2>3, <3>1, <3>3
  <2>4. CASE r # q
    <3>1. \A u \in Threads : r \in z.m.taken[u] <=> r \in m.taken[u]
      BY <1>5, <1>10, <2>4
    <3> QED
      BY <1>5, <2>1, <2>2, <2>4, <3>1
  <2> QED
    BY <2>3, <2>4
<1>13. z.k.nest = 0 /\ LockCalls'
  <2>1. k' = z.k
    BY <1>1 DEF Become
  <2>2. k'.cur = k.cur /\ k'.stat[k'.cur] = k.stat[k.cur] /\ k'.nest = 0
    BY <1>9, <1>10, <2>1
  <2> QED
    BY <1>1, <2>1, <2>2, CallsSame DEF MutexInv, LockCalls, CallsKept
<1>14. TakerBooks(z, call')
  BY <1>1, <1>11
<1> QED
  BY <1>1, <1>11, <1>12, <1>13, <1>14, StepTo

(* A thread that has to wait: on the list, pending on the mutex, with its  *)
(* priority handed on along the chain of owners.                           *)
LEMMA MutexTakeWaitKeeps ==
    ASSUME KernelAssumption, MutexAssumption, MutexInv, NEW t \in Threads, NEW q \in Mutexes,
           NEW n \in Timeouts, MutexTakeWait(t, q, n)
    PROVE  MutexInv'
<1> DEFINE p == k.prio[t]
           o == m.owner[q]
           a == [k EXCEPT !.error[t] = "EOK"]
           b == ipc_list_suspend(a, q, t)
           mm == [m EXCEPT !.pending[t] = q, !.priority[q] = IF p < @ THEN p ELSE @]
           x == [k |-> b, m |-> mm]
           y == IF p < m.priority[q] /\ p < k.prio[o] THEN thread_update_priority(x, o, p) ELSE x
           z == [y EXCEPT !.k = IF n > 0 THEN rt_timer_start(@, t, n) ELSE @]
<1>1. /\ t = k.cur /\ t # IdleThread /\ call[t].pc = "user" /\ m.life[q] = "alive"
      /\ o \notin {NoThread, t} /\ Become(z) /\ ThenSchedule(t, "lock", q)
  BY DEF MutexTakeWait, MayTake, Running
<1>2. /\ Sane(a) /\ a.stat = k.stat /\ a.waitq = k.waitq /\ a.cur = k.cur /\ a.nest = 0
      /\ Suspended(a) = Suspended(k) /\ a.error = [k.error EXCEPT ![t] = "EOK"]
      /\ call[t].op = "none" /\ t \notin Suspended(k)
  BY <1>1, ErrorSet DEF Errors
<1> HIDE DEF a
<1>3. /\ m \in MutexState /\ State.k = k /\ State.m = m /\ p \in Prios /\ q \in Queues
      /\ \A u \in Suspended(k) : m.pending[u] \in Mutexes /\ u \in Elems(k.waitq[m.pending[u]])
      /\ \A r \in Mutexes : Elems(k.waitq[r]) # {} => m.owner[r] \in Threads
      /\ k.error \in [Threads -> Errors] /\ k.stat[t] # "suspend"
  <2>1. Sane(k) /\ State.k = k /\ State.m = m /\ m \in MutexState
    BY InvMeans
  <2>2. k.prio \in [Threads -> Prios] /\ k.error \in [Threads -> Errors]
    BY <2>1 DEF Sane, KernelState
  <2>3. /\ \A u \in Suspended(k) : m.pending[u] \in Mutexes /\ u \in Elems(k.waitq[m.pending[u]])
        /\ \A r \in Mutexes : Elems(k.waitq[r]) # {} => m.owner[r] \in Threads
    BY InvMeans
  <2>4. k.stat[t] # "suspend"
    BY <1>2 DEF Suspended
  <2>5. q \in Queues
    BY DEF MutexAssumption
  <2> QED
    BY <2>1, <2>2, <2>3, <2>4, <2>5
<1>4. WaitsOn(a, b, q, t)
  BY <1>1, <1>2, <1>3, SaneIpcSuspend
<1> HIDE DEF b
<1>5. /\ Sane(b) /\ b.cur = k.cur /\ b.nest = 0 /\ b.error = a.error
      /\ Suspended(b) = Suspended(k) \cup {t}
      /\ Elems(b.waitq[q]) = Elems(k.waitq[q]) \cup {t}
      /\ \A r \in Queues \ {q} : b.waitq[r] = k.waitq[r]
  BY <1>2, <1>4 DEF WaitsOn, SameCore
<1>6. /\ mm \in MutexState /\ mm.owner = m.owner /\ mm.hold = m.hold /\ mm.life = m.life
      /\ mm.taken = m.taken /\ mm.pending = [m.pending EXCEPT ![t] = q]
  <2> DEFINE f == [m.pending EXCEPT ![t] = q]
             g == [m.priority EXCEPT ![q] = IF p < @ THEN p ELSE @]
  <2>1. /\ f \in [Threads -> Mutexes \cup {NoMutex}] /\ m.priority \in [Mutexes -> 0..NoPrio]
        /\ p \in 0..NoPrio
    BY <1>3 DEF MutexState, Prios, NoPrio, KernelAssumption
  <2>2. g \in [Mutexes -> 0..NoPrio]
    BY <2>1
  <2>3. mm = [m EXCEPT !.pending = f, !.priority = g]
    BY <1>3 DEF MutexState
  <2> HIDE DEF f, g, mm, p
  <2>4. /\ mm \in MutexState /\ mm.owner = m.owner /\ mm.hold = m.hold /\ mm.life = m.life
        /\ mm.taken = m.taken /\ mm.pending = f
    BY <1>3, <2>1, <2>2, <2>3 DEF MutexState
  <2> QED
    BY <2>4 DEF f
<1> HIDE DEF mm, p
<1>7. m.pending \in [Threads -> Mutexes \cup {NoMutex}] /\ m.owner \in [Mutexes -> Threads \cup {NoThread}]
  BY <1>3 DEF MutexState
<1>8. x.k = b /\ x.m = mm /\ x = [k |-> x.k, m |-> x.m]
  OBVIOUS
<1> HIDE DEF x
<1>9. ChainOk(x)
  <2>1. ASSUME NEW u \in Suspended(b)
        PROVE  mm.pending[u] \in Mutexes /\ u \in Elems(b.waitq[mm.pending[u]])
    <3>1. CASE u = t
      BY <1>5, <1>6, <1>7, <3>1
    <3>2. CASE u # t
      <4>1. u \in Suspended(k) /\ u \in Threads /\ mm.pending[u] = m.pending[u]
        BY <1>5, <1>6, <1>7, <2>1, <3>2 DEF Suspended
      <4> QED
        BY <1>3, <1>5, <4>1 DEF MutexAssumption
    <3> QED
      BY <3>1, <3>2
  <2>2. ASSUME NEW r \in Mutexes, Elems(b.waitq[r]) # {} PROVE mm.owner[r] \in Threads
    <3>1. CASE r = q
      BY <1>1, <1>6, <1>7, <3>1
    <3>2. CASE r # q
      BY <1>3, <1>5, <1>6, <2>2, <3>2 DEF MutexAssumption
    <3> QED
      BY <3>1, <3>2
  <2> QED
    BY <1>5, <1>6, <1>8, <2>1, <2>2 DEF ChainOk
<1>10. Shuffled(x, y)
  <2>1. o \in Threads
    BY <1>1, <1>7
  <2> QED
    BY <1>3, <1>9, <2>1, UpdateShuffles, ShuffledSelf
<1> HIDE DEF y
<1>11. Shuffled(y, z) /\ z.k.nest = 0 /\ z.k.cur = k.cur
  <2> DEFINE c == IF n > 0 THEN rt_timer_start(y.k, t, n) ELSE y.k
  <2>1. /\ ChainOk(y) /\ y = [k |-> y.k, m |-> y.m] /\ Sane(y.k) /\ y.m \in MutexState
        /\ y.k.stat[t] = "suspend" /\ y.k.nest = 0 /\ y.k.cur = k.cur
    BY <1>5, <1>8, <1>10 DEF Shuffled, ChainOk, Suspended
  <2>2. z = [k |-> c, m |-> y.m]
    BY <2>1
  <2>3. Sane(c) /\ SameCore(y.k, c) /\ c.waitq = y.k.waitq /\ c.stat = y.k.stat
    <3>1. CASE n > 0
      <4>1. n \in Nat
        BY <3>1 DEF KernelAssumption, Forever
      <4> QED
        BY <2>1, <3>1, <4>1, SaneTimerStart
    <3>2. CASE ~(n > 0)
      BY <2>1, <3>2 DEF SameCore
    <3> QED
      BY <3>1, <3>2
  <2> HIDE DEF c, z
  <2>4. Shuffled(y, z)
    BY <2>1, <2>2, <2>3, ShuffledIf DEF SameCore
  <2> QED
    BY <2>1, <2>4 DEF Shuffled
<1> HIDE DEF z
<1>12. Shuffled(x, z)
  BY <1>10, <1>11, ShuffledTwice
<1>13. OwnerBooks(x)
  <2> SUFFICES ASSUME NEW r \in Mutexes, m.life[r] = "alive"
               PROVE  /\ \A u \in Threads : r \in m.taken[u] <=> m.owner[r] = u
                      /\ m.hold[r] > 0 <=> m.owner[r] # NoThread
                      /\ m.owner[r] \notin Elems(b.waitq[r])
    BY <1>6, <1>8 DEF OwnerBooks
  <2>1. /\ \A u \in Threads : r \in m.taken[u] <=> m.owner[r] = u
        /\ m.hold[r] > 0 <=> m.owner[r] # NoThread
        /\ m.owner[r] \notin Elems(k.waitq[r])
    BY <1>3 DEF MutexInv, OwnerBooks
  <2>2. m.owner[r] \notin Elems(b.waitq[r])
    BY <1>1, <1>5, <2>1 DEF MutexAssumption
  <2> QED
    BY <2>1, <2>2
<1>14. k' = z.k
  BY <1>1 DEF Become
<1>15. /\ LockCalls' /\ call'[t].op = "lock" /\ \A u \in Threads \ {t} : call'[u] = call[u]
  <2>1. k'.cur = k.cur /\ "lock" \in {"none", "lock"} /\ q \in {"none"} \cup Mutexes
    BY <1>11, <1>14
  <2> QED
    BY <1>1, <2>1, CallsToSchedule DEF MutexInv, LockCalls
<1>16. call'[t].obj = q
  BY <1>1 DEF ThenSchedule, MutexInv, LockCalls, CallsFit
<1>17. TakerBooks(x, call')
  <2>1. TakerBooks(State, call)
    BY DEF MutexInv
  <2>2. ASSUME NEW u \in Suspended(b)
        PROVE  call'[u].op = "lock" /\ call'[u].obj = mm.pending[u] /\ b.error[u] = "EOK"
    <3>1. CASE u = t
      BY <1>2, <1>3, <1>5, <1>6, <1>7, <1>15, <1>16, <3>1
    <3>2. CASE u # t
      <4>1. u \in Suspended(k) /\ u \in Threads /\ mm.pending[u] = m.pending[u] /\ call'[u] = call[u]
        BY <1>5, <1>6, <1>7, <1>15, <2>2, <3>2 DEF Suspended
      <4>2. b.error[u] = k.error[u]
        BY <1>2, <1>3, <1>5, <3>2, <4>1
      <4> QED
        BY <1>3, <2>1, <4>1, <4>2 DEF TakerBooks
    <3> QED
      BY <3>1, <3>2
  <2>3. ASSUME NEW u \in Threads, call'[u].op = "lock"
        PROVE  /\ call'[u].obj \in Mutexes
               /\ (u \notin Suspended(b) /\ b.error[u] = "EOK") => mm.owner[call'[u].obj] = u
    <3>1. CASE u = t
      BY <1>5, <1>16, <3>1
    <3>2. CASE u # t
      <4>1. call'[u] = call[u] /\ b.error[u] = k.error[u] /\ (u \notin Suspended(b) <=> u \notin Suspended(k))
        BY <1>2, <1>3, <1>5, <1>15, <3>2
      <4> QED
        BY <1>3, <1>6, <2>1, <2>3, <4>1 DEF TakerBooks
    <3> QED
      BY <3>1, <3>2
  <2> QED
    BY <1>8, <2>2, <2>3 DEF TakerBooks
<1>18. ChainOk(z) /\ OwnerBooks(z) /\ TakerBooks(z, call')
  BY <1>12, <1>13, <1>17, BooksShuffled
<1> QED
  BY <1>1, <1>11, <1>15, <1>18, StepTo

(* The end of a wait.  What is left of a failed one is inheritance. *)
LEMMA MutexTakeBackKeeps ==
    ASSUME KernelAssumption, MutexAssumption, MutexInv, NEW t \in Threads, MutexTakeBack(t)
    PROVE  MutexInv'
<1> DEFINE q == call[t].obj
<1>1. /\ t = k.cur /\ call[t].pc = "back" /\ call[t].op = "lock" /\ EndsCall(t)
      /\ IF k.error[t] = "EOK" THEN UNCHANGED <<k, m>>
         ELSE m.owner[q] # NoThread /\ Become(GiveUp(State, q, t))
  BY DEF MutexTakeBack, Returned, EndsCall
<1>2. /\ ChainOk(State) /\ OwnerBooks(State) /\ TakerBooks(State, call) /\ k.nest = 0
      /\ State.k = k /\ State.m = m /\ m \in MutexState /\ q \in Mutexes
  BY <1>1, InvMeans DEF MutexInv, TakerBooks
<1> HIDE DEF q
<1>3. PICK y : Become(y) /\ Shuffled(State, y)
  <2>1. CASE k.error[t] = "EOK"
    <3>1. Become(State)
      BY <1>1, <1>2, <2>1 DEF Become
    <3> QED
      BY <1>2, <3>1, ShuffledSelf
  <2>2. CASE k.error[t] # "EOK"
    <3>1. m.owner[q] \in Threads
      BY <1>1, <1>2, <2>2 DEF MutexState
    <3> QED
      BY <1>1, <1>2, <2>2, <3>1, GiveUpShuffles
  <2> QED
    BY <2>1, <2>2
<1>4. k' = y.k /\ y.k.cur = k.cur /\ y.k.stat = k.stat /\ y.k.nest = 0
  BY <1>2, <1>3 DEF Become, Shuffled
<1>5. /\ LockCalls' /\ call'[t].op = "none" /\ k.stat[t] # "suspend"
      /\ \A u \in Threads \ {t} : call'[u] = call[u]
  BY <1>1, <1>4, CallsEnd DEF MutexInv, LockCalls
<1>6. TakerBooks(State, call')
  BY <1>2, <1>5 DEF TakerBooks, Suspended
<1>7. ChainOk(y) /\ OwnerBooks(y) /\ TakerBooks(y, call')
  BY <1>2, <1>3, <1>6, BooksShuffled
<1> QED
  BY <1>3, <1>4, <1>5, <1>7, StepTo

(***************************************************************************)
(* rt_mutex_release                                                        *)
(***************************************************************************)
LEMMA ReleaseOneKeeps ==
    ASSUME KernelAssumption, MutexAssumption, MutexInv, NEW t \in Threads, NEW q \in Mutexes, MutexReleaseOne(t, q)
    PROVE  MutexInv'
<1> DEFINE h == m.hold[q] - 1
           mm == [m EXCEPT !.hold[q] = h]
           y == [k |-> k, m |-> mm]
<1>1. /\ t = k.cur /\ call[t].pc = "user" /\ m.owner[q] = t /\ m.hold[q] > 1
      /\ k' = k /\ m' = mm /\ UNCHANGED call
  BY DEF MutexReleaseOne, Running
<1>2. /\ m \in MutexState /\ State.k = k /\ State.m = m /\ Sane(k)
      /\ call[t].op = "none" /\ t \notin Suspended(k)
  BY <1>1, InvMeans
<1>3. h \in 0..MaxHold /\ h > 0 /\ m.hold \in [Mutexes -> 0..MaxHold]
  <2>1. m.hold \in [Mutexes -> 0..MaxHold] /\ MaxHold \in Nat
    BY <1>2 DEF MutexState, MutexAssumption
  <2> QED
    BY <1>1, <2>1
<1> HIDE DEF h
<1>4. /\ mm \in MutexState /\ mm.hold = [m.hold EXCEPT ![q] = h]
      /\ mm.owner = m.owner /\ mm.life = m.life /\ mm.taken = m.taken /\ mm.pending = m.pending
  BY <1>2, <1>3 DEF MutexState
<1> HIDE DEF mm
<1>5. ChainOk(y) /\ TakerBooks(y, call)
  BY <1>2, <1>4, Undisturbed
<1>6. y.k = k /\ y.m = mm
  OBVIOUS
<1> HIDE DEF y
<1>7. OwnerBooks(y)
  <2>1. OwnerBooks(State)
    BY DEF MutexInv
  <2>2. ASSUME NEW r \in Mutexes, m.life[r] = "alive"
        PROVE  mm.hold[r] > 0 <=> m.owner[r] # NoThread
    <3>1. m.hold[r] > 0 <=> m.owner[r] # NoThread
      BY <1>2, <2>1, <2>2 DEF OwnerBooks
    <3> QED
      BY <1>1, <1>3, <1>4, <3>1 DEF MutexAssumption
  <2>3. y.m.owner = m.owner /\ y.m.life = m.life /\ y.m.taken = m.taken /\ y.m.hold = mm.hold
    BY <1>4, <1>6
  <2>4. ASSUME NEW r \in Mutexes, m.life[r] = "alive"
        PROVE  /\ \A u \in Threads : r \in m.taken[u] <=> m.owner[r] = u
               /\ m.owner[r] \notin Elems(k.waitq[r])
    BY <1>2, <2>1, <2>4 DEF OwnerBooks
  <2> QED
    BY <1>6, <2>2, <2>3, <2>4 DEF OwnerBooks
<1>8. LockCalls' /\ k.nest = 0
  BY <1>1, CallsSame DEF MutexInv, LockCalls, CallsKept
<1> QED
  BY <1>1, <1>5, <1>6, <1>7, <1>8, StepTo DEF Become

(* The last hold is given back: t owns q no more, and whoever is first on  *)
(* the list does, or nobody.                                               *)
LEMMA MutexReleaseKeeps ==
    ASSUME KernelAssumption, MutexAssumption, MutexInv, NEW t \in Threads, NEW q \in Mutexes, MutexRelease(t, q)
    PROVE  MutexInv'
<1> DEFINE mm == [m EXCEPT !.hold[q] = 0, !.taken[t] = @ \ {q}]
           x == [k |-> k, m |-> mm]
           y == ReleaserPriority(x, q, t)
           u == Head(k.waitq[q])
           z == IF k.waitq[q] # <<>> THEN Handover(y, q, u)
                ELSE [y EXCEPT !.m.owner[q] = NoThread, !.m.priority[q] = NoPrio]
<1>1. /\ t = k.cur /\ t # IdleThread /\ call[t].pc = "user" /\ m.owner[q] = t /\ m.life[q] = "alive"
      /\ Running(t) /\ Become(z) /\ (ThenSchedule(t, "none", "none") \/ UNCHANGED call)
  <2>2. Become(z)
    BY DEF MutexRelease
  <2>3. Running(t) /\ m.owner[q] = t /\ m.life[q] = "alive" /\ (ThenSchedule(t, "none", "none") \/ UNCHANGED call)
    BY DEF MutexRelease
  <2> QED
    BY <2>2, <2>3 DEF Running
<1>2. /\ m \in MutexState /\ State.k = k /\ State.m = m /\ Sane(k) /\ k.nest = 0 /\ q \in Queues
      /\ call[t].op = "none" /\ t \notin Suspended(k) /\ Suspended(k) = {v \in Threads : k.stat[v] = "suspend"}
      /\ \A v \in Suspended(k) : m.pending[v] \in Mutexes /\ v \in Elems(k.waitq[m.pending[v]])
      /\ \A r \in Mutexes : Elems(k.waitq[r]) # {} => m.owner[r] \in Threads
      /\ TakerBooks(State, call)
  BY <1>1, InvMeans DEF MutexInv, MutexAssumption
<1>3. /\ m.owner \in [Mutexes -> Threads \cup {NoThread}] /\ m.hold \in [Mutexes -> 0..MaxHold]
      /\ m.taken \in [Threads -> SUBSET Mutexes] /\ m.pending \in [Threads -> Mutexes \cup {NoMutex}]
      /\ m.priority \in [Mutexes -> 0..NoPrio] /\ NoThread \notin Threads
      /\ NoPrio \in 0..NoPrio /\ 0 \in 0..MaxHold /\ 1 \in 0..MaxHold
  BY <1>2 DEF MutexState, MutexAssumption, KernelAssumption, NoPrio
<1>4. /\ mm \in MutexState /\ mm.hold = [m.hold EXCEPT ![q] = 0] /\ mm.taken = [m.taken EXCEPT ![t] = @ \ {q}]
      /\ mm.owner = m.owner /\ mm.life = m.life /\ mm.pending = m.pending
  <2> DEFINE h == [m.hold EXCEPT ![q] = 0]
             f == [m.taken EXCEPT ![t] = @ \ {q}]
  <2>1. h \in [Mutexes -> 0..MaxHold] /\ f \in [Threads -> SUBSET Mutexes]
    BY <1>3
  <2>2. mm = [m EXCEPT !.hold = h, !.taken = f]
    BY <1>2 DEF MutexState
  <2> HIDE DEF h, f, mm
  <2>3. /\ mm \in MutexState /\ mm.hold = h /\ mm.taken = f
        /\ mm.owner = m.owner /\ mm.life = m.life /\ mm.pending = m.pending
    BY <1>2, <2>1, <2>2 DEF MutexState
  <2> QED
    BY <2>3 DEF h, f
<1> HIDE DEF mm
<1>5. ChainOk(x) /\ TakerBooks(x, call)
  BY <1>2, <1>4, Undisturbed
<1>6. x.k = k /\ x.m = mm
  OBVIOUS
<1> HIDE DEF x
<1>7. Shuffled(x, y)
  <2> DEFINE p == thread_get_mutex_priority(x, t)
  <2>1. p \in Prios
    BY <1>4, <1>6, AskedPriority
  <2>2. y = x \/ y = [x EXCEPT !.k = ChangePriority(@, t, p)]
    BY DEF ReleaserPriority
  <2> HIDE DEF p, y
  <2> QED
    BY <1>5, <2>1, <2>2, ShuffledSelf, PriorityChanged
<1> HIDE DEF y
<1>8. /\ ChainOk(y) /\ y = [k |-> y.k, m |-> y.m] /\ Sane(y.k) /\ y.m \in MutexState
      /\ y.k.cur = k.cur /\ y.k.nest = 0 /\ y.k.stat = k.stat /\ y.k.error = k.error
      /\ Suspended(y.k) = Suspended(k)
      /\ \A r \in Queues : Elems(y.k.waitq[r]) = Elems(k.waitq[r])
      /\ y.m.owner = m.owner /\ y.m.hold = mm.hold /\ y.m.life = m.life
      /\ y.m.taken = mm.taken /\ y.m.pending = m.pending
  <2>1. Suspended(y.k) = Suspended(k)
    BY <1>6, <1>7, ShuffledSuspended
  <2>2. ChainOk(y) /\ y = [k |-> y.k, m |-> y.m] /\ Sane(y.k) /\ y.m \in MutexState
    BY <1>7 DEF Shuffled, ChainOk
  <2> QED
    BY <1>2, <1>4, <1>6, <1>7, <2>1, <2>2 DEF Shuffled
<1>9. \A r \in Mutexes : m.life[r] = "alive" =>
         /\ \A v \in Threads : r \in m.taken[v] <=> m.owner[r] = v
         /\ m.hold[r] > 0 <=> m.owner[r] # NoThread
         /\ m.owner[r] \notin Elems(k.waitq[r])
  BY <1>2 DEF MutexInv, OwnerBooks
<1>10. \A v \in Threads : q \notin mm.taken[v]
  BY <1>1, <1>3, <1>4, <1>9
<1>11. \A v \in Threads, r \in Mutexes \ {q} : r \in mm.taken[v] <=> r \in m.taken[v]
  BY <1>3, <1>4
<1>12. k.waitq[q] \in Lists1(Threads) /\ k.stat \in [Threads -> Statuses]
  BY <1>2 DEF Sane, KernelState
<1>13. ASSUME k.waitq[q] = <<>>
       PROVE  /\ ChainOk(z) /\ OwnerBooks(z) /\ TakerBooks(z, call) /\ z.k.nest = 0 /\ z.k.cur = k.cur
              /\ z.k.stat[k.cur] = k.stat[k.cur]
  <2> DEFINE n == [y.m EXCEPT !.owner[q] = NoThread, !.priority[q] = NoPrio]
  <2>1. z = [k |-> y.k, m |-> n]
    BY <1>8, <1>13
  <2>2. /\ n \in MutexState /\ n.owner = [m.owner EXCEPT ![q] = NoThread] /\ n.hold = mm.hold
        /\ n.life = m.life /\ n.taken = mm.taken /\ n.pending = m.pending
    <3> DEFINE o == [m.owner EXCEPT ![q] = NoThread]
               f == [y.m.priority EXCEPT ![q] = NoPrio]
    <3>1. o \in [Mutexes -> Threads \cup {NoThread}] /\ f \in [Mutexes -> 0..NoPrio]
      BY <1>3, <1>8 DEF MutexState
    <3>2. n = [y.m EXCEPT !.owner = o, !.priority = f]
      BY <1>8 DEF MutexState
    <3> HIDE DEF o, f, n
    <3>3. /\ n \in MutexState /\ n.owner = o /\ n.hold = y.m.hold
          /\ n.life = y.m.life /\ n.taken = y.m.taken /\ n.pending = y.m.pending
      BY <1>8, <3>1, <3>2 DEF MutexState
    <3> QED
      BY <1>8, <3>3 DEF o
  <2> HIDE DEF n, z
  <2>3. z.k = y.k /\ z.m = n /\ z = [k |-> z.k, m |-> z.m]
    BY <2>1
  <2>4. Elems(k.waitq[q]) = {}
    BY <1>12, <1>13, ListElems
  <2>5. ChainOk(z)
    <3>1. ASSUME NEW r \in Mutexes, Elems(y.k.waitq[r]) # {} PROVE n.owner[r] \in Threads
      <4>1. Elems(k.waitq[r]) # {} /\ r # q
        BY <1>8, <2>4, <3>1 DEF MutexAssumption
      <4> QED
        BY <1>2, <1>3, <2>2, <4>1
    <3>2. ASSUME NEW v \in Suspended(y.k)
          PROVE  n.pending[v] \in Mutexes /\ v \in Elems(y.k.waitq[n.pending[v]])
      BY <1>8, <2>2, <3>2 DEF ChainOk
    <3> QED
      BY <1>8, <2>2, <2>3, <3>1, <3>2 DEF ChainOk
  <2>6. OwnerBooks(z)
    <3> SUFFICES ASSUME NEW r \in Mutexes, m.life[r] = "alive"
                 PROVE  /\ \A v \in Threads : r \in mm.taken[v] <=> n.owner[r] = v
                        /\ mm.hold[r] > 0 <=> n.owner[r] # NoThread
                        /\ n.owner[r] \notin Elems(y.k.waitq[r])
      BY <2>2, <2>3 DEF OwnerBooks
    <3>1. CASE r = q
      BY <1>3, <1>4, <1>8, <1>10, <2>2, <2>4, <3>1 DEF MutexAssumption
    <3>2. CASE r # q
      BY <1>3, <1>4, <1>8, <1>9, <1>11, <2>2, <3>2 DEF MutexAssumption
    <3> QED
      BY <3>1, <3>2
  <2>7. TakerBooks(z, call)
    <3>1. ASSUME NEW v \in Threads, call[v].op = "lock", v \notin Suspended(k), k.error[v] = "EOK"
          PROVE  n.owner[call[v].obj] = v
      <4>1. call[v].obj \in Mutexes /\ m.owner[call[v].obj] = v /\ v # t
        BY <1>2, <3>1 DEF TakerBooks
      <4> QED
        BY <1>1, <1>3, <2>2, <4>1
    <3>2. ASSUME NEW v \in Threads, call[v].op = "lock" PROVE call[v].obj \in Mutexes
      BY <1>2, <3>2 DEF TakerBooks
    <3>3. ASSUME NEW v \in Suspended(k)
          PROVE  call[v].op = "lock" /\ call[v].obj = m.pending[v] /\ k.error[v] = "EOK"
      BY <1>2, <3>3 DEF TakerBooks
    <3>4. z.k.error = k.error /\ Suspended(z.k) = Suspended(k) /\ z.m.pending = m.pending /\ z.m.owner = n.owner
      BY <1>8, <2>2, <2>3
    <3> QED
      BY <3>1, <3>2, <3>3, <3>4 DEF TakerBooks
  <2> QED
    BY <1>8, <2>3, <2>5, <2>6, <2>7
<1>14. ASSUME k.waitq[q] # <<>>
       PROVE  /\ ChainOk(z) /\ OwnerBooks(z) /\ TakerBooks(z, call) /\ z.k.nest = 0 /\ z.k.cur = k.cur
              /\ z.k.stat[k.cur] = k.stat[k.cur]
  <2>1. /\ u \in Elems(k.waitq[q]) /\ u \in Threads /\ u \in Suspended(k) /\ k.stat[u] = "suspend" /\ u # t
    <3>1. u \in Elems(k.waitq[q]) /\ u \in Threads
      BY <1>12, <1>14, ListElems
    <3>2. k.stat[u] = "suspend"
      BY <1>2, <3>1 DEF Sane, ExactBut, Agrees
    <3> QED
      BY <1>2, <3>1, <3>2
  <2> DEFINE a == rt_list_remove(y.k, u)
             b == rt_thread_resume(a, u)
             n == [y.m EXCEPT !.owner[q] = u, !.hold[q] = 1,
                              !.taken[u] = @ \cup {q}, !.pending[u] = NoMutex]
             w == [k |-> b, m |-> n]
  <2>2. z = mutex_update_priority(w, q)
    <3>1. [[k |-> a, m |-> n] EXCEPT !.k = rt_thread_resume(@, u)] = w
      OBVIOUS
    <3>2. z = Handover(y, q, u)
      BY <1>14
    <3>3. Handover(y, q, u) = mutex_update_priority([[k |-> a, m |-> n] EXCEPT !.k = rt_thread_resume(@, u)], q)
      BY DEF Handover
    <3> HIDE DEF a, n, w, u, z
    <3> QED
      BY <3>1, <3>2, <3>3
  <2> HIDE DEF u
  <2>3. Sane(a) /\ SameCore(y.k, a) /\ a.stat = y.k.stat /\ QueuesLose(y.k, a, u)
    BY <1>8, <2>1, SaneUnlink
  <2> HIDE DEF a
  <2>4. /\ Sane(b) /\ SameCore(a, b) /\ Suspended(b) = Suspended(a) \ {u} /\ QueuesLose(a, b, u)
        /\ b.stat = [a.stat EXCEPT ![u] = IF u = a.cur THEN "running" ELSE "ready"]
    BY <1>8, <2>1, <2>3, SaneResume
  <2> HIDE DEF b
  <2>5. /\ b.cur = k.cur /\ b.nest = 0 /\ b.error = k.error /\ Suspended(b) = Suspended(k) \ {u}
        /\ b.stat[k.cur] = k.stat[k.cur]
        /\ \A r \in Queues : Elems(b.waitq[r]) = Elems(k.waitq[r]) \ {u}
    <3>1. Suspended(a) = Suspended(k)
      BY <1>8, <2>3 DEF Suspended
    <3>2. \A r \in Queues : Elems(b.waitq[r]) = Elems(k.waitq[r]) \ {u}
      BY <1>8, <2>3, <2>4 DEF QueuesLose
    <3>3. b.stat[t] = k.stat[t]
      BY <1>8, <1>12, <2>1, <2>3, <2>4
    <3> QED
      BY <1>1, <1>8, <2>3, <2>4, <3>1, <3>2, <3>3 DEF SameCore
  <2>6. /\ n \in MutexState /\ n.owner = [m.owner EXCEPT ![q] = u] /\ n.hold = [mm.hold EXCEPT ![q] = 1]
        /\ n.life = m.life /\ n.taken = [mm.taken EXCEPT ![u] = @ \cup {q}]
        /\ n.pending = [m.pending EXCEPT ![u] = NoMutex]
    <3> DEFINE o == [y.m.owner EXCEPT ![q] = u]
               h == [y.m.hold EXCEPT ![q] = 1]
               f == [y.m.taken EXCEPT ![u] = @ \cup {q}]
               g == [y.m.pending EXCEPT ![u] = NoMutex]
    <3>1. /\ o \in [Mutexes -> Threads \cup {NoThread}] /\ h \in [Mutexes -> 0..MaxHold]
          /\ f \in [Threads -> SUBSET Mutexes] /\ g \in [Threads -> Mutexes \cup {NoMutex}]
      BY <1>3, <1>8, <2>1 DEF MutexState
    <3>2. n = [y.m EXCEPT !.owner = o, !.hold = h, !.taken = f, !.pending = g]
      BY <1>8 DEF MutexState
    <3> HIDE DEF o, h, f, g, n
    <3>3. /\ n \in MutexState /\ n.owner = o /\ n.hold = h /\ n.life = y.m.life
          /\ n.taken = f /\ n.pending = g
      BY <1>8, <3>1, <3>2 DEF MutexState
    <3> QED
      BY <1>8, <3>3 DEF o, h, f, g
  <2> HIDE DEF n
  <2>7. w.k = b /\ w.m = n /\ w = [k |-> w.k, m |-> w.m]
    OBVIOUS
  <2> HIDE DEF w, z
  <2>8. ChainOk(w)
    <3>1. ASSUME NEW v \in Suspended(b)
          PROVE  n.pending[v] \in Mutexes /\ v \in Elems(b.waitq[n.pending[v]])
      <4>1. v \in Suspended(k) /\ v \in Threads /\ v # u /\ n.pending[v] = m.pending[v]
        BY <1>2, <1>3, <2>5, <2>6, <3>1
      <4> QED
        BY <1>2, <2>5, <4>1 DEF MutexAssumption
    <3>2. ASSUME NEW r \in Mutexes, Elems(b.waitq[r]) # {} PROVE n.owner[r] \in Threads
      <4>1. Elems(k.waitq[r]) # {}
        BY <2>5, <3>2 DEF MutexAssumption
      <4> QED
        BY <1>2, <1>3, <2>1, <2>6, <4>1
    <3> QED
      BY <2>4, <2>6, <2>7, <3>1, <3>2 DEF ChainOk
  <2>9. OwnerBooks(w)
    <3> SUFFICES ASSUME NEW r \in Mutexes, m.life[r] = "alive"
                 PROVE  /\ \A v \in Threads : r \in n.taken[v] <=> n.owner[r] = v
                        /\ n.hold[r] > 0 <=> n.owner[r] # NoThread
                        /\ n.owner[r] \notin Elems(b.waitq[r])
      BY <2>6, <2>7 DEF OwnerBooks
    <3>0. /\ mm.taken \in [Threads -> SUBSET Mutexes] /\ mm.hold \in [Mutexes -> 0..MaxHold] /\ r \in Queues
      BY <1>4 DEF MutexState, MutexAssumption
    <3>1. CASE r = q
      <4>1. \A v \in Threads : q \in n.taken[v] <=> v = u
        BY <1>10, <2>6, <3>0, ZenonT(40)
      <4>2. n.owner[q] = u /\ n.hold[q] = 1 /\ u # NoThread /\ u \notin Elems(b.waitq[q])
        <5>1. n.owner[q] = u /\ n.hold[q] = 1
          BY <1>3, <2>6, <3>0
        <5> QED
          BY <1>2, <1>3, <2>1, <2>5, <5>1, ZenonT(40)
      <4> QED
        BY <3>1, <4>1, <4>2
    <3>2. CASE r # q
      <4>1. \A v \in Threads : r \in n.taken[v] <=> r \in m.taken[v]
        <5>1. ASSUME NEW v \in Threads PROVE r \in n.taken[v] <=> r \in mm.taken[v]
          BY <2>6, <3>0, <3>2
        <5> QED
          BY <1>11, <3>2, <5>1
      <4>2. n.owner[r] = m.owner[r] /\ n.hold[r] = m.hold[r]
        BY <1>3, <1>4, <2>6, <3>0, <3>2
      <4> QED
        BY <1>9, <2>5, <3>0, <4>1, <4>2, SMTT(20)
    <3> QED
      BY <3>1, <3>2
  <2>10. TakerBooks(w, call)
    <3>1. ASSUME NEW v \in Suspended(b)
          PROVE  call[v].op = "lock" /\ call[v].obj = n.pending[v] /\ b.error[v] = "EOK"
      <4>1. v \in Suspended(k) /\ v \in Threads /\ n.pending[v] = m.pending[v]
        BY <1>2, <1>3, <2>5, <2>6, <3>1
      <4> QED
        BY <1>2, <2>5, <4>1 DEF TakerBooks
    <3>2. ASSUME NEW v \in Threads, call[v].op = "lock"
          PROVE  /\ call[v].obj \in Mutexes
                 /\ (v \notin Suspended(b) /\ b.error[v] = "EOK") => n.owner[call[v].obj] = v
      <4>1. CASE v = u
        <5>1. call[u].obj = m.pending[u] /\ m.pending[u] \in Mutexes /\ u \in Elems(k.waitq[m.pending[u]])
          BY <1>2, <2>1 DEF TakerBooks
        <5>2. m.pending[u] = q
          <6>1. QueuesApart(k) /\ m.pending[u] \in Queues
            BY <1>2, <5>1 DEF Sane, ExactBut, MutexAssumption
          <6> QED
            BY <1>2, <2>1, <5>1, <6>1 DEF QueuesApart
        <5> QED
          BY <1>3, <2>6, <4>1, <5>1, <5>2
      <4>2. CASE v # u
        <5>1. call[v].obj \in Mutexes /\ v # t
          BY <1>2, <3>2 DEF TakerBooks
        <5>2. (v \notin Suspended(k) /\ k.error[v] = "EOK") => m.owner[call[v].obj] = v
          BY <1>2, <3>2 DEF TakerBooks
        <5>3. v \notin Suspended(b) <=> v \notin Suspended(k)
          BY <2>5, <4>2
        <5> QED
          BY <1>1, <1>3, <2>5, <2>6, <5>1, <5>2, <5>3
      <4> QED
        BY <4>1, <4>2
    <3> QED
      BY <2>7, <3>1, <3>2 DEF TakerBooks
  <2>11. Shuffled(w, z)
    BY <2>2, <2>8, MutexUpdatePriority
  <2>12. ChainOk(z) /\ OwnerBooks(z) /\ TakerBooks(z, call)
    BY <2>9, <2>10, <2>11, BooksShuffled
  <2> QED
    BY <2>5, <2>7, <2>11, <2>12 DEF Shuffled
<1>15. /\ ChainOk(z) /\ OwnerBooks(z) /\ TakerBooks(z, call) /\ z.k.nest = 0 /\ z.k.cur = k.cur
       /\ z.k.stat[k.cur] = k.stat[k.cur]
  BY <1>13, <1>14
<1> HIDE DEF z
<1>16. k'.cur = k.cur /\ k'.stat[k'.cur] = k.stat[k.cur]
  BY <1>1, <1>15 DEF Become
<1>17. CallsKept({"none", "lock"}, {"none"} \cup Mutexes)
  BY <1>1, <1>16, CallsYield, CallsSame DEF MutexInv, LockCalls
<1>18. LockCalls' /\ TakerBooks(z, call')
  BY <1>15, <1>17 DEF LockCalls, CallsKept, TakerBooks, Suspended
<1> QED
  BY <1>1, <1>15, <1>18, StepTo

(***************************************************************************)
(* The other operations                                                    *)
(***************************************************************************)
LEMMA CeilingKeeps ==
    ASSUME KernelAssumption, MutexAssumption, MutexInv, NEW t \in Threads, NEW q \in Mutexes,
           NEW p \in Ceilings, MutexSetPrioCeiling(t, q, p)
    PROVE  MutexInv'
<1> DEFINE mm == [m EXCEPT !.ceiling[q] = p]
           x == [k |-> k, m |-> mm]
           y == IF m.owner[q] = NoThread THEN x ELSE RefreshOwner(x, q)
<1>1. t = k.cur /\ call[t].pc = "user" /\ Become(y) /\ UNCHANGED call
  <2>1. [State EXCEPT !.m.ceiling[q] = p] = x
    BY DEF State
  <2> HIDE DEF x
  <2> QED
    BY <2>1 DEF MutexSetPrioCeiling, Running
<1>2. /\ m \in MutexState /\ State.k = k /\ State.m = m /\ Sane(k) /\ k.nest = 0
      /\ call[t].op = "none" /\ t \notin Suspended(k) /\ OwnerBooks(State)
  BY <1>1, InvMeans DEF MutexInv
<1>3. /\ mm \in MutexState /\ mm.hold = m.hold /\ mm.owner = m.owner /\ mm.life = m.life
      /\ mm.taken = m.taken /\ mm.pending = m.pending
  <2>1. p \in 0..NoPrio
    BY DEF MutexAssumption, KernelAssumption, Prios, NoPrio
  <2> QED
    BY <1>2, <2>1 DEF MutexState
<1> HIDE DEF mm
<1>4. ChainOk(x) /\ TakerBooks(x, call)
  BY <1>2, <1>3, Undisturbed
<1>5. x.k = k /\ x.m = mm
  OBVIOUS
<1> HIDE DEF x
<1>6. OwnerBooks(x)
  BY <1>2, <1>3, <1>5 DEF OwnerBooks
<1>7. Shuffled(x, y)
  <2>1. m.owner[q] # NoThread => x.m.owner[q] \in Threads
    BY <1>2, <1>3, <1>5 DEF MutexState
  <2> QED
    BY <1>4, <2>1, ShuffledSelf, RefreshShuffles
<1> HIDE DEF y
<1>8. ChainOk(y) /\ OwnerBooks(y) /\ TakerBooks(y, call')
  BY <1>1, <1>4, <1>6, <1>7, BooksShuffled
<1>9. k' = y.k /\ y.k.nest = 0 /\ k'.cur = k.cur /\ k'.stat[k'.cur] = k.stat[k.cur]
  BY <1>1, <1>2, <1>5, <1>7 DEF Become, Shuffled
<1>10. LockCalls'
  BY <1>1, <1>9, CallsSame DEF MutexInv, LockCalls, CallsKept
<1> QED
  BY <1>1, <1>8, <1>9, <1>10, StepTo

LEMMA RemoveKeeps ==
    ASSUME KernelAssumption, MutexAssumption, MutexInv, NEW t \in Threads, NEW q \in Mutexes,
           NEW how \in {"detached", "freed"}, MutexRemove(t, q, how)
    PROVE  MutexInv'
<1> DEFINE mm == [m EXCEPT !.life[q] = how, !.taken = [u \in Threads |-> @[u] \ {q}]]
           U == Elems(k.waitq[q])
<1>1. k' = ipc_list_resume_all(k, q) /\ m' = mm /\ UNCHANGED call
  BY DEF MutexRemove
<1>2. /\ m \in MutexState /\ State.k = k /\ State.m = m /\ Sane(k) /\ k.nest = 0 /\ q \in Queues
  BY InvMeans DEF MutexInv, MutexAssumption
<1>3. /\ mm \in MutexState /\ mm.hold = m.hold /\ mm.owner = m.owner /\ mm.life = [m.life EXCEPT ![q] = how]
      /\ mm.taken = [u \in Threads |-> m.taken[u] \ {q}] /\ mm.pending = m.pending
  <2> DEFINE l == [m.life EXCEPT ![q] = how]
             f == [u \in Threads |-> m.taken[u] \ {q}]
  <2>1. l \in [Mutexes -> {"alive", "detached", "freed"}] /\ f \in [Threads -> SUBSET Mutexes]
    BY <1>2 DEF MutexState
  <2>2. mm = [m EXCEPT !.life = l, !.taken = f]
    BY <1>2 DEF MutexState
  <2> HIDE DEF l, f, mm
  <2>3. /\ mm \in MutexState /\ mm.hold = m.hold /\ mm.owner = m.owner /\ mm.life = l
        /\ mm.taken = f /\ mm.pending = m.pending
    BY <1>2, <2>1, <2>2 DEF MutexState
  <2> QED
    BY <2>3 DEF l, f
<1> HIDE DEF mm
<1>4. /\ Sane(k') /\ k'.cur = k.cur /\ k'.nest = 0
      /\ Suspended(k') = Suspended(k) \ U
      /\ \A z \in Queues : Elems(k'.waitq[z]) = Elems(k.waitq[z]) \ U
      /\ \A u \in Threads : k'.error[u] = IF u \in U THEN "ERROR" ELSE k.error[u]
      /\ k'.stat[k'.cur] = "running" \/ k'.stat[k'.cur] = k.stat[k.cur]
  <2>1. Emptied(k, k', q)
    BY <1>1, <1>2, AllWokenOf
  <2> QED
    BY <1>2, <2>1 DEF Emptied
<1> HIDE DEF U
<1>5. CallsKept({"none", "lock"}, {"none"} \cup Mutexes)
  <2>1. (k'.cur = k.cur /\ k'.stat[k'.cur] = k.stat[k.cur]) \/ k'.stat[k'.cur] # "suspend"
    BY <1>4
  <2> QED
    BY <1>1, <2>1, CallsSame DEF MutexInv, LockCalls
<1>6. ChainOk(State)' /\ TakerBooks(State, call)'
  BY <1>1, <1>3, <1>4, <1>5, WaitsEnd
<1>7. OwnerBooks(State')
  <2>1. (State').k = k' /\ (State').m = mm
    BY <1>1 DEF State
  <2>2. ASSUME NEW r \in Mutexes, mm.life[r] = "alive"
        PROVE  /\ \A u \in Threads : r \in mm.taken[u] <=> mm.owner[r] = u
               /\ mm.hold[r] > 0 <=> mm.owner[r] # NoThread
               /\ mm.owner[r] \notin Elems(k'.waitq[r])
    <3>1. m.life \in [Mutexes -> {"alive", "detached", "freed"}]
      BY <1>2 DEF MutexState
    <3>2. r # q /\ m.life[r] = "alive"
      BY <1>3, <2>2, <3>1
    <3>3. /\ \A u \in Threads : r \in m.taken[u] <=> m.owner[r] = u
          /\ m.hold[r] > 0 <=> m.owner[r] # NoThread
          /\ m.owner[r] \notin Elems(k.waitq[r])
      BY <1>2, <3>2 DEF MutexInv, OwnerBooks
    <3>4. \A u \in Threads : r \in mm.taken[u] <=> r \in m.taken[u]
      BY <1>3, <3>2
    <3>5. mm.owner[r] \notin Elems(k'.waitq[r])
      BY <1>3, <1>4, <3>3, SMTT(20) DEF MutexAssumption
    <3> QED
      BY <1>3, <3>3, <3>4, <3>5
  <2> QED
    BY <2>1, <2>2 DEF OwnerBooks
<1> QED
  BY <1>4, <1>5, <1>6, <1>7 DEF MutexInv, LockCalls, CallsKept

(* A thread that is closed is off its list; if it was waiting, the owner   *)
(* no longer inherits from it.                                             *)
LEMMA DropKeeps ==
    ASSUME KernelAssumption, MutexAssumption, MutexInv, NEW t \in Threads, NEW u \in Threads, ThreadDrop(t, u)
    PROVE  MutexInv'
<1> DEFINE q == m.pending[u]
           r == CloseThread(k, u)
           x == [k |-> r, m |-> m]
           y == GiveUp(x, q, u)
           z == [y EXCEPT !.m.pending[u] = NoMutex]
<1>1. /\ t = k.cur /\ t # IdleThread /\ call[t].pc = "user" /\ u \notin {t, IdleThread}
      /\ k.stat[u] \in {"ready", "suspend"}
      /\ IF IsMutex(State, q) THEN m.owner[q] # NoThread /\ Become(z) ELSE Become(x)
      /\ call' = [call EXCEPT ![u] = UserCode, ![t] = [UserCode EXCEPT !.pc = "sched"]]
  <2>1. [State EXCEPT !.k = CloseThread(@, u)] = x
    BY DEF State
  <2> HIDE DEF x
  <2> QED
    BY <2>1 DEF ThreadDrop, Running
<1>2. /\ m \in MutexState /\ State.k = k /\ State.m = m /\ Sane(k) /\ k.nest = 0
      /\ Suspended(k) = {v \in Threads : k.stat[v] = "suspend"}
      /\ \A v \in Suspended(k) : m.pending[v] \in Mutexes /\ v \in Elems(k.waitq[m.pending[v]])
      /\ \A s \in Mutexes : Elems(k.waitq[s]) # {} => m.owner[s] \in Threads
      /\ OwnerBooks(State) /\ TakerBooks(State, call) /\ call[t].op = "none"
  BY <1>1, InvMeans DEF MutexInv
<1>3. /\ Sane(r) /\ r.cur = k.cur /\ r.nest = 0 /\ r.error = k.error
      /\ r.stat = [k.stat EXCEPT ![u] = "close"] /\ QueuesLose(k, r, u)
  <2>1. /\ Sane(k) /\ u \in Threads \ {IdleThread} /\ k.nest = 0
        /\ k.stat[u] \notin {"close", "freed"}
    BY <1>1, <1>2
  <2> HIDE DEF q, x, y, z
  <2>2. /\ Sane(r) /\ r.cur = k.cur /\ r.nest = k.nest /\ r.error = k.error
        /\ r.stat = [k.stat EXCEPT ![u] = "close"] /\ QueuesLose(k, r, u)
    BY <2>1, SaneClose, Zenon
  <2> QED
    BY <2>1, <2>2
<1> HIDE DEF r
<1>4. k.stat \in [Threads -> Statuses] /\ m.pending \in [Threads -> Mutexes \cup {NoMutex}]
      /\ m.owner \in [Mutexes -> Threads \cup {NoThread}]
  BY <1>2 DEF Sane, KernelState, MutexState
<1>5. Suspended(r) = Suspended(k) \ {u} /\ r.stat[t] = k.stat[t]
  BY <1>1, <1>2, <1>3, <1>4 DEF Suspended
<1>6. x.k = r /\ x.m = m /\ x = [k |-> x.k, m |-> x.m]
  OBVIOUS
<1> HIDE DEF x
<1>7. \A s \in Mutexes : Elems(r.waitq[s]) = Elems(k.waitq[s]) \ {u}
  BY <1>3 DEF QueuesLose, MutexAssumption
<1>8. ChainOk(x)
  <2>1. ASSUME NEW v \in Suspended(r) PROVE m.pending[v] \in Mutexes /\ v \in Elems(r.waitq[m.pending[v]])
    BY <1>2, <1>5, <1>7, <2>1
  <2>2. ASSUME NEW s \in Mutexes, Elems(r.waitq[s]) # {} PROVE m.owner[s] \in Threads
    BY <1>2, <1>7, <2>2
  <2> QED
    BY <1>2, <1>3, <1>6, <2>1, <2>2 DEF ChainOk
<1>9. OwnerBooks(x)
  <2>1. ASSUME NEW s \in Mutexes, m.life[s] = "alive"
        PROVE  /\ \A v \in Threads : s \in m.taken[v] <=> m.owner[s] = v
               /\ m.hold[s] > 0 <=> m.owner[s] # NoThread
               /\ m.owner[s] \notin Elems(k.waitq[s])
    BY <1>2, <2>1 DEF OwnerBooks
  <2> QED
    BY <1>6, <1>7, <2>1 DEF OwnerBooks
<1>10. /\ call'[t].op = "none" /\ call'[u].op = "none" /\ call'[t].pc = "sched"
       /\ \A v \in Threads \ {t, u} : call'[v] = call[v]
       /\ call' \in [Threads -> Calls({"none", "lock"}, {"none"} \cup Mutexes)]
  <2> DEFINE c == [UserCode EXCEPT !.pc = "sched"]
  <2>1. /\ UserCode \in Calls({"none", "lock"}, {"none"} \cup Mutexes) /\ UserCode.op = "none"
        /\ c \in Calls({"none", "lock"}, {"none"} \cup Mutexes) /\ c.op = "none" /\ c.pc = "sched"
    BY DEF UserCode, Calls
  <2>2. call \in [Threads -> Calls({"none", "lock"}, {"none"} \cup Mutexes)]
    BY DEF MutexInv, LockCalls, CallsFit
  <2>3. call' = [call EXCEPT ![u] = UserCode, ![t] = c]
    BY <1>1
  <2> HIDE DEF c
  <2>4. u # t
    BY <1>1
  <2> QED
    BY <2>1, <2>2, <2>3, <2>4
<1>11. TakerBooks(x, call')
  <2>1. ASSUME NEW v \in Suspended(r)
        PROVE  call'[v].op = "lock" /\ call'[v].obj = m.pending[v] /\ k.error[v] = "EOK"
    <3>1. v \in Suspended(k) /\ v # u /\ v \in Threads
      BY <1>2, <1>5, <2>1
    <3>2. call[v].op = "lock" /\ call[v].obj = m.pending[v] /\ k.error[v] = "EOK"
      BY <1>2, <3>1 DEF TakerBooks
    <3> QED
      BY <1>2, <1>10, <3>1, <3>2
  <2>2. ASSUME NEW v \in Threads, call'[v].op = "lock"
        PROVE  /\ call'[v].obj \in Mutexes
               /\ (v \notin Suspended(r) /\ k.error[v] = "EOK") => m.owner[call'[v].obj] = v
    <3>1. v \notin {t, u} /\ call'[v] = call[v]
      BY <1>10, <2>2
    <3> QED
      BY <1>2, <1>5, <2>2, <3>1 DEF TakerBooks
  <2> QED
    BY <1>3, <1>6, <2>1, <2>2 DEF TakerBooks
<1>12. PICK w : /\ Become(w) /\ ChainOk(w) /\ OwnerBooks(w) /\ TakerBooks(w, call')
                /\ w.k.cur = r.cur /\ w.k.nest = r.nest /\ w.k.stat = r.stat
  <2>1. CASE ~IsMutex(State, q)
    BY <1>1, <1>6, <1>8, <1>9, <1>11, <2>1
  <2>2. CASE IsMutex(State, q)
    <3>1. q \in Mutexes /\ m.owner[q] \in Threads /\ Become(z)
      BY <1>1, <1>2, <1>4, <2>2 DEF IsMutex
    <3> HIDE DEF q
    <3>2. Shuffled(x, y)
      BY <1>6, <1>8, <3>1, GiveUpShuffles
    <3> HIDE DEF y
    <3>3. ChainOk(y) /\ OwnerBooks(y) /\ TakerBooks(y, call')
      BY <1>9, <1>11, <3>2, BooksShuffled
    <3>4. Suspended(y.k) = Suspended(r) /\ y.k.cur = r.cur /\ y.k.nest = r.nest /\ y.k.stat = r.stat
      BY <1>6, <3>2, ShuffledSuspended DEF Shuffled
    <3>5. /\ z.k = y.k /\ z = [k |-> z.k, m |-> z.m] /\ z.m \in MutexState
          /\ z.m.owner = y.m.owner /\ z.m.hold = y.m.hold /\ z.m.life = y.m.life /\ z.m.taken = y.m.taken
          /\ z.m.pending = [y.m.pending EXCEPT ![u] = NoMutex]
          /\ y.m.pending \in [Threads -> Mutexes \cup {NoMutex}]
      <4> DEFINE n == [y.m EXCEPT !.pending[u] = NoMutex]
      <4>1. y = [k |-> y.k, m |-> y.m] /\ y.m \in MutexState
        BY <3>3 DEF ChainOk
      <4>2. z = [k |-> y.k, m |-> n]
        BY <4>1
      <4>3. /\ n \in MutexState /\ n.owner = y.m.owner /\ n.hold = y.m.hold /\ n.life = y.m.life
            /\ n.taken = y.m.taken /\ n.pending = [y.m.pending EXCEPT ![u] = NoMutex]
            /\ y.m.pending \in [Threads -> Mutexes \cup {NoMutex}]
        BY <4>1 DEF MutexState
      <4> HIDE DEF n, z
      <4> QED
        BY <4>2, <4>3
    <3> HIDE DEF z
    <3>6. ASSUME NEW v \in Suspended(z.k) PROVE v \in Suspended(y.k) /\ z.m.pending[v] = y.m.pending[v]
      BY <1>2, <1>5, <3>4, <3>5, <3>6
    <3>7. ChainOk(z)
      <4>1. ASSUME NEW v \in Suspended(z.k)
            PROVE  z.m.pending[v] \in Mutexes /\ v \in Elems(z.k.waitq[z.m.pending[v]])
        BY <3>3, <3>5, <3>6, <4>1 DEF ChainOk
      <4> QED
        BY <3>3, <3>5, <4>1 DEF ChainOk
    <3>8. OwnerBooks(z)
      BY <3>3, <3>5 DEF OwnerBooks
    <3>9. TakerBooks(z, call')
      <4>1. ASSUME NEW v \in Suspended(z.k)
            PROVE  call'[v].op = "lock" /\ call'[v].obj = z.m.pending[v] /\ z.k.error[v] = "EOK"
        BY <3>3, <3>5, <3>6, <4>1 DEF TakerBooks
      <4> QED
        BY <3>3, <3>5, <4>1 DEF TakerBooks
    <3> QED
      BY <3>1, <3>4, <3>5, <3>7, <3>8, <3>9
  <2> QED
    BY <2>1, <2>2
<1>13. k' = w.k /\ w.k.nest = 0 /\ k'.cur = k.cur
  BY <1>3, <1>12 DEF Become
<1>14. LockCalls'
  <2>1. \A v \in Threads : call'[v].pc = "user" => call'[v].op = "none"
    BY <1>10 DEF MutexInv, LockCalls, CallsFit
  <2>2. call'[IdleThread].op = "none"
    BY <1>1, <1>10 DEF MutexInv, LockCalls, CallsFit, KernelAssumption
  <2>3. call'[k'.cur].pc = "sched"
    BY <1>1, <1>10, <1>13
  <2>4. call' \in [Threads -> Calls({"none", "lock"}, {"none"} \cup Mutexes)]
    BY <1>10
  <2> QED
    BY <2>1, <2>2, <2>3, <2>4 DEF LockCalls, CallsFit
<1> QED
  BY <1>12, <1>13, <1>14, StepTo

LEMMA MutexNextKeeps ==
    ASSUME KernelAssumption, MutexAssumption, OnlyMutexWaits, MutexInv, [MutexNext]_mutexVars
    PROVE  MutexInv'
<1>1. CASE UNCHANGED mutexVars
  <2>1. k' = k /\ m' = m /\ call' = call
    BY <1>1 DEF mutexVars
  <2>2. Become(State)
    BY <2>1 DEF Become, State
  <2>3. LockCalls'
    BY <2>1 DEF MutexInv, LockCalls, CallsFit
  <2>4. State.k = k /\ TakerBooks(State, call')
    BY <2>1 DEF MutexInv, State
  <2> QED
    BY <2>2, <2>3, <2>4, StepTo DEF MutexInv
<1>2. CASE MutexKernelSteps
  BY <1>2, KernelStepsKeep
<1>3. ASSUME NEW t \in Threads, MutexCalls(t) PROVE MutexInv'
  <2>1. ASSUME NEW q \in Mutexes, MutexTakeAgain(t, q) PROVE MutexInv'
    BY <2>1, TakeAgainKeeps
  <2>2. ASSUME NEW q \in Mutexes, MutexTakeFree(t, q) PROVE MutexInv'
    BY <2>2, TakeFreeKeeps
  <2>3. ASSUME NEW q \in Mutexes, MutexTryTakeFails(t, q) PROVE MutexInv'
    BY <2>3, MutexTryTakeKeeps
  <2>4. ASSUME NEW q \in Mutexes, MutexReleaseOne(t, q) PROVE MutexInv'
    BY <2>4, ReleaseOneKeeps
  <2>5. ASSUME NEW q \in Mutexes, MutexRelease(t, q) PROVE MutexInv'
    BY <2>5, MutexReleaseKeeps
  <2>6. ASSUME NEW q \in Mutexes, NEW how \in {"detached", "freed"} \cap MutexOps, MutexRemove(t, q, how)
        PROVE  MutexInv'
    BY <2>6, RemoveKeeps
  <2>7. ASSUME NEW q \in Mutexes, NEW n \in Timeouts, MutexTakeWait(t, q, n) PROVE MutexInv'
    BY <2>7, MutexTakeWaitKeeps
  <2>8. ASSUME NEW q \in Mutexes, NEW p \in Ceilings, MutexSetPrioCeiling(t, q, p) PROVE MutexInv'
    BY <2>8, CeilingKeeps
  <2>9. CASE MutexTakeBack(t)
    BY <2>9, MutexTakeBackKeeps
  <2>10. CASE ThreadSuspendSelf(t)
    BY <2>10 DEF ThreadSuspendSelf, OnlyMutexWaits
  <2>11. ASSUME NEW u \in Threads, ThreadDrop(t, u) PROVE MutexInv'
    BY <2>11, DropKeeps
  <2>12. ASSUME NEW u \in Threads, ThreadWake(t, u) PROVE FALSE
    <3>1. k.stat[u] = "suspend" /\ call[u].op = "none"
      BY <2>12 DEF ThreadWake, OnlyMutexWaits
    <3>2. u \in Suspended(k) /\ State.k = k
      BY <3>1 DEF Suspended, State
    <3> QED
      BY <3>1, <3>2 DEF MutexInv, TakerBooks
  <2> QED
    BY <1>3, <2>1, <2>2, <2>3, <2>4, <2>5, <2>6, <2>7, <2>8, <2>9, <2>10, <2>11, <2>12 DEF MutexCalls
<1> QED
  BY <1>1, <1>2, <1>3 DEF MutexNext

LEMMA MutexInvariant ==
    ASSUME KernelAssumption, MutexAssumption, OnlyMutexWaits
    PROVE  MutexSpec => []MutexInv
<1>1. MutexInit => MutexInv
  BY MutexInvInit
<1>2. MutexInv /\ [MutexNext]_mutexVars => MutexInv'
  BY MutexNextKeeps
<1> QED
  BY <1>1, <1>2, PTL DEF MutexSpec

(* A suspended thread is on the list of its pending mutex and of no other. *)
LEMMA PendingMeans ==
    ASSUME MutexAssumption, MutexInv
    PROVE  PendingIsList /\ OnlyTakersOnList
<1>1. /\ Sane(k) /\ State.k = k /\ State.m = m /\ Suspended(k) = {t \in Threads : k.stat[t] = "suspend"}
      /\ \A t \in Suspended(k) : m.pending[t] \in Mutexes /\ t \in Elems(k.waitq[m.pending[t]])
      /\ TakerBooks(State, call)
  BY InvMeans DEF MutexInv
<1>2. ASSUME NEW t \in Suspended(k), NEW q \in Mutexes, t \in Elems(k.waitq[q]) PROVE m.pending[t] = q
  <2>1. QueuesApart(k) /\ q \in Queues /\ m.pending[t] \in Queues
    BY <1>1 DEF Sane, ExactBut, MutexAssumption
  <2> QED
    BY <1>1, <1>2, <2>1 DEF QueuesApart
<1>3. PendingIsList
  BY <1>1, <1>2 DEF PendingIsList
<1>4. ASSUME NEW q \in Mutexes, NEW t \in Elems(k.waitq[q])
      PROVE  call[t].op = "lock" /\ call[t].obj = q /\ k.stat[t] = "suspend"
  <2>1. q \in Queues /\ k.waitq[q] \in Lists1(Threads)
    BY <1>1 DEF Sane, KernelState, MutexAssumption
  <2>2. t \in Threads
    BY <2>1, ListElems
  <2>3. k.stat[t] = "suspend"
    BY <1>1, <1>4, <2>1, <2>2 DEF Sane, ExactBut, Agrees
  <2>4. t \in Suspended(k) /\ m.pending[t] = q
    BY <1>1, <1>2, <1>4, <2>2, <2>3
  <2> QED
    BY <1>1, <2>3, <2>4 DEF TakerBooks
<1> QED
  BY <1>3, <1>4 DEF OnlyTakersOnList

(* The fields of the kernel and of the mutexes keep their types whatever   *)
(* the calls and their order; hold stays within RT_MUTEX_HOLD_MAX.         *)
THEOREM MutexTypes ==
    ASSUME KernelAssumption, MutexAssumption, OnlyMutexWaits
    PROVE  MutexSpec => []MutexTypeOK
<1>1. MutexInv => MutexTypeOK
  <2> SUFFICES ASSUME MutexInv PROVE MutexTypeOK
    OBVIOUS
  <2>1. Sane(k) /\ m \in MutexState
    BY InvMeans
  <2>2. KernelTypeOK
    BY <2>1, KernelTypes DEF MutexInv, LockCalls, CallsFit
  <2> QED
    BY <2>1, <2>2 DEF MutexTypeOK, MutexState
<1> QED
  BY <1>1, MutexInvariant, PTL

(* The books of ownership agree: rt_mutex_take, rt_mutex_release with its  *)
(* handover, rt_mutex_detach, timeouts and the closing of waiters leave    *)
(* owner, hold, taken_object_list and the suspend list telling the same,   *)
(* and nobody ever waits for a mutex that is free or its own.              *)
THEOREM MutexOwnership ==
    ASSUME KernelAssumption, MutexAssumption, OnlyMutexWaits
    PROVE  MutexSpec => []OwnershipExact
<1>1. MutexInv => OwnershipExact
  <2> SUFFICES ASSUME MutexInv PROVE OwnershipExact
    OBVIOUS
  <2>1. /\ Sane(k) /\ State.k = k /\ State.m = m /\ OwnerBooks(State)
        /\ \A q \in Mutexes : Elems(k.waitq[q]) # {} => m.owner[q] \in Threads
    BY InvMeans DEF MutexInv
  <2>2. ASSUME NEW q \in Mutexes, k.waitq[q] # <<>> PROVE Elems(k.waitq[q]) # {}
    <3>1. k.waitq[q] \in Lists1(Threads)
      BY <2>1 DEF Sane, KernelState, MutexAssumption
    <3> QED
      BY <2>2, <3>1, ListElems
  <2> QED
    BY <2>1, <2>2 DEF OwnerBooks, OwnershipExact
<1> QED
  BY <1>1, MutexInvariant, PTL

(* A rt_mutex_take that waited and returns RT_EOK owns the mutex, although *)
(* others ran between the handover and its return.                         *)
THEOREM MutexTakeOk ==
    ASSUME KernelAssumption, MutexAssumption, OnlyMutexWaits
    PROVE  MutexSpec => []TakeOkOwns
<1>1. MutexInv => TakeOkOwns
  <2> SUFFICES ASSUME MutexInv PROVE TakeOkOwns
    OBVIOUS
  <2>1. /\ State.k = k /\ State.m = m /\ TakerBooks(State, call)
        /\ Suspended(k) = {t \in Threads : k.stat[t] = "suspend"}
    BY InvMeans DEF MutexInv
  <2>2. ASSUME NEW t \in Threads, Returned(t, "lock") PROVE call[t].op = "lock" /\ t \notin Suspended(k)
    BY <2>1, <2>2 DEF MutexInv, LockCalls, CallsFit, Returned
  <2> QED
    BY <2>1, <2>2 DEF TakerBooks, TakeOkOwns
<1> QED
  BY <1>1, MutexInvariant, PTL

(* The kernel's lists stay exact under inheritance, which moves threads    *)
(* between ready lists and within suspend lists: a suspended thread is on  *)
(* the list of its pending_object and no other, only threads suspended in  *)
(* rt_mutex_take are on such a list, and no timer outlives its wait.  On a *)
(* port with a clock waiters are closed under the conditions of InOneStep. *)
THEOREM MutexLists ==
    ASSUME KernelAssumption, MutexAssumption, OnlyMutexWaits
    PROVE  MutexSpec => [](ReadyTableExact /\ TimerOfSuspended /\ PendingIsList /\ OnlyTakersOnList)
<1>1. MutexInv => ReadyTableExact /\ TimerOfSuspended
  BY InvMeans, SaneWhole DEF MutexInv, LockCalls, CallsFit
<1>2. MutexInv => PendingIsList /\ OnlyTakersOnList
  BY PendingMeans
<1> QED
  BY <1>1, <1>2, MutexInvariant, PTL
=============================================================================
