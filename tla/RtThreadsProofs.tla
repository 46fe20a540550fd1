--------------------------- MODULE RtThreadsProofs --------------------------
(***************************************************************************)
(* What the kernel keeps, for any threads, priorities, time slices, waiting *)
(* times and calls of the application, with a clock or without, when the   *)
(* application keeps both rules of RtThreads.                              *)
(***************************************************************************)
EXTENDS RtThreads, RtKernelLemmas

ThreadCallState ==
    [pc : {"user", "sched", "back"} \cup Parts,
     op : {"none", "sleep", "start", "resume", "delete"}, obj : {"none"} \cup Threads]

(* t is between two parts of a call *)
Deals(t) == call[t].pc \in Parts

(* the current thread t, whose scheduler lock or missing clock keeps u ready *)
Held(t, u) ==
    /\ k.stat[u] = "ready" /\ t = k.cur
    /\ k.nest # 0 \/ (~ClockISR /\ call[t].pc \in {"remove", "close"})

(* What the first part of a call has found of its thread is still so when  *)
(* the next part comes, whatever has run in between; or the thread is      *)
(* ready by now, but under the scheduler lock.                             *)
HandledWell(t) ==
    LET u == call[t].obj
        pc == call[t].pc
    IN /\ u \in Threads \ {IdleThread} /\ t # IdleThread
       /\ u = t => pc \in {"remove", "close"} /\ k.stat[t] \in {"running", "ready"}
       /\ u # t => /\ u # k.cur
                   /\ \/ k.stat[u] = "suspend" \/ Held(t, u)
                      \/ k.stat[u] = "init" /\ pc \in {"remove", "close"}
                   /\ pc = "insert" => u \notin Elems(k.timers)
                   /\ ClockISR /\ u \in Elems(k.timers) =>
                          pc = "resume" /\ t = k.cur /\ k.nest # 0

(* no two calls on one thread *)
OneCallEach ==
    \A t, x \in Threads : Deals(t) /\ Deals(x) /\ call[t].obj = call[x].obj => t = x

(* The current thread has taken another one off the ready table and not    *)
(* put it on the next list yet.                                            *)
Torn ==
    LET c == call[k.cur]
    IN c.pc \in {"insert", "close"} /\ c.obj # k.cur /\ k.stat[c.obj] = "ready"

Bits(kk) == {p \in Prios : Elems(kk.table[p]) # {}}

(* Then the kernel is as it would be if that thread were suspended, but    *)
(* that its bit may be one too many.                                       *)
Settled(kk, u) == [kk EXCEPT !.stat[u] = "suspend", !.group = Bits(kk)]

HalfWay(kk, u) ==
    /\ kk \in KernelState /\ Sane(Settled(kk, u)) /\ Off(kk, u) /\ u \notin Elems(kk.timers)
    /\ u # kk.cur /\ kk.stat[u] = "ready"
    /\ Bits(kk) \subseteq kk.group /\ kk.group \subseteq Bits(kk) \cup {kk.prio[u]}

KernelFits ==
    /\ k.isr => ClockISR
    /\ \A q \in Queues : Elems(k.waitq[q]) = {}
    /\ IF Torn THEN /\ HalfWay(k, call[k.cur].obj)
                    /\ call[k.cur].pc = "close" => k.group = Bits(k)
               ELSE Sane(k)

CallsFitKernel ==
    /\ call \in [Threads -> ThreadCallState]
    /\ \A t \in Threads : Deals(t) => HandledWell(t)
    /\ OneCallEach
    /\ k.stat[k.cur] = "suspend" => call[k.cur].pc = "sched" /\ k.nest = 0

(* The inductive invariant: lists, states and bitmap agree, but for the    *)
(* one thread that is between two lists; the calls in progress still rest  *)
(* on what they have found; and unless rescheduling is owed the most       *)
(* urgent thread runs.                                                     *)
ThreadsInv ==
    /\ KernelFits /\ CallsFitKernel
    /\ owed \in BOOLEAN /\ (owed \/ MostUrgentRuns)

----------------------------------------------------------------------------
(* The parts of the calls, one by one.                                     *)

(* ResumeUnlinks finds its thread suspended. *)
LEMMA UnlinkSane ==
    ASSUME NEW kk, Sane(kk), NEW t \in Threads, kk.stat[t] = "suspend"
    PROVE  LET r == rt_timer_stop(rt_list_remove(kk, t), t)
           IN /\ Sane(r) /\ SameCore(kk, r) /\ r.stat = kk.stat /\ r.group = kk.group
              /\ QueuesLose(kk, r, t) /\ Elems(r.timers) = Elems(kk.timers) \ {t}
<1> DEFINE a == rt_list_remove(kk, t)
           r == rt_timer_stop(a, t)
<1>1. kk \in KernelState /\ ExactBut(kk, {}) /\ kk.stat[t] # "ready"
  BY DEF Sane
<1>2. /\ a \in KernelState /\ ExactBut(a, {t}) /\ SameCore(kk, a) /\ a.group = kk.group
      /\ a.stat = kk.stat /\ a.timers = kk.timers
      /\ \A q \in Queues : Elems(a.waitq[q]) = Elems(kk.waitq[q]) \ {t}
      /\ \A q \in Queues : t \notin Elems(kk.waitq[q]) => a.waitq[q] = kk.waitq[q]
  BY <1>1, ListRemove, ListRemoveExact
<1> HIDE DEF a
<1>3. /\ r \in KernelState /\ ExactBut(r, {t}) /\ SameCore(a, r) /\ r.group = a.group
      /\ r.stat = a.stat /\ r.waitq = a.waitq /\ Elems(r.timers) = Elems(a.timers) \ {t}
  BY <1>2, TimerStop, ZenonT(40)
<1> HIDE DEF r
<1>4. ExactBut(r, {})
  BY <1>2, <1>3, TakeIn
<1>5. Sane(r)
  BY <1>2, <1>3, <1>4 DEF Sane, SameCore, OneRuns
<1>6. SameCore(kk, r) /\ QueuesLose(kk, r, t)
  BY <1>2, <1>3 DEF SameCore, QueuesLose
<1> QED
  BY <1>2, <1>3, <1>5, <1>6 DEF r, a

(* A thread that was ready is on no list now. *)
LEMMA TornApart ==
    ASSUME KernelAssumption, NEW kk, Sane(kk), NEW t \in Threads \ {IdleThread}, t # kk.cur,
           kk.stat[t] = "ready", NEW r \in KernelState,
           LET a == rt_list_remove(kk, t)
           IN r.table = a.table /\ r.waitq = a.waitq /\ r.defunct = a.defunct,
           r.timers = kk.timers, r.stat = kk.stat, r.prio = kk.prio, r.cur = kk.cur,
           r.group \in {kk.group, Bits(r)}
    PROVE  HalfWay(r, t)
<1> DEFINE a == rt_list_remove(kk, t)
           b == rt_schedule_remove_thread(kk, t)
           s == rt_thread_suspend(kk, t)
           z == Settled(r, t)
<1>1. /\ kk \in KernelState /\ ExactBut(kk, {}) /\ Agrees(kk, t) /\ t \notin Elems(kk.timers)
      /\ kk.stat \in [Threads -> Statuses]
  BY DEF Sane, ExactBut, Agrees, KernelState
<1>2. /\ a \in KernelState
      /\ \A p \in Prios : Elems(a.table[p]) = Elems(kk.table[p]) \ {t}
      /\ \A q \in Queues : Elems(a.waitq[q]) = Elems(kk.waitq[q]) \ {t}
      /\ Elems(a.defunct) = Elems(kk.defunct) \ {t}
  BY <1>1, ListRemove
<1>3. /\ b.table = a.table /\ b.waitq = a.waitq /\ b.defunct = a.defunct /\ b.timers = kk.timers
      /\ b \in KernelState
  <2>1. b \in KernelState /\ b.timers = kk.timers
    BY <1>1, ScheduleRemove
  <2>2. b = IF a.table[a.prio[t]] = <<>> THEN [a EXCEPT !.group = @ \ {a.prio[t]}] ELSE a
    BY DEF rt_schedule_remove_thread
  <2> HIDE DEF a, b
  <2> QED
    BY <1>2, <2>1, <2>2 DEF KernelState
<1>4. /\ s.table = b.table /\ s.waitq = b.waitq /\ s.defunct = b.defunct /\ s.timers = kk.timers
  <2>1. s = [rt_timer_stop(b, t) EXCEPT !.stat[t] = "suspend"]
    BY DEF rt_thread_suspend
  <2> HIDE DEF b, s
  <2>2. s.table = b.table /\ s.waitq = b.waitq /\ s.defunct = b.defunct
        /\ s.timers = Without(b.timers, t)
    BY <1>3, <2>1 DEF KernelState, rt_timer_stop
  <2> QED
    BY <1>1, <1>3, <2>2 DEF Without
<1>5. /\ Sane(s) /\ SameCore(kk, s) /\ s.stat = [kk.stat EXCEPT ![t] = "suspend"]
  BY SaneSuspend
<1> HIDE DEF a, b, s
<1>6. s.group = Bits(s)
  BY <1>5 DEF Sane, ExactBut, GroupExact, Bits
<1>7. Bits(r) = Bits(s)
  BY <1>3, <1>4 DEF Bits, a
<1>8. /\ z \in KernelState /\ z.table = r.table /\ z.waitq = r.waitq /\ z.defunct = r.defunct
      /\ z.timers = r.timers /\ z.prio = r.prio /\ z.cur = r.cur /\ z.group = Bits(r)
      /\ z.stat = [r.stat EXCEPT ![t] = "suspend"]
  BY DEF Settled, KernelState, Statuses, Bits
<1> HIDE DEF z
<1>9. Sane(z)
  BY <1>3, <1>4, <1>5, <1>6, <1>7, <1>8, SaneFrame DEF SameCore, a
<1>10. Off(r, t)
  BY <1>2 DEF Off, a
<1>11. Bits(r) \subseteq r.group /\ r.group \subseteq Bits(r) \cup {r.prio[t]}
  <2>1. kk.group = Bits(kk) /\ \A p \in Prios : t \in Elems(kk.table[p]) => p = kk.prio[t]
    BY <1>1 DEF ExactBut, GroupExact, Agrees, Bits
  <2>2. \A p \in Prios : Elems(r.table[p]) = Elems(kk.table[p]) \ {t}
    BY <1>2 DEF a
  <2>3. Bits(r) \subseteq kk.group
    BY <2>1, <2>2 DEF Bits
  <2>4. ASSUME NEW p \in kk.group PROVE p \in Bits(r) \cup {kk.prio[t]}
    BY <2>1, <2>2, <2>4 DEF Bits
  <2> QED
    BY <2>3, <2>4
<1> QED
  BY <1>1, <1>9, <1>10, <1>11 DEF HalfWay, z

(* DeleteRemoves finds its thread not ready. *)
LEMMA UnscheduleSane ==
    ASSUME NEW kk, Sane(kk), NEW t \in Threads, kk.stat[t] \in {"init", "suspend", "running"}
    PROVE  LET r == Unschedule(kk, t)
           IN /\ Sane(r) /\ SameCore(kk, r) /\ r.stat = kk.stat /\ r.group \subseteq kk.group
              /\ QueuesLose(kk, r, t) /\ r.timers = kk.timers
<1> DEFINE r == Unschedule(kk, t)
<1>1. kk \in KernelState /\ ExactBut(kk, {}) /\ Agrees(kk, t)
  BY DEF Sane, ExactBut
<1>2. /\ r \in KernelState /\ ExactBut(r, {t}) /\ SameCore(kk, r)
      /\ r.stat = kk.stat /\ r.group \subseteq kk.group /\ QueuesLose(kk, r, t)
      /\ r.timers = kk.timers
  BY <1>1, UnscheduleEffect
<1> HIDE DEF r
<1>3. ExactBut(r, {})
  BY <1>1, <1>2, TakeIn DEF Agrees
<1>4. Sane(r)
  BY <1>2, <1>3 DEF Sane, SameCore, OneRuns
<1> QED
  BY <1>2, <1>4 DEF r

(* ResumeInserts finds its thread on no list. *)
LEMMA InsertSane ==
    ASSUME KernelAssumption, NEW kk, Sane(kk), NEW t \in Threads, t # kk.cur,
           kk.stat[t] = "suspend", Off(kk, t), t \notin Elems(kk.timers)
    PROVE  LET r == rt_schedule_insert_thread(kk, t)
           IN /\ Sane(r) /\ SameCore(kk, r) /\ r.timers = kk.timers /\ r.waitq = kk.waitq
              /\ r.stat = [kk.stat EXCEPT ![t] = "ready"]
<1> DEFINE r == rt_schedule_insert_thread(kk, t)
<1>1. kk \in KernelState /\ ExactBut(kk, {t}) /\ kk.stat \in [Threads -> Statuses]
  BY DEF Sane, ExactBut, KernelState
<1>2. /\ r \in KernelState /\ ExactBut(r, {}) /\ SameCore(kk, r)
      /\ r.timers = kk.timers /\ r.waitq = kk.waitq
      /\ r.stat = [kk.stat EXCEPT ![t] = "ready"]
  BY <1>1, ScheduleInsert
<1> HIDE DEF r
<1>3. Sane(r)
  BY <1>1, <1>2 DEF Sane, SameCore, OneRuns
<1> QED
  BY <1>2, <1>3 DEF r

LEMMA InsertTorn ==
    ASSUME KernelAssumption, NEW u \in Threads, NEW kk, HalfWay(kk, u)
    PROVE  LET r == rt_schedule_insert_thread(kk, u)
           IN /\ Sane(r) /\ SameCore(kk, r) /\ r.timers = kk.timers /\ r.waitq = kk.waitq
              /\ r.stat = kk.stat
<1> DEFINE s == Settled(kk, u)
           r == rt_schedule_insert_thread(kk, u)
           z == rt_schedule_insert_thread(s, u)
           p == kk.prio[u]
           new == IF u \in kk.yield THEN Append(kk.table[p], u) ELSE <<u>> \o kk.table[p]
<1>1. /\ kk \in KernelState /\ Sane(s) /\ Off(kk, u) /\ u \notin Elems(kk.timers) /\ u # kk.cur
      /\ kk.stat[u] = "ready" /\ p \in Prios
      /\ Bits(kk) \subseteq kk.group /\ kk.group \subseteq Bits(kk) \cup {p}
  BY DEF HalfWay, KernelState
<1>2. /\ s.stat = [kk.stat EXCEPT ![u] = "suspend"] /\ s.stat[u] = "suspend" /\ s.group = Bits(kk)
      /\ s.table = kk.table /\ s.waitq = kk.waitq /\ s.defunct = kk.defunct
      /\ s.timers = kk.timers /\ s.prio = kk.prio /\ s.yield = kk.yield /\ SameCore(kk, s)
  BY <1>1 DEF Settled, KernelState, SameCore
<1>3. s \in KernelState
  BY <1>1 DEF Sane
<1>4. r = [kk EXCEPT !.stat[u] = "ready", !.table[p] = new, !.group = @ \cup {p}]
  BY <1>1 DEF rt_schedule_insert_thread
<1>5. z = [s EXCEPT !.stat[u] = "ready", !.table[p] = new, !.group = @ \cup {p}]
  BY <1>1, <1>2 DEF rt_schedule_insert_thread, SameCore
<1>6. Off(s, u) /\ u # s.cur
  BY <1>1, <1>2 DEF Off, SameCore
<1>7. Sane(z) /\ SameCore(s, z) /\ z.timers = s.timers /\ z.waitq = s.waitq
  BY <1>1, <1>2, <1>6, InsertSane
<1> HIDE DEF s, r, z, new, p
<1>8. /\ z.table = [kk.table EXCEPT ![p] = new] /\ z.group = Bits(kk) \cup {p}
      /\ z.defunct = kk.defunct /\ z.stat = [s.stat EXCEPT ![u] = "ready"]
  BY <1>2, <1>3, <1>5 DEF KernelState
<1>9. /\ r.table = [kk.table EXCEPT ![p] = new] /\ r.group = kk.group \cup {p}
      /\ r.waitq = kk.waitq /\ r.defunct = kk.defunct /\ r.timers = kk.timers
      /\ r.stat = [kk.stat EXCEPT ![u] = "ready"] /\ SameCore(kk, r) /\ r.left = kk.left
      /\ r = [kk EXCEPT !.stat = r.stat, !.table = r.table, !.group = r.group]
  BY <1>1, <1>4 DEF KernelState, SameCore
<1>10. r.group = z.group /\ r.stat = z.stat /\ r.table = z.table
  <2>1. kk.stat \in [Threads -> Statuses]
    BY <1>1 DEF KernelState
  <2> QED
    BY <1>1, <1>2, <1>8, <1>9, <2>1
<1>11. r \in KernelState
  <2>1. z.stat \in [Threads -> Statuses] /\ z.table \in [Prios -> Lists1(Threads)] /\ z.group \in SUBSET Prios
    BY <1>7 DEF Sane, KernelState
  <2> QED
    BY <1>1, <1>9, <1>10, <2>1 DEF KernelState
<1>12. Sane(r)
  BY <1>2, <1>7, <1>8, <1>9, <1>10, <1>11, SaneFrame DEF SameCore
<1>13. r.stat = kk.stat
  <2>1. kk.stat \in [Threads -> Statuses]
    BY <1>1 DEF KernelState
  <2> QED
    BY <1>1, <1>9, <2>1
<1> QED
  BY <1>9, <1>12, <1>13 DEF r

(* DeleteCloses finds its thread on no list. *)
LEMMA DefunctSane ==
    ASSUME NEW kk, Sane(kk), NEW t \in Threads \ {IdleThread}, Off(kk, t)
    PROVE  LET r == MakeDefunct(kk, t)
           IN /\ Sane(r) /\ r.cur = kk.cur /\ r.nest = kk.nest /\ r.isr = kk.isr
              /\ r.prio = kk.prio /\ r.group = kk.group /\ r.waitq = kk.waitq
              /\ r.stat = [kk.stat EXCEPT ![t] = "close"]
              /\ Elems(r.timers) = Elems(kk.timers) \ {t}
<1> DEFINE r == MakeDefunct(kk, t)
<1>1. kk \in KernelState /\ ExactBut(kk, {t}) /\ kk.stat \in [Threads -> Statuses] /\ kk.cur \in Threads
  BY DEF Sane, ExactBut, KernelState
<1>2. /\ r \in KernelState /\ ExactBut(r, {})
      /\ r.cur = kk.cur /\ r.nest = kk.nest /\ r.isr = kk.isr /\ r.prio = kk.prio
      /\ r.group = kk.group /\ r.waitq = kk.waitq
      /\ r.stat = [kk.stat EXCEPT ![t] = "close"]
      /\ Elems(r.timers) = Elems(kk.timers) \ {t}
  BY <1>1, DefunctEffect
<1> HIDE DEF r
<1>3. \A u \in Threads : r.stat[u] = IF u = t THEN "close" ELSE kk.stat[u]
  BY <1>1, <1>2
<1>4. Sane(r)
  BY <1>1, <1>2, <1>3 DEF Sane, OneRuns
<1> QED
  BY <1>2, <1>4 DEF r

LEMMA DefunctTorn ==
    ASSUME NEW u \in Threads \ {IdleThread}, NEW kk, HalfWay(kk, u), kk.group = Bits(kk)
    PROVE  LET r == MakeDefunct(kk, u)
           IN /\ Sane(r) /\ r.cur = kk.cur /\ r.nest = kk.nest /\ r.isr = kk.isr
              /\ r.prio = kk.prio /\ r.group = kk.group /\ r.waitq = kk.waitq
              /\ r.stat = [kk.stat EXCEPT ![u] = "close"]
              /\ Elems(r.timers) = Elems(kk.timers) \ {u}
<1> DEFINE s == Settled(kk, u)
           r == MakeDefunct(kk, u)
           z == MakeDefunct(s, u)
<1>1. kk \in KernelState /\ Sane(s) /\ Off(kk, u) /\ kk.stat \in [Threads -> Statuses]
  BY DEF HalfWay, KernelState
<1>2. s = [kk EXCEPT !.stat[u] = "suspend"]
  BY <1>1 DEF Settled, KernelState
<1>3. Off(s, u) /\ s.group = kk.group /\ s.prio = kk.prio /\ s.waitq = kk.waitq /\ s.cur = kk.cur
      /\ s.nest = kk.nest /\ s.isr = kk.isr /\ s.timers = kk.timers
      /\ s.stat = [kk.stat EXCEPT ![u] = "suspend"]
  BY <1>1, <1>2 DEF Off, KernelState
<1>4. r = z
  <2> DEFINE new(x) == [x EXCEPT !.timers = Without(kk.timers, u), !.left = [kk.left EXCEPT ![u] = 0],
                                 !.stat = [kk.stat EXCEPT ![u] = "close"],
                                 !.yield = kk.yield \ {u}, !.defunct = <<u>> \o kk.defunct]
  <2>1. r = new(kk)
    BY <1>1 DEF MakeDefunct, rt_timer_stop, KernelState
  <2>2. [s.stat EXCEPT ![u] = "close"] = [kk.stat EXCEPT ![u] = "close"]
    BY <1>1, <1>3
  <2>3. /\ s.timers = kk.timers /\ s.left = kk.left /\ s.yield = kk.yield
        /\ s.defunct = kk.defunct /\ s \in KernelState
    BY <1>1, <1>2 DEF KernelState, Sane
  <2>4. z = new(s)
    <3> HIDE DEF s
    <3> QED
      BY <2>2, <2>3 DEF MakeDefunct, rt_timer_stop, KernelState
  <2> QED
    BY <1>1, <1>2, <2>1, <2>4 DEF KernelState
<1> HIDE DEF s, r, z
<1>5. /\ Sane(z) /\ z.cur = s.cur /\ z.nest = s.nest /\ z.isr = s.isr /\ z.prio = s.prio
      /\ z.group = s.group /\ z.waitq = s.waitq
      /\ z.stat = [s.stat EXCEPT ![u] = "close"]
      /\ Elems(z.timers) = Elems(s.timers) \ {u}
  BY <1>1, <1>3, DefunctSane DEF z
<1>6. z.stat = [kk.stat EXCEPT ![u] = "close"]
  BY <1>1, <1>3, <1>5
<1> QED
  BY <1>3, <1>4, <1>5, <1>6 DEF r

----------------------------------------------------------------------------
(* What a step may do while t is between two parts of a call.              *)
Undisturbed(t) ==
    LET u == call[t].obj
    IN /\ call'[t] = call[t]
       /\ u \in Elems(k'.timers) => u \in Elems(k.timers)
       /\ \/ k'.stat[u] = k.stat[u]
          \/ k'.stat[u] \in {"ready", "running"} /\ k.stat[u] \in {"ready", "running"}
          \/ k'.stat[u] \in {"ready", "running"} /\ ClockISR /\ u \in Elems(k.timers)
       /\ \/ k'.cur = k.cur /\ (t = k.cur => k'.nest = k.nest)
          \/ /\ k.nest = 0 /\ (t = k.cur => ClockISR)
             /\ k.stat[k'.cur] = "ready" \/ (ClockISR /\ k'.cur \in Elems(k.timers))

(* It leaves what the call has found as it is. *)
LEMMA StillHandled ==
    ASSUME NEW t \in Threads, Deals(t), HandledWell(t), Undisturbed(t), OneRuns(k')
    PROVE  HandledWell(t)'
<1> DEFINE u == call[t].obj
           pc == call[t].pc
<1>1. /\ u \in Threads \ {IdleThread} /\ t # IdleThread
      /\ u = t => pc \in {"remove", "close"} /\ k.stat[t] \in {"running", "ready"}
      /\ call'[t] = call[t]
  BY DEF HandledWell, Undisturbed
<1>2. CASE u = t
  <2>1. k'.stat[t] \in {"running", "ready"}
    BY <1>1, <1>2 DEF Undisturbed
  <2> QED
    BY <1>1, <1>2, <2>1 DEF HandledWell
<1>3. CASE u # t
  <2>1. /\ u # k.cur
        /\ k.stat[u] = "suspend" \/ Held(t, u) \/ (k.stat[u] = "init" /\ pc \in {"remove", "close"})
        /\ pc = "insert" => u \notin Elems(k.timers)
        /\ ClockISR /\ u \in Elems(k.timers) => pc = "resume" /\ t = k.cur /\ k.nest # 0
    BY <1>3 DEF HandledWell
  <2>2. u # k'.cur
    BY <2>1 DEF Undisturbed, Held
  <2>3. k'.stat[u] # "running"
    BY <1>1, <2>2 DEF OneRuns
  <2> DEFINE held == /\ k'.stat[u] = "ready" /\ t = k'.cur
                     /\ k'.nest # 0 \/ (~ClockISR /\ pc \in {"remove", "close"})
  <2>4. \/ k'.stat[u] = "suspend" \/ held
        \/ k'.stat[u] = "init" /\ pc \in {"remove", "close"}
    <3>1. CASE Held(t, u)
      <4>1. k.stat[u] = "ready" /\ t = k.cur /\ k'.stat[u] = "ready"
        BY <2>3, <3>1 DEF Held, Undisturbed
      <4>2. k'.cur = k.cur /\ k'.nest = k.nest
        BY <3>1 DEF Held, Undisturbed
      <4> QED
        BY <1>1, <3>1, <4>1, <4>2 DEF Held
    <3>2. CASE ~Held(t, u) /\ k'.stat[u] = k.stat[u]
      BY <2>1, <3>2
    <3>3. CASE ~Held(t, u) /\ k'.stat[u] # k.stat[u]
      <4>1. k.stat[u] \in {"suspend", "init"}
        BY <2>1, <3>3
      <4>2. k'.stat[u] = "ready" /\ ClockISR /\ u \in Elems(k.timers)
        BY <2>3, <3>3, <4>1 DEF Undisturbed
      <4>3. t = k.cur /\ k.nest # 0 /\ k'.cur = k.cur /\ k'.nest = k.nest
        BY <2>1, <4>2 DEF Undisturbed
      <4> QED
        BY <4>2, <4>3 DEF Held
    <3> QED
      BY <3>1, <3>2, <3>3
  <2>5. pc = "insert" => u \notin Elems(k'.timers)
    BY <2>1 DEF Undisturbed
  <2>6. ClockISR /\ u \in Elems(k'.timers) => pc = "resume" /\ t = k'.cur /\ k'.nest # 0
    BY <2>1 DEF Undisturbed
  <2> QED
    BY <1>1, <1>3, <2>2, <2>4, <2>5, <2>6 DEF HandledWell, Held
<1> QED
  BY <1>2, <1>3

(* It does not make a ready thread of one that is between two lists. *)
LEMMA StaysWhole ==
    ASSUME ~Torn, NEW t \in Threads, t = k'.cur, Deals(t) => HandledWell(t) /\ Undisturbed(t),
           Deals(t) \/ call'[t].pc \notin {"insert", "close"}, OneRuns(k')
    PROVE  ~Torn'
<1> SUFFICES ASSUME Torn' PROVE FALSE
  OBVIOUS
<1> DEFINE u == call[t].obj
           pc == call[t].pc
<1>1. Deals(t) /\ call'[t] = call[t] /\ pc \in {"insert", "close"} /\ u # t /\ k'.stat[u] = "ready"
  BY DEF Torn, Undisturbed
<1>2. /\ k.stat[u] = "suspend" \/ Held(t, u) \/ k.stat[u] = "init"
      /\ ClockISR => u \notin Elems(k.timers)
  BY <1>1 DEF HandledWell
<1>3. k.stat[u] = "ready"
  BY <1>1, <1>2 DEF Undisturbed, Held
<1>4. t = k.cur
  BY <1>2, <1>3 DEF Held
<1> QED
  BY <1>1, <1>3, <1>4 DEF Torn

(* So a step that begins and ends no part keeps the invariant. *)
LEMMA RegularStep ==
    ASSUME ThreadsInv, ~Torn, Sane(k'), k'.isr => ClockISR, \A q \in Queues : Elems(k'.waitq[q]) = {},
           call' \in [Threads -> ThreadCallState],
           \A t \in Threads : Deals(t)' => Deals(t) /\ Undisturbed(t),
           k'.stat[k'.cur] = "suspend" => call'[k'.cur].pc = "sched" /\ k'.nest = 0,
           owed' \in BOOLEAN, (owed \/ MostUrgentRuns)'
    PROVE  ThreadsInv'
<1>1. OneRuns(k') /\ k'.cur \in Threads
  BY DEF Sane, KernelState
<1>2. ASSUME NEW t \in Threads, Deals(t)' PROVE HandledWell(t)'
  BY <1>1, <1>2, StillHandled DEF ThreadsInv, CallsFitKernel
<1>3. OneCallEach'
  BY DEF ThreadsInv, CallsFitKernel, OneCallEach, Undisturbed
<1>4. ~Torn'
  <2>0. PICK t \in Threads : t = k'.cur
    BY <1>1
  <2>1. CASE Deals(t)'
    BY <1>1, <2>0, <2>1, StaysWhole DEF ThreadsInv, CallsFitKernel
  <2>2. CASE ~Deals(t)'
    BY <2>0, <2>2 DEF Torn, Deals, Parts
  <2> QED
    BY <2>1, <2>2
<1>5. KernelFits'
  BY <1>4 DEF KernelFits
<1>6. CallsFitKernel'
  BY <1>2, <1>3 DEF CallsFitKernel
<1> QED
  BY <1>5, <1>6 DEF ThreadsInv

(* A thread that runs its own code, or is on its way to rt_schedule or     *)
(* back, is in no part of a call, and no other one is in one on it.        *)
LEMMA Free ==
    ASSUME ThreadsInv, ~Deals(k.cur)
    PROVE  /\ ~Torn /\ Sane(k) /\ k.cur \in Threads /\ k \in KernelState
           /\ \A t \in Threads : Deals(t) => t # k.cur /\ call[t].obj # k.cur
<1>1. ~Torn
  BY DEF Torn, Deals, Parts
<1>2. Sane(k)
  BY <1>1 DEF ThreadsInv, KernelFits
<1>3. k \in KernelState /\ k.cur \in Threads
  BY <1>2 DEF Sane, KernelState
<1> QED
  BY <1>1, <1>2, <1>3 DEF ThreadsInv, CallsFitKernel, HandledWell

(* It may do what it likes to w, which nobody else handles. *)
LEMMA CalmStep ==
    ASSUME ThreadsInv, ~Deals(k.cur), NEW w \in Threads,
           \A t \in Threads : Deals(t) => call[t].obj # w,
           k'.cur = k.cur, Elems(k'.timers) \subseteq Elems(k.timers) \cup {w},
           \A x \in Threads \ {w} : k'.stat[x] = k.stat[x]
    PROVE  \A t \in Threads : Deals(t) /\ call'[t] = call[t] => Undisturbed(t)
<1>1. ASSUME NEW t \in Threads, Deals(t) PROVE t # k.cur /\ call[t].obj \in Threads
  BY <1>1 DEF ThreadsInv, CallsFitKernel, HandledWell
<1> QED
  BY <1>1 DEF Undisturbed

----------------------------------------------------------------------------
(* The clock interrupt between the parts of a call that has taken u off    *)
(* the ready table: the scheduler is locked, so the same thread goes on.   *)
LEMMA TornFrame ==
    ASSUME NEW u \in Threads, NEW kk, HalfWay(kk, u), NEW r \in KernelState,
           r.table = kk.table, r.group = kk.group, r.waitq = kk.waitq, r.defunct = kk.defunct,
           r.timers = kk.timers, r.stat = kk.stat, r.prio = kk.prio, r.cur = kk.cur
    PROVE  HalfWay(r, u) /\ Bits(r) = Bits(kk)
<1> DEFINE s == Settled(kk, u)
           z == Settled(r, u)
<1>1. kk \in KernelState /\ Sane(s) /\ s \in KernelState
  BY DEF HalfWay, Sane
<1>2. Bits(r) = Bits(kk)
  BY DEF Bits
<1>3. /\ z \in KernelState
      /\ z.table = s.table /\ z.group = s.group /\ z.waitq = s.waitq /\ z.defunct = s.defunct
      /\ z.timers = s.timers /\ z.stat = s.stat /\ z.prio = s.prio /\ z.cur = s.cur
  BY <1>1, <1>2 DEF Settled, KernelState, Statuses, Bits
<1> HIDE DEF s, z
<1>4. Sane(z)
  BY <1>1, <1>3, SaneFrame
<1>5. Off(r, u)
  BY DEF HalfWay, Off
<1> QED
  BY <1>2, <1>4, <1>5 DEF HalfWay, z

(* _thread_timeout under the scheduler lock, field by field *)
TimedTable(kk, h) ==
    LET tab == [p \in Prios |-> Without(kk.table[p], h)]
        new == IF h \in kk.yield THEN Append(tab[kk.prio[h]], h) ELSE <<h>> \o tab[kk.prio[h]]
    IN IF h = kk.cur THEN tab ELSE [tab EXCEPT ![kk.prio[h]] = new]

TimedQueues(kk, h) == [q \in Queues |-> Without(kk.waitq[q], h)]

TimedBits(kk, h) == IF h = kk.cur THEN {} ELSE {kk.prio[h]}

TimedStat(kk, h) == IF h = kk.cur THEN "running" ELSE "ready"

LEMMA LockedTimeout ==
    ASSUME NEW kk \in KernelState, kk.nest # 0, NEW h \in Threads
    PROVE  thread_timeout(rt_timer_stop(kk, h), h) =
           [kk EXCEPT !.timers = Without(kk.timers, h), !.left = [kk.left EXCEPT ![h] = 0],
                      !.error = [kk.error EXCEPT ![h] = "ETIMEOUT"],
                      !.table = TimedTable(kk, h), !.waitq = TimedQueues(kk, h),
                      !.defunct = Without(kk.defunct, h),
                      !.group = kk.group \cup TimedBits(kk, h),
                      !.stat = [kk.stat EXCEPT ![h] = TimedStat(kk, h)]]
<1> DEFINE a == [rt_timer_stop(kk, h) EXCEPT !.error[h] = "ETIMEOUT"]
           b == rt_list_remove(a, h)
           c == rt_schedule_insert_thread(b, h)
           r == thread_timeout(rt_timer_stop(kk, h), h)
           tab == [p \in Prios |-> Without(kk.table[p], h)]
           wq == [q \in Queues |-> Without(kk.waitq[q], h)]
           p == kk.prio[h]
           new == IF h \in kk.yield THEN Append(tab[p], h) ELSE <<h>> \o tab[p]
<1>1. r = rt_schedule(c)
  BY DEF thread_timeout
<1>2. a = [kk EXCEPT !.timers = Without(kk.timers, h), !.left = [kk.left EXCEPT ![h] = 0],
                     !.error = [kk.error EXCEPT ![h] = "ETIMEOUT"]]
  BY DEF rt_timer_stop, KernelState
<1>3. b = [kk EXCEPT !.timers = Without(kk.timers, h), !.left = [kk.left EXCEPT ![h] = 0],
                     !.error = [kk.error EXCEPT ![h] = "ETIMEOUT"],
                     !.table = tab, !.waitq = wq, !.defunct = Without(kk.defunct, h)]
  BY <1>2 DEF rt_list_remove, KernelState
<1> HIDE DEF a, tab, wq
<1>4. /\ b.cur = kk.cur /\ b.nest = kk.nest /\ b.prio = kk.prio /\ b.yield = kk.yield
      /\ b.table = tab /\ b.stat = kk.stat /\ b.group = kk.group
  BY <1>3 DEF KernelState
<1> HIDE DEF b
<1>5. c = IF h = kk.cur THEN [b EXCEPT !.stat[h] = "running"]
          ELSE [b EXCEPT !.stat[h] = "ready", !.table[p] = new, !.group = @ \cup {p}]
  BY <1>4 DEF rt_schedule_insert_thread
<1>6. c.nest = kk.nest
  BY <1>3, <1>5 DEF KernelState
<1> HIDE DEF c, r, new, p
<1>7. r = c
  BY <1>1, <1>6 DEF rt_schedule
<1> DEFINE nt == IF h = kk.cur THEN tab ELSE [tab EXCEPT ![p] = new]
           ng == IF h = kk.cur THEN kk.group ELSE kk.group \cup {p}
           ns == [kk.stat EXCEPT ![h] = IF h = kk.cur THEN "running" ELSE "ready"]
           d == [kk EXCEPT !.timers = Without(kk.timers, h), !.left = [kk.left EXCEPT ![h] = 0],
                           !.error = [kk.error EXCEPT ![h] = "ETIMEOUT"],
                           !.table = nt, !.waitq = wq, !.defunct = Without(kk.defunct, h),
                           !.group = ng, !.stat = ns]
<1>8. ASSUME h = kk.cur PROVE r = d
  <2>1. r = [b EXCEPT !.stat = ns]
    BY <1>4, <1>5, <1>7, <1>8
  <2>2. nt = tab /\ ng = kk.group
    BY <1>8
  <2> HIDE DEF nt, ng, ns
  <2> QED
    BY <1>3, <2>1, <2>2 DEF KernelState
<1>9. ASSUME h # kk.cur PROVE r = d
  <2>1. r = [b EXCEPT !.stat = ns, !.table = nt, !.group = ng]
    BY <1>4, <1>5, <1>7, <1>9
  <2> HIDE DEF nt, ng, ns
  <2> QED
    BY <1>3, <2>1 DEF KernelState
<1>10. r = d
  BY <1>8, <1>9
<1>11. nt = TimedTable(kk, h) /\ wq = TimedQueues(kk, h)
  BY DEF tab, wq, p, new, TimedTable, TimedQueues
<1>12. ng = kk.group \cup TimedBits(kk, h) /\ ns = [kk.stat EXCEPT ![h] = TimedStat(kk, h)]
  BY DEF p, TimedBits, TimedStat
<1> HIDE DEF nt, ng, ns, wq
<1> QED
  BY <1>10, <1>11, <1>12 DEF r

(* What the clock does then. *)
TornOn(kk, r, u) ==
    /\ HalfWay(r, u) /\ (kk.group = Bits(kk) => r.group = Bits(r))
    /\ r.cur = kk.cur /\ r.nest = kk.nest /\ Elems(r.timers) \subseteq Elems(kk.timers)
    /\ \A x \in Threads : \/ r.stat[x] = kk.stat[x]
                          \/ r.stat[x] \in {"ready", "running"} /\ x \in Elems(kk.timers)
    /\ \A q \in Queues : Elems(r.waitq[q]) = {}

LEMMA TornTimeout ==
    ASSUME KernelAssumption, NEW u \in Threads, NEW kk, HalfWay(kk, u), kk.nest # 0,
           \A q \in Queues : Elems(kk.waitq[q]) = {}, NEW h \in Elems(kk.timers)
    PROVE  TornOn(kk, thread_timeout(rt_timer_stop(kk, h), h), u)
<1> DEFINE s == Settled(kk, u)
           r == thread_timeout(rt_timer_stop(kk, h), h)
           z == thread_timeout(rt_timer_stop(s, h), h)
           more == TimedBits(kk, h)
           newStat == TimedStat(kk, h)
           newTable == TimedTable(kk, h)
           wq == TimedQueues(kk, h)
<1>1. /\ kk \in KernelState /\ Sane(s) /\ s \in KernelState
      /\ u # kk.cur /\ kk.stat[u] = "ready" /\ u \notin Elems(kk.timers)
      /\ Bits(kk) \subseteq kk.group /\ kk.group \subseteq Bits(kk) \cup {kk.prio[u]}
      /\ kk.stat \in [Threads -> Statuses] /\ kk.prio \in [Threads -> Prios]
  BY DEF HalfWay, Sane, KernelState
<1>2. /\ s.table = kk.table /\ s.group = Bits(kk) /\ s.waitq = kk.waitq /\ s.defunct = kk.defunct
      /\ s.timers = kk.timers /\ s.left = kk.left /\ s.error = kk.error /\ s.prio = kk.prio
      /\ s.cur = kk.cur /\ s.nest = kk.nest /\ s.isr = kk.isr /\ s.yield = kk.yield
      /\ s.slice = kk.slice /\ s.stat = [kk.stat EXCEPT ![u] = "suspend"]
  BY <1>1 DEF Settled, KernelState
<1>3. h \in Threads /\ h # u /\ s.stat[h] = "suspend" /\ kk.stat[h] = "suspend"
  <2>1. h \in Threads
    <3>1. kk.timers \in Lists1(Threads)
      BY <1>1 DEF KernelState
    <3> QED
      BY <3>1, ListElems
  <2> QED
    BY <1>1, <1>2, <2>1 DEF Sane, ExactBut, Agrees
<1>4. /\ Sane(z) /\ z.nest = s.nest /\ z.isr = s.isr /\ z.prio = s.prio /\ QueuesLose(s, z, h)
  BY <1>1, <1>3, SaneTimeout
<1> HIDE DEF s
<1>5. r = [kk EXCEPT !.timers = Without(kk.timers, h), !.left = [kk.left EXCEPT ![h] = 0],
                     !.error = [kk.error EXCEPT ![h] = "ETIMEOUT"], !.table = newTable,
                     !.waitq = wq, !.defunct = Without(kk.defunct, h),
                     !.group = kk.group \cup more, !.stat = [kk.stat EXCEPT ![h] = newStat]]
  BY <1>1, <1>3, LockedTimeout
<1>6. z = [s EXCEPT !.timers = Without(kk.timers, h), !.left = [kk.left EXCEPT ![h] = 0],
                    !.error = [kk.error EXCEPT ![h] = "ETIMEOUT"], !.table = newTable,
                    !.waitq = wq, !.defunct = Without(kk.defunct, h),
                    !.group = Bits(kk) \cup more, !.stat = [s.stat EXCEPT ![h] = newStat]]
  <2>1. /\ TimedTable(s, h) = newTable /\ TimedQueues(s, h) = wq
        /\ TimedBits(s, h) = more /\ TimedStat(s, h) = newStat
    BY <1>2 DEF TimedTable, TimedQueues, TimedBits, TimedStat
  <2>2. z = [s EXCEPT !.timers = Without(s.timers, h), !.left = [s.left EXCEPT ![h] = 0],
                      !.error = [s.error EXCEPT ![h] = "ETIMEOUT"],
                      !.table = TimedTable(s, h), !.waitq = TimedQueues(s, h),
                      !.defunct = Without(s.defunct, h),
                      !.group = s.group \cup TimedBits(s, h),
                      !.stat = [s.stat EXCEPT ![h] = TimedStat(s, h)]]
    BY <1>1, <1>2, <1>3, LockedTimeout
  <2> HIDE DEF z, newTable, wq, more, newStat
  <2> QED
    BY <1>2, <2>1, <2>2
<1> HIDE DEF r, z, newTable, more, newStat, wq
<1>7. /\ r.table = z.table /\ r.waitq = z.waitq /\ r.defunct = z.defunct /\ r.timers = z.timers
      /\ r.prio = z.prio /\ r.cur = z.cur /\ r.nest = kk.nest /\ r.isr = kk.isr /\ r.cur = kk.cur
      /\ r.group = kk.group \cup more /\ z.group = Bits(kk) \cup more
      /\ r.stat = [kk.stat EXCEPT ![h] = newStat] /\ z.stat = [s.stat EXCEPT ![h] = newStat]
      /\ r.timers = Without(kk.timers, h)
  BY <1>1, <1>2, <1>5, <1>6 DEF KernelState
<1>8. newStat \in {"ready", "running"}
  BY DEF newStat, TimedStat
<1>9. r \in KernelState
  <2>1. /\ r.slice = kk.slice /\ r.yield = kk.yield /\ z.slice = kk.slice /\ z.yield = kk.yield
        /\ r.left = z.left /\ r.error = z.error
    BY <1>1, <1>2, <1>5, <1>6 DEF KernelState
  <2>2. z.group \subseteq Prios /\ kk.group \subseteq Prios /\ z \in KernelState
    BY <1>1, <1>4 DEF Sane, KernelState
  <2>3. r.group \subseteq Prios /\ r.stat \in [Threads -> Statuses]
    BY <1>1, <1>7, <1>8, <2>2 DEF Statuses
  <2>4. /\ r.table \in [Prios -> Lists1(Threads)] /\ r.waitq \in [Queues -> Lists1(Threads)]
        /\ r.defunct \in Lists1(Threads) /\ r.timers \in Lists1(Threads)
        /\ r.left \in [Threads -> Nat] /\ r.error \in [Threads -> Errors]
    BY <1>7, <2>1, <2>2 DEF KernelState
  <2>5. r = [kk EXCEPT !.timers = r.timers, !.left = r.left, !.error = r.error, !.table = r.table,
                       !.waitq = r.waitq, !.defunct = r.defunct, !.group = r.group, !.stat = r.stat]
    BY <1>1, <1>5 DEF KernelState
  <2> QED
    BY <1>1, <2>3, <2>4, <2>5 DEF KernelState
<1>10. Bits(r) = Bits(kk) \cup more
  <2>1. z.group = Bits(z)
    BY <1>4 DEF Sane, ExactBut, GroupExact, Bits
  <2> QED
    BY <1>7, <2>1 DEF Bits
<1>11. Sane(Settled(r, u))
  <2> DEFINE y == Settled(r, u)
  <2>1. [r.stat EXCEPT ![u] = "suspend"] = z.stat
    BY <1>1, <1>2, <1>3, <1>7
  <2>2. /\ y \in KernelState /\ y.table = r.table /\ y.group = Bits(r) /\ y.waitq = r.waitq
        /\ y.defunct = r.defunct /\ y.timers = r.timers /\ y.prio = r.prio /\ y.cur = r.cur
        /\ y.stat = [r.stat EXCEPT ![u] = "suspend"]
    BY <1>9 DEF Settled, KernelState, Statuses, Bits
  <2> HIDE DEF y
  <2>3. Bits(r) = z.group
    BY <1>7, <1>10
  <2>4. Sane(y)
    BY <1>4, <1>7, <2>1, <2>2, <2>3, SaneFrame
  <2> QED
    BY <2>4 DEF y
<1>12. \A q \in Queues : Elems(r.waitq[q]) = {}
  BY <1>2, <1>4, <1>7 DEF QueuesLose
<1>13. Elems(r.timers) = Elems(kk.timers) \ {h}
  BY <1>1, <1>7, ListWithout DEF KernelState
<1>14. Off(r, u)
  <2>1. z.stat[u] = "suspend"
    BY <1>1, <1>2, <1>3, <1>7
  <2>2. Agrees(z, u)
    BY <1>4 DEF Sane, ExactBut
  <2> QED
    BY <1>7, <1>12, <2>1, <2>2 DEF Agrees, Off
<1>15. HalfWay(r, u)
  <2>1. r.stat[u] = "ready" /\ r.prio[u] = kk.prio[u]
    BY <1>1, <1>2, <1>3, <1>4, <1>7
  <2> QED
    BY <1>1, <1>7, <1>9, <1>10, <1>11, <1>13, <1>14, <2>1 DEF HalfWay
<1>16. /\ \A x \in Threads \ {h} : r.stat[x] = kk.stat[x]
       /\ r.stat[h] \in {"ready", "running"}
       /\ kk.group = Bits(kk) => r.group = Bits(r)
  BY <1>1, <1>3, <1>7, <1>8, <1>10
<1> HIDE DEF more, newStat, newTable, wq
<1>17. \A x \in Threads : \/ r.stat[x] = kk.stat[x]
                          \/ r.stat[x] \in {"ready", "running"} /\ x \in Elems(kk.timers)
  BY <1>16
<1>18. TornOn(kk, r, u)
  BY <1>7, <1>12, <1>13, <1>15, <1>16, <1>17 DEF TornOn
<1> QED
  BY <1>18 DEF r
----------------------------------------------------------------------------
(* The steps, one by one.                                                  *)

LEMMA ThreadsInvInit ==
    ASSUME KernelAssumption, Init
    PROVE  ThreadsInv
<1>1. Sane(k) /\ k.stat[k.cur] = "running"
  BY SaneInit DEF Init
<1>2. /\ \A t \in Threads : call[t] = UserCode
      /\ call \in [Threads -> ThreadCallState]
  BY DEF Init, KernelInit, UserCode, ThreadCallState
<1>3. \A t \in Threads : ~Deals(t)
  <2>1. UserCode.pc = "user" /\ "user" \notin Parts
    BY DEF UserCode, Parts
  <2> QED
    BY <1>2, <2>1 DEF Deals
<1>4. k.cur \in Threads /\ ~Torn
  BY <1>1, <1>3 DEF Sane, KernelState, Torn, Deals, Parts
<1>5. k.isr = FALSE /\ \A q \in Queues : Elems(k.waitq[q]) = {}
  BY DEF Init, KernelInit, Elems
<1>6. MostUrgentRuns
  <2>1. k.group = {MaxPrio - 1} /\ k.prio[k.cur] \in Prios /\ MaxPrio \in Nat \ {0}
    BY DEF Init, KernelInit, KernelAssumption
  <2> QED
    BY <2>1 DEF MostUrgentRuns, Prios
<1>7. KernelFits
  BY <1>1, <1>4, <1>5 DEF KernelFits
<1>8. CallsFitKernel
  BY <1>1, <1>2, <1>3 DEF CallsFitKernel, OneCallEach
<1> QED
  BY <1>6, <1>7, <1>8 DEF ThreadsInv, Init

(* The clock interrupt and what follows it disturb no call in progress. *)
LEMMA StayUndisturbed ==
    ASSUME ThreadsInv, ClockISR, OthersStay(k, k')
    PROVE  \A t \in Threads : Deals(t) /\ call'[t] = call[t] => Undisturbed(t)
<1> SUFFICES ASSUME NEW t \in Threads, Deals(t), call'[t] = call[t] PROVE Undisturbed(t)
  OBVIOUS
<1>1. call[t].obj \in Threads
  BY DEF ThreadsInv, CallsFitKernel, HandledWell
<1> QED
  BY <1>1 DEF OthersStay, Undisturbed

LEMMA TickSane ==
    ASSUME KernelAssumption, ThreadsInv, ~Torn, Clock
    PROVE  ThreadsInv'
<1>1. /\ Sane(k) /\ UNCHANGED <<call, owed>> /\ ClockISR /\ k.cur \in Threads
      /\ (owed \/ MostUrgentRuns) /\ owed \in BOOLEAN
  BY DEF ThreadsInv, KernelFits, Clock, TickIncrease, TimerCheck, Sane, KernelState
<1>2. /\ Sane(k') /\ OthersStay(k, k') /\ (RunsOn(k, k') \/ Dispatched(k'))
      /\ \A q \in Queues : Elems(k'.waitq[q]) = {}
  <2>1. CASE TickIncrease
    BY <1>1, <2>1, TickIncreaseStep DEF Quiet, ThreadsInv, KernelFits
  <2>2. CASE TimerCheck
    BY <1>1, <2>2, TimerCheckStep DEF Quiet, TimedOut, QueuesLose, ThreadsInv, KernelFits
  <2> QED
    BY <2>1, <2>2 DEF Clock
<1>3. k'.nest = k.nest
  BY <1>2 DEF OthersStay
<1>4. (owed \/ MostUrgentRuns)' /\ owed' \in BOOLEAN
  BY <1>1, <1>2, <1>3 DEF RunsOn, Dispatched, MostUrgentRuns
<1>5. \A t \in Threads : Deals(t)' => Deals(t) /\ Undisturbed(t)
  BY <1>1, <1>2, StayUndisturbed DEF Deals
<1>6. ASSUME k'.stat[k'.cur] = "suspend" PROVE call'[k'.cur].pc = "sched" /\ k'.nest = 0
  <2>1. k'.cur \in Threads /\ k.stat[k'.cur] = "suspend"
    BY <1>2, <1>6 DEF OthersStay, Sane, KernelState
  <2>2. CASE k'.cur = k.cur
    BY <1>1, <1>3, <2>1, <2>2 DEF ThreadsInv, CallsFitKernel
  <2>3. CASE k'.cur # k.cur
    BY <1>2, <1>3, <1>6, <2>3 DEF OthersStay, RunsOn, Dispatched
  <2> QED
    BY <2>2, <2>3
<1>7. call' \in [Threads -> ThreadCallState]
  BY <1>1 DEF ThreadsInv, CallsFitKernel
<1> QED
  BY <1>1, <1>2, <1>4, <1>5, <1>6, <1>7, RegularStep

LEMMA HalfWayMeans ==
    ASSUME NEW u \in Threads, NEW kk, HalfWay(kk, u)
    PROVE  OneRuns(kk) /\ kk.cur \in Threads /\ kk.stat[u] = "ready" /\ kk.stat \in [Threads -> Statuses]
<1>1. /\ kk \in KernelState /\ OneRuns(Settled(kk, u)) /\ kk.stat[u] = "ready"
  BY DEF HalfWay, Sane
<1>2. Settled(kk, u).stat = [kk.stat EXCEPT ![u] = "suspend"] /\ Settled(kk, u).cur = kk.cur
  BY <1>1 DEF Settled, KernelState
<1> QED
  BY <1>1, <1>2 DEF OneRuns, KernelState

(* In the middle of such a call the clock comes under the scheduler lock. *)
LEMMA TornCall ==
    ASSUME ThreadsInv, Torn
    PROVE  LET u == call[k.cur].obj
           IN /\ u \in Threads \ {IdleThread} /\ u # k.cur /\ HalfWay(k, u) /\ k.cur \in Threads
              /\ Deals(k.cur) /\ Held(k.cur, u)
<1> DEFINE u == call[k.cur].obj
<1>1. Deals(k.cur) /\ u # k.cur /\ k.stat[u] = "ready" /\ HalfWay(k, u)
  BY DEF Torn, Deals, Parts, ThreadsInv, KernelFits
<1>2. k.cur \in Threads
  BY <1>1 DEF HalfWay, KernelState
<1>3. HandledWell(k.cur)
  BY <1>1, <1>2 DEF ThreadsInv, CallsFitKernel
<1> QED
  BY <1>1, <1>2, <1>3 DEF HandledWell

LEMMA TornOnFrame ==
    ASSUME ThreadsInv, NEW u \in Threads, HalfWay(k, u), NEW r \in KernelState,
           r.table = k.table, r.group = k.group, r.waitq = k.waitq, r.defunct = k.defunct,
           r.timers = k.timers, r.stat = k.stat, r.prio = k.prio, r.cur = k.cur, r.nest = k.nest
    PROVE  TornOn(k, r, u)
<1>1. HalfWay(r, u) /\ Bits(r) = Bits(k)
  BY TornFrame
<1>2. \A q \in Queues : Elems(r.waitq[q]) = {}
  BY DEF ThreadsInv, KernelFits
<1>3. k.group = Bits(k) => r.group = Bits(r)
  BY <1>1
<1>4. Elems(r.timers) \subseteq Elems(k.timers) /\ \A x \in Threads : r.stat[x] = k.stat[x]
  OBVIOUS
<1> QED
  BY <1>1, <1>2, <1>3, <1>4 DEF TornOn

LEMMA TickTorn ==
    ASSUME KernelAssumption, ThreadsInv, Torn, Clock
    PROVE  TornOn(k, k', call[k.cur].obj)
<1> DEFINE u == call[k.cur].obj
<1>1. /\ u \in Threads /\ HalfWay(k, u) /\ k \in KernelState /\ k.cur \in Threads
      /\ ClockISR /\ k.nest # 0
  BY TornCall DEF Held, HalfWay, ThreadsInv, KernelFits, Clock, TickIncrease, TimerCheck
<1>2. CASE TickIncrease
  <2> DEFINE c == k.cur
             left == [t \in Threads |-> IF k.left[t] > 0 THEN k.left[t] - 1 ELSE 0]
             slice == [k.slice EXCEPT ![c] = IF @ = 1 THEN InitTick ELSE @ - 1]
             k1 == [k EXCEPT !.isr = TRUE, !.left = left, !.slice = slice]
             k2 == [k1 EXCEPT !.yield = @ \cup {c}]
  <2>1. k' = IF k.slice[c] = 1 THEN rt_schedule(k2) ELSE k1
    BY <1>1, <1>2 DEF TickIncrease, KernelState
  <2>2. left \in [Threads -> Nat] /\ slice \in [Threads -> 1..InitTick]
    BY <1>1 DEF KernelState, KernelAssumption
  <2> HIDE DEF left, slice
  <2>3. /\ k1 \in KernelState /\ k2 \in KernelState /\ k2.nest # 0
        /\ k1.table = k.table /\ k1.group = k.group /\ k1.waitq = k.waitq /\ k1.defunct = k.defunct
        /\ k1.timers = k.timers /\ k1.stat = k.stat /\ k1.prio = k.prio /\ k1.cur = k.cur
        /\ k1.nest = k.nest
        /\ k2.table = k.table /\ k2.group = k.group /\ k2.waitq = k.waitq /\ k2.defunct = k.defunct
        /\ k2.timers = k.timers /\ k2.stat = k.stat /\ k2.prio = k.prio /\ k2.cur = k.cur
        /\ k2.nest = k.nest
    BY <1>1, <2>2 DEF KernelState
  <2> HIDE DEF k1, k2
  <2>4. k' \in {k1, k2}
    BY <2>1, <2>3 DEF rt_schedule
  <2> QED
    BY <1>1, <2>3, <2>4, TornOnFrame
<1>3. CASE TimerCheck
  <2>1. CASE k.timers # <<>> /\ k.left[Head(k.timers)] = 0
    <3> DEFINE h == Head(k.timers)
    <3>1. k' = thread_timeout(rt_timer_stop(k, h), h)
      BY <1>3, <2>1 DEF TimerCheck
    <3>2. h \in Elems(k.timers)
      BY <1>1, <2>1, ListElems DEF KernelState
    <3>3. \A q \in Queues : Elems(k.waitq[q]) = {}
      BY DEF ThreadsInv, KernelFits
    <3> HIDE DEF h
    <3>4. TornOn(k, thread_timeout(rt_timer_stop(k, h), h), u)
      BY <1>1, <3>2, <3>3, TornTimeout
    <3> QED
      BY <3>1, <3>4
  <2>2. CASE ~(k.timers # <<>> /\ k.left[Head(k.timers)] = 0)
    <3>1. k' = [k EXCEPT !.isr = FALSE]
      BY <1>3, <2>2 DEF TimerCheck
    <3>2. /\ k' \in KernelState /\ k'.table = k.table /\ k'.group = k.group /\ k'.waitq = k.waitq
          /\ k'.defunct = k.defunct /\ k'.timers = k.timers /\ k'.stat = k.stat
          /\ k'.prio = k.prio /\ k'.cur = k.cur /\ k'.nest = k.nest
      BY <1>1, <3>1 DEF KernelState
    <3> QED
      BY <1>1, <3>2, TornOnFrame
  <2> QED
    BY <2>1, <2>2
<1> QED
  BY <1>2, <1>3 DEF Clock

LEMMA TickKeeps ==
    ASSUME KernelAssumption, ThreadsInv, Clock
    PROVE  ThreadsInv'
<1>1. CASE ~Torn
  BY <1>1, TickSane
<1>2. CASE Torn
  <2> DEFINE c == k.cur
             u == call[c].obj
  <2>1. /\ u \in Threads /\ u # c /\ c \in Threads /\ Deals(c) /\ Held(c, u)
    BY <1>2, TornCall
  <2>2. ClockISR /\ UNCHANGED <<call, owed>> /\ k.nest # 0
    BY <2>1 DEF Held, ThreadsInv, KernelFits, Clock, TickIncrease, TimerCheck
  <2>3. TornOn(k, k', u)
    BY <1>2, TickTorn
  <2>4. OneRuns(k') /\ k'.stat[u] = "ready"
    BY <2>1, <2>3, HalfWayMeans DEF TornOn
  <2>5. ASSUME NEW t \in Threads, Deals(t) PROVE HandledWell(t) /\ Undisturbed(t)
    <3>1. HandledWell(t) /\ call[t].obj \in Threads
      BY <2>5 DEF ThreadsInv, CallsFitKernel, HandledWell
    <3> QED
      BY <2>2, <2>3, <3>1 DEF TornOn, Undisturbed
  <2>6. ASSUME NEW t \in Threads, Deals(t)' PROVE HandledWell(t)'
    BY <2>2, <2>4, <2>5, <2>6, StillHandled DEF Deals
  <2>7. OneCallEach'
    BY <2>2 DEF ThreadsInv, CallsFitKernel, OneCallEach, Deals
  <2>8. Torn'
    BY <1>2, <2>2, <2>3, <2>4 DEF Torn, TornOn
  <2>9. KernelFits'
    BY <1>2, <2>2, <2>3, <2>8 DEF KernelFits, TornOn, ThreadsInv
  <2>10. k'.stat[k'.cur] # "suspend"
    BY <1>2, <2>1, <2>3 DEF TornOn, Torn, ThreadsInv, CallsFitKernel
  <2>11. CallsFitKernel'
    BY <2>2, <2>6, <2>7, <2>10 DEF CallsFitKernel, ThreadsInv
  <2>12. owed' \in BOOLEAN /\ MostUrgentRuns'
    BY <2>2, <2>3 DEF TornOn, MostUrgentRuns, ThreadsInv
  <2> QED
    BY <2>9, <2>11, <2>12 DEF ThreadsInv
<1> QED
  BY <1>1, <1>2

(* A step of the current thread that begins or ends no part: it may do     *)
(* what it likes to w, which nobody handles.                               *)
LEMMA CallStep ==
    ASSUME ThreadsInv, ~Deals(k.cur), NEW w \in Threads,
           \A x \in Threads : Deals(x) => call[x].obj # w,
           Sane(k'), k'.isr => ClockISR, \A q \in Queues : Elems(k'.waitq[q]) = {},
           k'.cur = k.cur, Elems(k'.timers) \subseteq Elems(k.timers) \cup {w},
           \A x \in Threads \ {w} : k'.stat[x] = k.stat[x],
           call' \in [Threads -> ThreadCallState],
           \A x \in Threads : call'[x] = call[x] \/ ~Deals(x)',
           k'.stat[k'.cur] = "suspend" => call'[k'.cur].pc = "sched" /\ k'.nest = 0,
           owed' \in BOOLEAN, (owed \/ MostUrgentRuns)'
    PROVE  ThreadsInv'
<1>1. ~Torn
  BY Free
<1>2. \A x \in Threads : Deals(x) /\ call'[x] = call[x] => Undisturbed(x)
  BY CalmStep
<1>3. \A x \in Threads : Deals(x)' => Deals(x) /\ Undisturbed(x)
  BY <1>2 DEF Deals
<1> QED
  BY <1>1, <1>3, RegularStep

(* It goes on to rt_schedule. *)
LEMMA ToSchedule ==
    ASSUME ThreadsInv, ~Deals(k.cur), NEW w \in Threads,
           \A x \in Threads : Deals(x) => call[x].obj # w,
           Sane(k'), k'.isr => ClockISR, \A q \in Queues : Elems(k'.waitq[q]) = {},
           k'.cur = k.cur, Elems(k'.timers) \subseteq Elems(k.timers) \cup {w},
           \A x \in Threads \ {w} : k'.stat[x] = k.stat[x],
           NEW op \in {"none", "sleep"}, ThenSchedule(k.cur, op, "none"),
           k'.stat[k'.cur] = "suspend" => k'.nest = 0, UNCHANGED owed
    PROVE  ThreadsInv'
<1>1. k.cur \in Threads /\ call \in [Threads -> ThreadCallState] /\ owed \in BOOLEAN
  BY Free DEF ThreadsInv, CallsFitKernel
<1> DEFINE new == [pc |-> "sched", op |-> op, obj |-> "none"]
<1>2. new \in ThreadCallState /\ new.pc = "sched" /\ "sched" \notin Parts
  BY DEF ThreadCallState, Parts
<1> HIDE DEF new
<1>3. /\ call' \in [Threads -> ThreadCallState] /\ call'[k.cur] = new
      /\ \A x \in Threads \ {k.cur} : call'[x] = call[x]
  BY <1>1, <1>2 DEF ThenSchedule, new
<1>4. ~Deals(k.cur)'
  BY <1>2, <1>3 DEF Deals
<1>5. \A x \in Threads : call'[x] = call[x] \/ ~Deals(x)'
  BY <1>3, <1>2 DEF Deals
<1>6. MostUrgentRuns'
  BY <1>2, <1>3 DEF MostUrgentRuns
<1> QED
  BY <1>1, <1>2, <1>3, <1>5, <1>6, CallStep

LEMMA IdleKeeps ==
    ASSUME KernelAssumption, ThreadsInv, IdleLoop, UNCHANGED owed
    PROVE  ThreadsInv'
<1>1. ~Deals(k.cur) /\ UNCHANGED call
  BY DEF IdleLoop, Deals, Parts
<1>2. ~Torn /\ Sane(k) /\ k.cur \in Threads
  BY <1>1, Free
<1>3. /\ Quiet(k, k') /\ RunsOn(k, k') /\ k'.timers = k.timers
      /\ \A u \in Threads : k'.stat[u] = k.stat[u] \/ k.stat[u] = "close"
  BY <1>1, <1>2, IdleLoopStep
<1>4. k'.isr = k.isr
  BY <1>2 DEF IdleLoop, Sane, KernelState
<1>5. ASSUME NEW t \in Threads, Deals(t)' PROVE Deals(t) /\ Undisturbed(t)
  <2>1. Deals(t) /\ call'[t] = call[t]
    BY <1>1, <1>5 DEF Deals
  <2>2. HandledWell(t) /\ call[t].obj \in Threads
    BY <2>1 DEF ThreadsInv, CallsFitKernel, HandledWell
  <2>3. k'.stat[call[t].obj] = k.stat[call[t].obj]
    BY <1>3, <2>2 DEF HandledWell, Held
  <2> QED
    BY <1>3, <2>1, <2>3 DEF Undisturbed, RunsOn, Quiet
<1>6. /\ (k'.isr => ClockISR) /\ Sane(k') /\ \A q \in Queues : Elems(k'.waitq[q]) = {}
  BY <1>3, <1>4 DEF Quiet, ThreadsInv, KernelFits
<1>7. (owed \/ MostUrgentRuns)' /\ owed' \in BOOLEAN
  BY <1>1, <1>2, <1>3 DEF ThreadsInv, RunsOn, Quiet, MostUrgentRuns
<1>8. /\ call' \in [Threads -> ThreadCallState]
      /\ k'.stat[k'.cur] = "suspend" => call'[k'.cur].pc = "sched" /\ k'.nest = 0
  BY <1>1, <1>3 DEF ThreadsInv, CallsFitKernel, RunsOn, Quiet
<1> QED
  BY <1>2, <1>5, <1>6, <1>7, <1>8, RegularStep

LEMMA ScheduleKeeps ==
    ASSUME KernelAssumption, ThreadsInv, NEW t \in Threads, ScheduleStep(t)
    PROVE  ThreadsInv'
<1>1. /\ t = k.cur /\ call[t].pc = "sched" /\ k' = rt_schedule(k) /\ ~Deals(k.cur)
      /\ owed' = (owed /\ k.nest # 0) /\ ~k.isr
      /\ call' = [call EXCEPT ![t] = IF call[t].op = "none" THEN UserCode ELSE [@ EXCEPT !.pc = "back"]]
  BY DEF ScheduleStep, Schedule, Deals, Parts
<1>2. /\ ~Torn /\ Sane(k) /\ k.cur \in Threads
      /\ \A x \in Threads : Deals(x) => x # k.cur /\ call[x].obj # k.cur
  BY <1>1, Free
<1>3. /\ Sane(k') /\ SameObjects(k, k')
      /\ k.nest = 0 => /\ \A p \in k'.group : k'.prio[k'.cur] <= p
                       /\ k'.stat[k'.cur] = "running"
      /\ k'.cur # k.cur => k.nest = 0 /\ k.stat[k'.cur] = "ready"
      /\ \A x \in Threads : \/ k'.stat[x] = k.stat[x]
                            \/ {k'.stat[x], k.stat[x]} \subseteq {"ready", "running"}
  BY <1>1, <1>2, SaneSchedule
<1>4. call \in [Threads -> ThreadCallState]
  BY DEF ThreadsInv, CallsFitKernel
<1>5. /\ call' \in [Threads -> ThreadCallState] /\ call'[t].pc \in {"user", "back"}
      /\ \A x \in Threads \ {t} : call'[x] = call[x]
  BY <1>1, <1>4 DEF ThreadCallState, UserCode
<1>6. ASSUME NEW x \in Threads, Deals(x)' PROVE Deals(x) /\ Undisturbed(x)
  <2>1. x # t
    BY <1>5, <1>6 DEF Deals, Parts
  <2>2. Deals(x) /\ call'[x] = call[x]
    BY <1>5, <1>6, <2>1 DEF Deals
  <2>3. call[x].obj \in Threads
    BY <2>2 DEF ThreadsInv, CallsFitKernel, HandledWell
  <2> QED
    BY <1>1, <1>3, <2>1, <2>2, <2>3 DEF Undisturbed, SameObjects
<1>7. ASSUME k'.stat[k'.cur] = "suspend" PROVE FALSE
  <2>1. k.nest # 0 /\ k'.cur = k.cur
    BY <1>3, <1>7
  <2>2. k.stat[k.cur] = "suspend"
    BY <1>2, <1>3, <1>7, <2>1
  <2> QED
    BY <2>1, <2>2 DEF ThreadsInv, CallsFitKernel
<1>8. owed' \in BOOLEAN /\ (owed \/ MostUrgentRuns)'
  BY <1>1, <1>3 DEF SameObjects, MostUrgentRuns, ThreadsInv
<1>9. ~k'.isr /\ \A q \in Queues : Elems(k'.waitq[q]) = {}
  BY <1>1, <1>3 DEF SameObjects, ThreadsInv, KernelFits
<1> QED
  BY <1>2, <1>3, <1>5, <1>6, <1>7, <1>8, <1>9, RegularStep

LEMMA RunningFree ==
    ASSUME ThreadsInv, NEW t \in Threads, Running(t)
    PROVE  /\ t = k.cur /\ t # IdleThread /\ call[t].pc = "user" /\ ~k.isr /\ ~Deals(k.cur)
           /\ Sane(k) /\ k \in KernelState /\ ~Torn /\ k.stat[t] # "suspend"
           /\ \A x \in Threads : Deals(x) => x # t /\ call[x].obj # t
           /\ \A q \in Queues : Elems(k.waitq[q]) = {}
           /\ call \in [Threads -> ThreadCallState] /\ owed \in BOOLEAN
<1>1. t = k.cur /\ t # IdleThread /\ call[t].pc = "user" /\ ~k.isr /\ ~Deals(k.cur)
  BY DEF Running, Deals, Parts
<1> QED
  BY <1>1, Free DEF ThreadsInv, CallsFitKernel, KernelFits

LEMMA SleepBackKeeps ==
    ASSUME KernelAssumption, ThreadsInv, NEW t \in Threads, ThreadSleepBack(t), UNCHANGED owed
    PROVE  ThreadsInv'
<1> DEFINE e == IF k.error[t] = "ETIMEOUT" THEN "EOK" ELSE k.error[t]
           r == [k EXCEPT !.error[t] = e]
<1>1. /\ k' = r /\ call' = [call EXCEPT ![t] = UserCode] /\ call[t].pc = "back" /\ t = k.cur
      /\ ~Deals(k.cur) /\ ~k.isr
  BY DEF ThreadSleepBack, Returned, Deals, Parts
<1>2. /\ Sane(k) /\ k \in KernelState /\ \A x \in Threads : Deals(x) => call[x].obj # t
      /\ \A q \in Queues : Elems(k.waitq[q]) = {}
      /\ call \in [Threads -> ThreadCallState] /\ owed \in BOOLEAN /\ k.stat[t] # "suspend"
      /\ (owed \/ MostUrgentRuns)
  BY <1>1, Free DEF ThreadsInv, CallsFitKernel, KernelFits
<1>3. e \in Errors
  BY <1>2 DEF KernelState, Errors
<1> HIDE DEF e
<1>4. /\ Sane(r) /\ r.cur = k.cur /\ r.nest = k.nest /\ r.prio = k.prio /\ r.group = k.group
      /\ r.isr = k.isr /\ r.stat = k.stat /\ r.waitq = k.waitq /\ r.timers = k.timers
  BY <1>2, <1>3, SaneError DEF KernelState
<1> HIDE DEF r
<1>5. UserCode \in ThreadCallState /\ UserCode.pc = "user" /\ "user" \notin Parts
  BY DEF ThreadCallState, UserCode, Parts
<1>6. /\ call' \in [Threads -> ThreadCallState] /\ call'[t].pc = "user"
      /\ \A x \in Threads : call'[x] = call[x] \/ ~Deals(x)'
  BY <1>1, <1>2, <1>5 DEF Deals
<1>7. (owed \/ MostUrgentRuns)'
  BY <1>1, <1>2, <1>4 DEF MostUrgentRuns
<1> QED
  BY <1>1, <1>2, <1>4, <1>6, <1>7, CallStep

LEMMA YieldKeeps ==
    ASSUME KernelAssumption, ThreadsInv, NEW t \in Threads, ThreadYield(t), UNCHANGED owed
    PROVE  ThreadsInv'
<1>1. Running(t) /\ ThenSchedule(t, "none", "none")
      /\ k' = [k EXCEPT !.slice[t] = InitTick, !.yield = @ \cup {t}]
  BY DEF ThreadYield
<1>2. Quiet(k, k') /\ RunsOn(k, k')
  BY <1>1, RunningFree, ThreadYieldStep
<1>3. k'.isr = k.isr /\ k'.stat = k.stat /\ k'.timers = k.timers
  BY <1>1, RunningFree DEF KernelState
<1> QED
  BY <1>1, <1>2, <1>3, RunningFree, ToSchedule DEF Quiet, RunsOn

LEMMA SleepKeeps ==
    ASSUME KernelAssumption, ThreadsInv, NEW t \in Threads, NEW n \in Timeouts, ThreadSleep(t, n),
           UNCHANGED owed
    PROVE  ThreadsInv'
<1> DEFINE a == rt_thread_suspend(k, t)
           b == rt_timer_start(a, t, n)
           r == [b EXCEPT !.error[t] = "EINTR"]
<1>1. Running(t) /\ n > 0 /\ ThenSchedule(t, "sleep", "none") /\ k' = r /\ k.nest = 0
  BY DEF ThreadSleep
<1>2. /\ t = k.cur /\ t # IdleThread /\ ~k.isr /\ Sane(k) /\ ~Deals(k.cur) /\ k \in KernelState
      /\ \A x \in Threads : Deals(x) => call[x].obj # t
      /\ \A q \in Queues : Elems(k.waitq[q]) = {}
  BY <1>1, RunningFree
<1>3. n \in Nat
  BY <1>1 DEF KernelAssumption, Forever
<1>4. /\ Sane(a) /\ SameCore(k, a) /\ a.stat = [k.stat EXCEPT ![t] = "suspend"] /\ QueuesLose(k, a, t)
      /\ Elems(a.timers) = Elems(k.timers) \ {t}
  BY <1>2, SaneSuspend
<1> HIDE DEF a
<1>5. a.stat[t] = "suspend"
  BY <1>2, <1>4 DEF KernelState
<1>6. /\ Sane(b) /\ SameCore(a, b) /\ b.stat = a.stat /\ b.waitq = a.waitq
      /\ Elems(b.timers) = Elems(a.timers) \cup {t}
  BY <1>1, <1>3, <1>4, <1>5, SaneTimerStart
<1> HIDE DEF b
<1>7. /\ Sane(r) /\ r.cur = b.cur /\ r.nest = b.nest /\ r.isr = b.isr /\ r.stat = b.stat
      /\ r.waitq = b.waitq /\ r.timers = b.timers
  BY <1>6, SaneError DEF Errors, Sane, KernelState
<1> HIDE DEF r
<1>8. /\ Sane(k') /\ k'.cur = k.cur /\ k'.nest = 0 /\ ~k'.isr
      /\ \A q \in Queues : Elems(k'.waitq[q]) = {}
      /\ Elems(k'.timers) \subseteq Elems(k.timers) \cup {t}
      /\ \A x \in Threads \ {t} : k'.stat[x] = k.stat[x]
  <2>1. Sane(k') /\ k'.cur = k.cur /\ k'.nest = 0 /\ ~k'.isr
    BY <1>1, <1>2, <1>4, <1>6, <1>7 DEF SameCore
  <2>2. \A q \in Queues : Elems(k'.waitq[q]) = {}
    BY <1>1, <1>2, <1>4, <1>6, <1>7 DEF QueuesLose
  <2>3. Elems(k'.timers) \subseteq Elems(k.timers) \cup {t}
    BY <1>1, <1>4, <1>6, <1>7
  <2>4. k'.stat = [k.stat EXCEPT ![t] = "suspend"]
    BY <1>1, <1>4, <1>6, <1>7
  <2> QED
    BY <1>2, <2>1, <2>2, <2>3, <2>4 DEF KernelState
<1> QED
  BY <1>1, <1>2, <1>8, ToSchedule

LEMMA SuspendKeeps ==
    ASSUME KernelAssumption, ThreadsInv, NEW t \in Threads, ThreadSuspend(t)
    PROVE  ThreadsInv'
<1>1. Running(t) /\ ThenSchedule(t, "none", "none") /\ k' = rt_thread_suspend(k, t) /\ k.nest = 0
      /\ UNCHANGED owed
  BY DEF ThreadSuspend
<1>2. /\ t = k.cur /\ t # IdleThread /\ ~k.isr /\ Sane(k) /\ ~Deals(k.cur) /\ k \in KernelState
      /\ \A x \in Threads : Deals(x) => call[x].obj # t
      /\ \A q \in Queues : Elems(k.waitq[q]) = {}
  BY <1>1, RunningFree
<1>3. /\ Sane(k') /\ SameCore(k, k') /\ k'.stat = [k.stat EXCEPT ![t] = "suspend"]
      /\ QueuesLose(k, k', t) /\ Elems(k'.timers) = Elems(k.timers) \ {t}
  BY <1>1, <1>2, SaneSuspend
<1>4. /\ k'.cur = k.cur /\ k'.nest = 0 /\ ~k'.isr
      /\ \A q \in Queues : Elems(k'.waitq[q]) = {}
      /\ Elems(k'.timers) \subseteq Elems(k.timers) \cup {t}
      /\ \A x \in Threads \ {t} : k'.stat[x] = k.stat[x]
  BY <1>1, <1>2, <1>3 DEF SameCore, QueuesLose, KernelState
<1> QED
  BY <1>1, <1>2, <1>3, <1>4, ToSchedule

LEMMA ExitKeeps ==
    ASSUME KernelAssumption, ThreadsInv, NEW t \in Threads, ThreadExit(t)
    PROVE  ThreadsInv'
<1>1. Running(t) /\ ThenSchedule(t, "none", "none") /\ k' = CloseThread(k, t) /\ k.nest = 0
      /\ k.stat[t] = "running" /\ UNCHANGED owed
  BY DEF ThreadExit
<1>2. /\ t = k.cur /\ t # IdleThread /\ ~k.isr /\ Sane(k) /\ ~Deals(k.cur) /\ k \in KernelState
      /\ \A x \in Threads : Deals(x) => call[x].obj # t
      /\ \A q \in Queues : Elems(k.waitq[q]) = {}
  BY <1>1, RunningFree
<1>3. /\ Sane(k') /\ k'.cur = k.cur /\ k'.nest = k.nest /\ k'.isr = k.isr
      /\ k'.stat = [k.stat EXCEPT ![t] = "close"]
      /\ QueuesLose(k, k', t) /\ Elems(k'.timers) = Elems(k.timers) \ {t}
  BY <1>1, <1>2, SaneClose
<1>4. /\ k'.nest = 0 /\ ~k'.isr
      /\ \A q \in Queues : Elems(k'.waitq[q]) = {}
      /\ Elems(k'.timers) \subseteq Elems(k.timers) \cup {t}
      /\ \A x \in Threads \ {t} : k'.stat[x] = k.stat[x]
  BY <1>1, <1>2, <1>3 DEF QueuesLose, KernelState
<1> QED
  BY <1>1, <1>2, <1>3, <1>4, ToSchedule

LEMMA CriticalKeeps ==
    ASSUME KernelAssumption, ThreadsInv, NEW t \in Threads, EnterCritical(t) \/ ExitCritical(t)
    PROVE  ThreadsInv'
<1>1. Running(t) /\ UNCHANGED owed
  BY DEF EnterCritical, ExitCritical
<1>2. /\ t = k.cur /\ call[t].pc = "user" /\ ~k.isr /\ Sane(k) /\ ~Deals(k.cur) /\ k \in KernelState
      /\ k.stat[t] # "suspend" /\ \A x \in Threads : Deals(x) => call[x].obj # t
      /\ \A q \in Queues : Elems(k.waitq[q]) = {}
      /\ call \in [Threads -> ThreadCallState] /\ owed \in BOOLEAN /\ (owed \/ MostUrgentRuns)
  BY <1>1, RunningFree DEF ThreadsInv
<1>3. ASSUME NEW n \in Nat, k' = [k EXCEPT !.nest = n],
             (n # 0 /\ UNCHANGED call) \/ (n = 0 /\ ThenSchedule(t, "none", "none"))
      PROVE  ThreadsInv'
  <2>1. /\ k' \in KernelState /\ k'.nest = n
        /\ k'.table = k.table /\ k'.group = k.group /\ k'.waitq = k.waitq /\ k'.defunct = k.defunct
        /\ k'.timers = k.timers /\ k'.stat = k.stat /\ k'.prio = k.prio /\ k'.cur = k.cur
        /\ k'.isr = k.isr
    BY <1>2, <1>3 DEF KernelState
  <2>2. Sane(k')
    BY <1>2, <2>1, SaneFrame
  <2>3. CASE n = 0 /\ ThenSchedule(t, "none", "none")
    BY <1>1, <1>2, <2>1, <2>2, <2>3, ToSchedule
  <2>4. CASE n # 0 /\ UNCHANGED call
    <3>1. (owed \/ MostUrgentRuns)'
      BY <2>1, <2>4 DEF MostUrgentRuns
    <3> QED
      BY <1>1, <1>2, <2>1, <2>2, <2>4, <3>1, CallStep
  <2> QED
    BY <1>3, <2>3, <2>4
<1>4. k.nest \in Nat
  BY <1>2 DEF KernelState
<1>5. CASE EnterCritical(t)
  <2>1. k' = [k EXCEPT !.nest = k.nest + 1] /\ UNCHANGED call /\ k.nest + 1 \in Nat /\ k.nest + 1 # 0
    BY <1>4, <1>5 DEF EnterCritical
  <2> QED
    BY <1>3, <2>1
<1>6. CASE ExitCritical(t)
  <2>1. /\ k' = [k EXCEPT !.nest = k.nest - 1] /\ k.nest - 1 \in Nat
        /\ \/ k.nest - 1 # 0 /\ UNCHANGED call
           \/ k.nest - 1 = 0 /\ ThenSchedule(t, "none", "none")
    BY <1>4, <1>6 DEF ExitCritical
  <2> QED
    BY <1>3, <2>1
<1> QED
  BY <1>5, <1>6

LEMMA CallScheduleKeeps ==
    ASSUME KernelAssumption, ThreadsInv, NEW t \in Threads, CallSchedule(t)
    PROVE  ThreadsInv'
<1>1. Running(t) /\ ThenSchedule(t, "none", "none") /\ UNCHANGED <<k, owed>>
  BY DEF CallSchedule
<1> QED
  BY <1>1, RunningFree, ToSchedule

LEMMA CreateKeeps ==
    ASSUME KernelAssumption, ThreadsInv, NEW t \in Threads, NEW u \in Threads, ThreadCreate(t, u)
    PROVE  ThreadsInv'
<1>1. /\ Running(t) /\ k.stat[u] = "freed" /\ UNCHANGED owed /\ call' = [call EXCEPT ![u] = UserCode]
      /\ k' = [k EXCEPT !.stat[u] = "init", !.prio[u] = InitPrio[u], !.slice[u] = InitTick,
                        !.error[u] = "EOK"]
  BY DEF ThreadCreate
<1>2. /\ t = k.cur /\ call[t].pc = "user" /\ ~k.isr /\ Sane(k) /\ ~Deals(k.cur) /\ k \in KernelState
      /\ k.stat[t] # "suspend"
      /\ \A q \in Queues : Elems(k.waitq[q]) = {}
      /\ call \in [Threads -> ThreadCallState] /\ owed \in BOOLEAN /\ (owed \/ MostUrgentRuns)
  BY <1>1, RunningFree DEF ThreadsInv
<1>3. InitPrio[u] \in Prios /\ InitTick \in 1..InitTick
  BY DEF KernelAssumption
<1>4. /\ k' \in KernelState
      /\ k'.table = k.table /\ k'.group = k.group /\ k'.waitq = k.waitq /\ k'.defunct = k.defunct
      /\ k'.timers = k.timers /\ k'.cur = k.cur /\ k'.nest = k.nest /\ k'.isr = k.isr
      /\ \A z \in Threads : /\ k'.stat[z] = IF z = u THEN "init" ELSE k.stat[z]
                            /\ z # u => k'.prio[z] = k.prio[z]
  BY <1>1, <1>2, <1>3 DEF KernelState, Statuses, Errors
<1>5. u # k.cur /\ u # IdleThread /\ \A x \in Threads : Deals(x) => call[x].obj # u
  BY <1>1, <1>2 DEF Sane, ThreadsInv, CallsFitKernel, HandledWell, Held
<1>6. ExactBut(k', {})
  <2>1. ExactBut(k, {u}) /\ u \notin Elems(k.timers)
    BY <1>1, <1>2, LeaveOut DEF Sane
  <2>2. ExactBut(k', {u})
    BY <1>4, <2>1, ExactFrame
  <2> QED
    BY <1>4, <2>1, <2>2, TakeIn
<1>7. Sane(k')
  BY <1>2, <1>4, <1>5, <1>6 DEF Sane, OneRuns, KernelAssumption
<1>8. UserCode \in ThreadCallState /\ UserCode.pc = "user" /\ "user" \notin Parts
  BY DEF ThreadCallState, UserCode, Parts
<1>9. /\ call' \in [Threads -> ThreadCallState]
      /\ \A x \in Threads : call'[x] = call[x] \/ ~Deals(x)'
      /\ call'[k.cur] = call[k.cur]
  BY <1>1, <1>2, <1>5, <1>8 DEF Deals
<1>10. k.cur \in Threads /\ (owed \/ MostUrgentRuns)'
  BY <1>1, <1>2, <1>4, <1>5, <1>9 DEF MostUrgentRuns, KernelState
<1> QED
  BY <1>1, <1>2, <1>4, <1>5, <1>7, <1>9, <1>10, CallStep

LEMMA PriorityKeeps ==
    ASSUME KernelAssumption, ThreadsInv, NEW t \in Threads, NEW u \in Threads, NEW p \in Prios,
           ThreadChangePriority(t, u, p)
    PROVE  ThreadsInv'
<1>1. Running(t) /\ k' = ChangePriority(k, u, p) /\ owed' = TRUE /\ UNCHANGED call
  BY DEF ThreadChangePriority
<1>2. /\ t = k.cur /\ call[t].pc = "user" /\ ~k.isr /\ Sane(k) /\ ~Deals(k.cur)
      /\ k.stat[t] # "suspend" /\ \A x \in Threads : Deals(x) => call[x].obj # t
      /\ \A q \in Queues : Elems(k.waitq[q]) = {}
      /\ call \in [Threads -> ThreadCallState]
  BY <1>1, RunningFree
<1>3. /\ Sane(k') /\ k'.stat = k.stat /\ k'.waitq = k.waitq /\ k'.cur = k.cur /\ k'.nest = k.nest
      /\ k'.isr = k.isr /\ k'.timers = k.timers
  BY <1>1, <1>2, SaneChangePriority
<1> QED
  BY <1>1, <1>2, <1>3, CallStep

----------------------------------------------------------------------------
(* The first part of a call of t on u, which nobody else handles.          *)
LEMMA BeginsPart ==
    ASSUME ThreadsInv, NEW t \in Threads, Running(t), NEW u \in Threads, Unhandled(u),
           Sane(k'), k'.cur = k.cur, k'.nest = k.nest, k'.isr = k.isr, k'.prio = k.prio,
           k'.group = k.group, k'.waitq = k.waitq, k'.timers = k.timers,
           \A x \in Threads \ {u} : k'.stat[x] = k.stat[x], k'.stat[t] # "suspend",
           NEW part \in {"resume", "remove"}, NEW op \in {"start", "resume", "delete"},
           ThenPart(t, part, op, u), HandledWell(t)', UNCHANGED owed
    PROVE  ThreadsInv'
<1>1. /\ t = k.cur /\ call[t].pc = "user" /\ ~k.isr /\ ~Deals(k.cur)
      /\ \A q \in Queues : Elems(k.waitq[q]) = {}
      /\ call \in [Threads -> ThreadCallState] /\ owed \in BOOLEAN /\ (owed \/ MostUrgentRuns)
  BY RunningFree DEF ThreadsInv
<1> DEFINE new == [pc |-> part, op |-> op, obj |-> u]
<1>2. new \in ThreadCallState /\ new.pc \in {"resume", "remove"} /\ new.obj = u
  BY DEF ThreadCallState, Parts
<1> HIDE DEF new
<1>3. /\ call' \in [Threads -> ThreadCallState] /\ call'[t] = new
      /\ \A x \in Threads \ {t} : call'[x] = call[x]
  BY <1>1, <1>2 DEF ThenPart, new
<1>4. \A x \in Threads : Deals(x) => call[x].obj # u
  BY DEF Unhandled, Handles, Deals
<1>5. ASSUME NEW x \in Threads \ {t}, Deals(x)' PROVE Deals(x) /\ call'[x] = call[x] /\ HandledWell(x)'
  <2>1. Deals(x) /\ call'[x] = call[x]
    BY <1>3, <1>5 DEF Deals
  <2>2. Undisturbed(x)
    BY <1>1, <1>4, <2>1, CalmStep
  <2> QED
    BY <2>1, <2>2, StillHandled DEF ThreadsInv, CallsFitKernel, Sane
<1>6. OneCallEach'
  <2> SUFFICES ASSUME NEW x \in Threads, NEW y \in Threads, Deals(x)', Deals(y)',
                      call'[x].obj = call'[y].obj
               PROVE  x = y
    BY DEF OneCallEach, Deals
  <2>1. CASE x # t /\ y # t
    BY <1>5, <2>1 DEF ThreadsInv, CallsFitKernel, OneCallEach
  <2>2. CASE x = t \/ y = t
    BY <1>2, <1>3, <1>4, <1>5, <2>2
  <2> QED
    BY <2>1, <2>2
<1>7. CallsFitKernel'
  BY <1>1, <1>3, <1>5, <1>6 DEF CallsFitKernel
<1>8. ~Torn'
  BY <1>1, <1>2, <1>3 DEF Torn
<1>9. KernelFits'
  BY <1>1, <1>8 DEF KernelFits
<1>10. (owed \/ MostUrgentRuns)' /\ owed' \in BOOLEAN
  BY <1>1 DEF MostUrgentRuns
<1> QED
  BY <1>7, <1>9, <1>10 DEF ThreadsInv

LEMMA StartupKeeps ==
    ASSUME KernelAssumption, {"apart", "still"} \subseteq Rules, ThreadsInv,
           NEW t \in Threads, NEW u \in Threads, Startup(t, u)
    PROVE  ThreadsInv'
<1>1. /\ Running(t) /\ k.stat[u] = "init" /\ Unhandled(u) /\ ThenPart(t, "resume", "start", u)
      /\ k' = [k EXCEPT !.stat[u] = "suspend", !.yield = @ \ {u}] /\ UNCHANGED owed
  BY DEF Startup, Apart
<1>2. t = k.cur /\ Sane(k) /\ k \in KernelState /\ k.stat[t] # "suspend" /\ t # IdleThread
      /\ call \in [Threads -> ThreadCallState]
  BY <1>1, RunningFree
<1>3. u # t /\ u # IdleThread
  BY <1>1, <1>2 DEF Sane
<1>4. /\ k' \in KernelState
      /\ k'.table = k.table /\ k'.group = k.group /\ k'.waitq = k.waitq /\ k'.defunct = k.defunct
      /\ k'.timers = k.timers /\ k'.cur = k.cur /\ k'.nest = k.nest /\ k'.isr = k.isr
      /\ k'.prio = k.prio
      /\ \A z \in Threads : k'.stat[z] = IF z = u THEN "suspend" ELSE k.stat[z]
  BY <1>1, <1>2 DEF KernelState, Statuses
<1>5. ExactBut(k, {u}) /\ u \notin Elems(k.timers)
  BY <1>1, <1>2, LeaveOut DEF Sane
<1>6. ExactBut(k', {})
  <2>1. ExactBut(k', {u})
    BY <1>4, <1>5, ExactFrame
  <2> QED
    BY <1>4, <2>1, TakeIn
<1>7. Sane(k')
  BY <1>2, <1>3, <1>4, <1>6 DEF Sane, OneRuns, KernelAssumption
<1>8. call'[t] = [pc |-> "resume", op |-> "start", obj |-> u]
  BY <1>1, <1>2 DEF ThenPart
<1>9. HandledWell(t)'
  BY <1>2, <1>3, <1>4, <1>5, <1>8 DEF HandledWell
<1> QED
  BY <1>1, <1>2, <1>3, <1>4, <1>7, <1>9, BeginsPart

LEMMA ResumeKeeps ==
    ASSUME KernelAssumption, {"apart", "still"} \subseteq Rules, ThreadsInv,
           NEW t \in Threads, NEW u \in Threads, ThreadResume(t, u)
    PROVE  ThreadsInv'
<1>1. /\ Running(t) /\ k.stat[u] = "suspend" /\ Unhandled(u) /\ ThenPart(t, "resume", "resume", u)
      /\ ClockISR => u \notin Elems(k.timers) \/ k.nest > 0
      /\ UNCHANGED <<k, owed>>
  BY DEF ThreadResume, MayResume, Apart
<1>2. t = k.cur /\ Sane(k) /\ k \in KernelState /\ k.stat[t] # "suspend" /\ t # IdleThread
      /\ call \in [Threads -> ThreadCallState]
  BY <1>1, RunningFree
<1>3. u # t /\ u # IdleThread /\ k.nest \in Nat
  BY <1>1, <1>2 DEF Sane, KernelState
<1>4. call'[t] = [pc |-> "resume", op |-> "resume", obj |-> u]
  BY <1>1, <1>2 DEF ThenPart
<1>5. HandledWell(t)'
  BY <1>1, <1>2, <1>3, <1>4 DEF HandledWell
<1> QED
  BY <1>1, <1>2, <1>5, BeginsPart

LEMMA DeleteKeeps ==
    ASSUME KernelAssumption, {"apart", "still"} \subseteq Rules, ThreadsInv,
           NEW t \in Threads, NEW u \in Threads, ThreadDelete(t, u)
    PROVE  ThreadsInv'
<1>1. /\ Running(t) /\ k.stat[u] \notin {"close", "freed"} /\ u # IdleThread /\ Unhandled(u)
      /\ ThenPart(t, "remove", "delete", u)
      /\ ClockISR => /\ u \notin Elems(k.timers)
                     /\ u = t \/ k.stat[u] \in {"init", "suspend"} \/ k.nest > 0
      /\ UNCHANGED <<k, owed>>
  BY DEF ThreadDelete, MayDelete, Apart
<1>2. t = k.cur /\ Sane(k) /\ k \in KernelState /\ k.stat[t] # "suspend" /\ t # IdleThread
      /\ call \in [Threads -> ThreadCallState]
  BY <1>1, RunningFree
<1>3. /\ u = t => k.stat[u] = "running"
      /\ u # t => k.stat[u] \in {"init", "suspend", "ready"}
      /\ k.nest \in Nat
  BY <1>1, <1>2 DEF Sane, OneRuns, KernelState, Statuses
<1>4. call'[t] = [pc |-> "remove", op |-> "delete", obj |-> u]
  BY <1>1, <1>2 DEF ThenPart
<1>5. u # t /\ k.stat[u] = "ready" => Held(t, u)'
  BY <1>1, <1>2, <1>3, <1>4 DEF Held
<1>6. HandledWell(t)'
  BY <1>1, <1>2, <1>3, <1>4, <1>5 DEF HandledWell
<1> QED
  BY <1>1, <1>2, <1>6, BeginsPart

(* What the next part of t's call leaves of the calls in progress. *)
LEMMA NextPart ==
    ASSUME ThreadsInv, NEW t \in Threads, t = k.cur, Deals(t), OneRuns(k'),
           k'.cur = k.cur, k'.nest = k.nest, Elems(k'.timers) \subseteq Elems(k.timers),
           \A x \in Threads \ {call[t].obj} : k'.stat[x] = k.stat[x], k'.stat[t] # "suspend",
           call' \in [Threads -> ThreadCallState],
           \A x \in Threads \ {t} : call'[x] = call[x] \/ ~Deals(x)',
           Deals(t)' => call'[t].obj = call[t].obj /\ HandledWell(t)'
    PROVE  CallsFitKernel'
<1> DEFINE u == call[t].obj
<1>1. \A x \in Threads : Deals(x) => HandledWell(x)
  BY DEF ThreadsInv, CallsFitKernel
<1>2. ASSUME NEW x \in Threads \ {t}, Deals(x)'
      PROVE  Deals(x) /\ call'[x] = call[x] /\ call[x].obj # u /\ HandledWell(x)'
  <2>1. Deals(x) /\ call'[x] = call[x]
    BY <1>2 DEF Deals
  <2>2. call[x].obj # u /\ call[x].obj \in Threads
    BY <1>1, <2>1 DEF ThreadsInv, CallsFitKernel, OneCallEach, HandledWell
  <2>3. Undisturbed(x)
    BY <2>1, <2>2 DEF Undisturbed
  <2> QED
    BY <1>1, <2>1, <2>2, <2>3, StillHandled
<1>3. OneCallEach'
  <2> SUFFICES ASSUME NEW x \in Threads, NEW y \in Threads, Deals(x)', Deals(y)',
                      call'[x].obj = call'[y].obj
               PROVE  x = y
    BY DEF OneCallEach, Deals
  <2>1. CASE x # t /\ y # t
    BY <1>2, <2>1 DEF ThreadsInv, CallsFitKernel, OneCallEach
  <2>2. CASE x = t \/ y = t
    BY <1>2, <2>2
  <2> QED
    BY <2>1, <2>2
<1> QED
  BY <1>2, <1>3 DEF CallsFitKernel

(* A part changes the entry of its caller as ThenPart does, or ends it. *)
LEMMA PartCall ==
    ASSUME ThreadsInv, NEW t \in Threads, At(t, call[t].pc), call[t].pc \in Parts
    PROVE  LET u == call[t].obj
           IN /\ t = k.cur /\ ~k.isr /\ Deals(t) /\ HandledWell(t) /\ u \in Threads \ {IdleThread}
              /\ k.stat[k.cur] # "suspend" /\ (owed \/ MostUrgentRuns) /\ owed \in BOOLEAN
              /\ call \in [Threads -> ThreadCallState]
              /\ \A q \in Queues : Elems(k.waitq[q]) = {}
<1>1. t = k.cur /\ ~k.isr /\ Deals(t)
  BY DEF At, Deals
<1>2. call[t].pc # "sched"
  BY DEF Parts
<1> QED
  BY <1>1, <1>2 DEF ThreadsInv, CallsFitKernel, HandledWell, KernelFits

LEMMA PartTypes ==
    ASSUME call \in [Threads -> ThreadCallState], NEW t \in Threads, NEW u \in Threads,
           NEW part \in {"insert", "close"}, NEW op \in {"none", "sleep", "start", "resume", "delete"},
           ThenPart(t, part, op, u)
    PROVE  /\ call' \in [Threads -> ThreadCallState]
           /\ call'[t].pc = part /\ call'[t].obj = u
           /\ \A x \in Threads \ {t} : call'[x] = call[x]
<1> DEFINE new == [pc |-> part, op |-> op, obj |-> u]
<1>1. new \in ThreadCallState /\ new.pc = part /\ new.obj = u
  BY DEF ThreadCallState, Parts
<1> HIDE DEF new
<1>2. call' = [call EXCEPT ![t] = new]
  BY DEF ThenPart, new
<1> QED
  BY <1>1, <1>2

LEMMA UnlinkKeeps ==
    ASSUME KernelAssumption, ThreadsInv, NEW t \in Threads, ResumeUnlinks(t)
    PROVE  ThreadsInv'
<1> DEFINE u == call[t].obj
           r == rt_timer_stop(rt_list_remove(k, u), u)
<1>1. /\ At(t, "resume") /\ call[t].pc = "resume" /\ k' = r
      /\ ThenPart(t, "insert", call[t].op, u) /\ UNCHANGED owed
  BY DEF ResumeUnlinks, At
<1>2. /\ t = k.cur /\ ~k.isr /\ Deals(t) /\ HandledWell(t) /\ u \in Threads \ {IdleThread}
      /\ k.stat[k.cur] # "suspend" /\ (owed \/ MostUrgentRuns) /\ owed \in BOOLEAN
      /\ call \in [Threads -> ThreadCallState]
      /\ \A q \in Queues : Elems(k.waitq[q]) = {}
  BY <1>1, PartCall DEF Parts
<1>3. u # t /\ (k.stat[u] = "suspend" \/ (k.stat[u] = "ready" /\ k.nest # 0))
  BY <1>1, <1>2 DEF HandledWell, Held
<1>4. ~Torn /\ Sane(k) /\ k \in KernelState
  BY <1>1, <1>2 DEF Torn, ThreadsInv, KernelFits, Sane
<1>5. call[t].op \in {"none", "sleep", "start", "resume", "delete"}
  BY <1>2 DEF ThreadCallState
<1>6. /\ call' \in [Threads -> ThreadCallState]
      /\ call'[t].pc = "insert" /\ call'[t].obj = u
      /\ \A x \in Threads \ {t} : call'[x] = call[x]
  BY <1>1, <1>2, <1>5, PartTypes
<1> HIDE DEF u, r
<1>7. CASE k.stat[u] = "suspend"
  <2>1. /\ Sane(k') /\ SameCore(k, k') /\ k'.stat = k.stat /\ k'.group = k.group
        /\ QueuesLose(k, k', u) /\ Elems(k'.timers) = Elems(k.timers) \ {u}
    BY <1>1, <1>2, <1>4, <1>7, UnlinkSane DEF r
  <2>2. HandledWell(t)'
    BY <1>2, <1>3, <1>6, <1>7, <2>1 DEF HandledWell, SameCore, u
  <2>3. CallsFitKernel'
    <3>1. /\ OneRuns(k') /\ k'.cur = k.cur /\ k'.nest = k.nest /\ k'.stat[t] # "suspend"
          /\ Elems(k'.timers) \subseteq Elems(k.timers)
      BY <1>2, <2>1 DEF Sane, SameCore
    <3> QED
      BY <1>2, <1>6, <2>1, <2>2, <3>1, NextPart DEF u
  <2>4. KernelFits'
    <3>1. ~Torn'
      BY <1>2, <1>6, <1>7, <2>1 DEF Torn, SameCore
    <3> QED
      BY <1>2, <2>1, <3>1 DEF KernelFits, SameCore, QueuesLose
  <2>5. (owed \/ MostUrgentRuns)' /\ owed' \in BOOLEAN
    BY <1>1, <1>2, <2>1 DEF MostUrgentRuns, SameCore
  <2> QED
    BY <2>3, <2>4, <2>5 DEF ThreadsInv
<1>8. CASE k.stat[u] = "ready" /\ k.nest # 0
  <2> DEFINE a == rt_list_remove(k, u)
  <2>1. u \notin Elems(k.timers)
    BY <1>2, <1>4, <1>8 DEF Sane, ExactBut, Agrees
  <2>2. /\ a \in KernelState /\ SameCore(k, a) /\ a.group = k.group /\ a.stat = k.stat
        /\ a.timers = k.timers /\ \A q \in Queues : Elems(a.waitq[q]) = Elems(k.waitq[q]) \ {u}
    BY <1>2, <1>4, ListRemove
  <2> HIDE DEF a
  <2>3. r = [a EXCEPT !.timers = Without(a.timers, u), !.left[u] = 0]
    BY DEF r, a, rt_timer_stop
  <2>4. r \in KernelState /\ SameCore(a, r)
    BY <1>2, <2>2, TimerStop DEF r, a
  <2>5. /\ r.table = a.table /\ r.waitq = a.waitq /\ r.defunct = a.defunct /\ r.timers = k.timers
        /\ r.stat = k.stat /\ r.group = k.group
    BY <2>1, <2>2, <2>3 DEF Without, KernelState
  <2>6. /\ r.prio = k.prio /\ r.cur = k.cur /\ r.nest = k.nest /\ r.isr = k.isr
    BY <2>2, <2>4 DEF SameCore
  <2>7. HalfWay(k', u)
    BY <1>1, <1>2, <1>3, <1>4, <1>8, <2>4, <2>5, <2>6, TornApart DEF a
  <2>8. OneRuns(k')
    BY <1>2, <2>7, HalfWayMeans
  <2>9. HandledWell(t)'
    BY <1>1, <1>2, <1>3, <1>6, <1>8, <2>1, <2>5, <2>6 DEF HandledWell, Held, u
  <2>10. CallsFitKernel'
    <3>1. Elems(k'.timers) \subseteq Elems(k.timers) /\ k'.stat[t] # "suspend"
      BY <1>1, <1>2, <2>5
    <3> QED
      BY <1>1, <1>2, <1>6, <2>5, <2>6, <2>8, <2>9, <3>1, NextPart DEF u
  <2>11. Torn'
    BY <1>1, <1>2, <1>3, <1>6, <1>8, <2>5, <2>6 DEF Torn
  <2>12. \A q \in Queues : Elems(k'.waitq[q]) = {}
    BY <1>1, <1>2, <2>2, <2>5
  <2>13. KernelFits'
    BY <1>1, <1>2, <1>6, <2>6, <2>7, <2>11, <2>12 DEF KernelFits
  <2>14. MostUrgentRuns' /\ owed' \in BOOLEAN
    BY <1>1, <1>2, <1>8, <2>6 DEF MostUrgentRuns
  <2> QED
    BY <2>10, <2>13, <2>14 DEF ThreadsInv
<1> QED
  BY <1>3, <1>7, <1>8

LEMMA RemoveKeeps ==
    ASSUME KernelAssumption, ThreadsInv, NEW t \in Threads, DeleteRemoves(t)
    PROVE  ThreadsInv'
<1> DEFINE u == call[t].obj
           r == Unschedule(k, u)
<1>1. /\ At(t, "remove") /\ call[t].pc = "remove" /\ k' = r
      /\ ThenPart(t, "close", "delete", u) /\ UNCHANGED owed
  BY DEF DeleteRemoves, At
<1>2. /\ t = k.cur /\ ~k.isr /\ Deals(t) /\ HandledWell(t) /\ u \in Threads \ {IdleThread}
      /\ k.stat[k.cur] # "suspend" /\ (owed \/ MostUrgentRuns) /\ owed \in BOOLEAN
      /\ call \in [Threads -> ThreadCallState]
      /\ \A q \in Queues : Elems(k.waitq[q]) = {}
  BY <1>1, PartCall DEF Parts
<1>3. ~Torn /\ Sane(k) /\ k \in KernelState
  BY <1>1, <1>2 DEF Torn, ThreadsInv, KernelFits, Sane
<1>4. /\ u = t => k.stat[u] = "running"
      /\ u # t => k.stat[u] \in {"init", "suspend"} \/ Held(t, u)
      /\ ClockISR => u \notin Elems(k.timers)
  <2>1. k.stat[t] # "ready"
    BY <1>2, <1>3 DEF Sane
  <2>2. u = t => k.stat[t] \in {"running", "ready"}
    BY <1>2 DEF HandledWell
  <2>3. u # t => k.stat[u] \in {"init", "suspend"} \/ Held(t, u)
    BY <1>2 DEF HandledWell
  <2>4. ClockISR => u \notin Elems(k.timers)
    <3>1. CASE u = t
      BY <1>2, <1>3, <2>1, <2>2, <3>1 DEF Sane, ExactBut, Agrees
    <3>2. CASE u # t
      BY <1>1, <1>2, <3>2 DEF HandledWell
    <3> QED
      BY <3>1, <3>2
  <2> QED
    BY <2>1, <2>2, <2>3, <2>4
<1>5. /\ call' \in [Threads -> ThreadCallState]
      /\ call'[t].pc = "close" /\ call'[t].obj = u
      /\ \A x \in Threads \ {t} : call'[x] = call[x]
  BY <1>1, <1>2, PartTypes
<1> HIDE DEF u, r
<1>6. CASE k.stat[u] \in {"init", "suspend", "running"}
  <2>1. /\ Sane(k') /\ SameCore(k, k') /\ k'.stat = k.stat /\ k'.group \subseteq k.group
        /\ QueuesLose(k, k', u) /\ k'.timers = k.timers
    BY <1>1, <1>2, <1>3, <1>6, UnscheduleSane DEF r
  <2>2. HandledWell(t)'
    BY <1>2, <1>4, <1>5, <1>6, <2>1 DEF HandledWell, SameCore, Held, u
  <2>3. CallsFitKernel'
    <3>1. /\ OneRuns(k') /\ k'.cur = k.cur /\ k'.nest = k.nest /\ k'.stat[t] # "suspend"
          /\ Elems(k'.timers) \subseteq Elems(k.timers)
      BY <1>2, <2>1 DEF Sane, SameCore
    <3> QED
      BY <1>2, <1>5, <2>1, <2>2, <3>1, NextPart DEF u
  <2>4. KernelFits'
    <3>1. ~Torn'
      BY <1>2, <1>5, <1>6, <2>1 DEF Torn, SameCore
    <3> QED
      BY <1>2, <2>1, <3>1 DEF KernelFits, SameCore, QueuesLose
  <2>5. (owed \/ MostUrgentRuns)' /\ owed' \in BOOLEAN
    BY <1>1, <1>2, <1>5, <2>1 DEF MostUrgentRuns, SameCore
  <2> QED
    BY <2>3, <2>4, <2>5 DEF ThreadsInv
<1>7. CASE u # t /\ Held(t, u)
  <2> DEFINE a == rt_list_remove(k, u)
  <2>1. k.stat[u] = "ready"
    BY <1>7 DEF Held
  <2>2. /\ a \in KernelState /\ SameCore(k, a) /\ a.group = k.group /\ a.stat = k.stat
        /\ a.timers = k.timers /\ \A q \in Queues : Elems(a.waitq[q]) = Elems(k.waitq[q]) \ {u}
        /\ \A p \in Prios : Elems(a.table[p]) = Elems(k.table[p]) \ {u}
    BY <1>2, <1>3, ListRemove
  <2>3. /\ r \in KernelState /\ SameCore(k, r) /\ r.stat = k.stat /\ r.timers = k.timers
        /\ \A p \in Prios : Elems(r.table[p]) = Elems(k.table[p]) \ {u}
        /\ r.group = IF Elems(r.table[k.prio[u]]) = {} THEN k.group \ {k.prio[u]} ELSE k.group
    <3>1. r = rt_schedule_remove_thread(k, u)
      BY <2>1 DEF r, Unschedule
    <3> DEFINE z == rt_schedule_remove_thread(k, u)
    <3>2. /\ z \in KernelState /\ SameCore(k, z) /\ z.stat = k.stat /\ z.timers = k.timers
          /\ \A p \in Prios : Elems(z.table[p]) = Elems(k.table[p]) \ {u}
          /\ z.group = IF Elems(z.table[k.prio[u]]) = {} THEN k.group \ {k.prio[u]} ELSE k.group
      BY <1>2, <1>3, ScheduleRemove, ZenonT(60)
    <3> HIDE DEF z
    <3> QED
      BY <3>1, <3>2 DEF z
  <2>4. r = IF a.table[a.prio[u]] = <<>> THEN [a EXCEPT !.group = @ \ {a.prio[u]}] ELSE a
    BY <2>1 DEF r, a, Unschedule, rt_schedule_remove_thread
  <2> HIDE DEF a
  <2>5. r.table = a.table /\ r.waitq = a.waitq /\ r.defunct = a.defunct
    BY <2>2, <2>4 DEF KernelState
  <2>6. r.group = Bits(r)
    <3>1. /\ k.group = Bits(k) /\ k.prio[u] \in Prios
          /\ \A p \in Prios : u \in Elems(k.table[p]) => p = k.prio[u]
      BY <1>2, <1>3 DEF Sane, ExactBut, GroupExact, Agrees, Bits, KernelState
    <3>2. ASSUME NEW p \in Prios PROVE p \in r.group <=> Elems(r.table[p]) # {}
      BY <2>3, <3>1, <3>2 DEF Bits
    <3>3. r.group \subseteq Prios
      BY <2>3 DEF KernelState
    <3> QED
      BY <3>2, <3>3 DEF Bits
  <2>7. /\ r.prio = k.prio /\ r.cur = k.cur /\ r.nest = k.nest /\ r.isr = k.isr
        /\ r.group \subseteq k.group
    BY <2>3 DEF SameCore
  <2>8. HalfWay(k', u)
    <3>1. /\ r.table = rt_list_remove(k, u).table /\ r.waitq = rt_list_remove(k, u).waitq
          /\ r.defunct = rt_list_remove(k, u).defunct
      BY <2>5 DEF a
    <3> QED
      BY <1>1, <1>2, <1>3, <1>7, <2>1, <2>3, <2>6, <2>7, <3>1, TornApart
  <2>9. OneRuns(k')
    BY <1>2, <2>8, HalfWayMeans
  <2>10. HandledWell(t)'
    BY <1>1, <1>2, <1>4, <1>5, <1>7, <2>3, <2>7 DEF HandledWell, Held, u
  <2>11. CallsFitKernel'
    <3>1. Elems(k'.timers) \subseteq Elems(k.timers) /\ k'.stat[t] # "suspend"
      BY <1>1, <1>2, <2>3
    <3> QED
      BY <1>1, <1>2, <1>5, <2>3, <2>7, <2>9, <2>10, <3>1, NextPart DEF u
  <2>12. Torn'
    BY <1>1, <1>2, <1>5, <1>7, <2>1, <2>3, <2>7 DEF Torn
  <2>13. \A q \in Queues : Elems(k'.waitq[q]) = {}
    BY <1>1, <1>2, <2>2, <2>5
  <2>14. KernelFits'
    BY <1>1, <1>2, <1>5, <2>6, <2>7, <2>8, <2>12, <2>13 DEF KernelFits
  <2>15. (owed \/ MostUrgentRuns)' /\ owed' \in BOOLEAN
    BY <1>1, <1>2, <1>5, <2>7 DEF MostUrgentRuns
  <2> QED
    BY <2>11, <2>14, <2>15 DEF ThreadsInv
<1> QED
  BY <1>4, <1>6, <1>7

LEMMA InsertKeeps ==
    ASSUME KernelAssumption, ThreadsInv, NEW t \in Threads, ResumeInserts(t)
    PROVE  ThreadsInv'
<1> DEFINE u == call[t].obj
           r == rt_schedule_insert_thread(k, u)
<1>1. /\ At(t, "insert") /\ call[t].pc = "insert" /\ k' = r
      /\ \/ ThenSchedule(t, "none", "none") /\ UNCHANGED owed
         \/ call' = [call EXCEPT ![t] = UserCode] /\ owed' = TRUE
  BY DEF ResumeInserts, At
<1>2. /\ t = k.cur /\ ~k.isr /\ Deals(t) /\ HandledWell(t) /\ u \in Threads \ {IdleThread}
      /\ k.stat[k.cur] # "suspend" /\ owed \in BOOLEAN
      /\ call \in [Threads -> ThreadCallState]
      /\ \A q \in Queues : Elems(k.waitq[q]) = {}
  BY <1>1, PartCall DEF Parts
<1>3. u # t /\ u \notin Elems(k.timers) /\ k.stat[u] \in {"suspend", "ready"}
  BY <1>1, <1>2 DEF HandledWell, Held
<1>4. /\ call' \in [Threads -> ThreadCallState] /\ ~Deals(t)'
      /\ \A x \in Threads \ {t} : call'[x] = call[x]
      /\ call'[t].pc = "sched" \/ owed' = TRUE
      /\ owed' \in BOOLEAN
  <2>1. CASE ThenSchedule(t, "none", "none") /\ UNCHANGED owed
    <3> DEFINE new == [pc |-> "sched", op |-> "none", obj |-> "none"]
    <3>1. new \in ThreadCallState /\ new.pc = "sched" /\ "sched" \notin Parts
      BY DEF ThreadCallState, Parts
    <3>2. call' = [call EXCEPT ![t] = new]
      BY <2>1 DEF ThenSchedule
    <3> HIDE DEF new
    <3> QED
      BY <1>2, <2>1, <3>1, <3>2 DEF Deals
  <2>2. CASE call' = [call EXCEPT ![t] = UserCode] /\ owed' = TRUE
    <3>1. UserCode \in ThreadCallState /\ UserCode.pc = "user" /\ "user" \notin Parts
      BY DEF ThreadCallState, UserCode, Parts
    <3> QED
      BY <1>2, <2>2, <3>1 DEF Deals
  <2> QED
    BY <1>1, <2>1, <2>2
<1> HIDE DEF u, r
<1>5. /\ Sane(k') /\ SameCore(k, k') /\ k'.timers = k.timers /\ k'.waitq = k.waitq
      /\ \A x \in Threads \ {u} : k'.stat[x] = k.stat[x]
  <2>1. CASE k.stat[u] = "suspend"
    <3>1. ~Torn /\ Sane(k) /\ k.stat \in [Threads -> Statuses]
      BY <1>2, <2>1 DEF Torn, ThreadsInv, KernelFits, Sane, KernelState, u
    <3>2. Off(k, u)
      BY <1>2, <2>1, <3>1 DEF Sane, ExactBut, Agrees, Off
    <3>3. /\ Sane(k') /\ SameCore(k, k') /\ k'.timers = k.timers /\ k'.waitq = k.waitq
          /\ k'.stat = [k.stat EXCEPT ![u] = "ready"]
      BY <1>1, <1>2, <1>3, <2>1, <3>1, <3>2, InsertSane DEF r
    <3> QED
      BY <3>1, <3>3
  <2>2. CASE k.stat[u] = "ready"
    <3>1. HalfWay(k, u)
      BY <1>1, <1>2, <1>3, <2>2 DEF Torn, ThreadsInv, KernelFits, u
    <3> QED
      BY <1>1, <1>2, <3>1, InsertTorn DEF r
  <2> QED
    BY <1>3, <2>1, <2>2
<1>6. CallsFitKernel'
  <2>1. /\ OneRuns(k') /\ k'.cur = k.cur /\ k'.nest = k.nest /\ k'.stat[t] # "suspend"
        /\ Elems(k'.timers) \subseteq Elems(k.timers)
    BY <1>2, <1>3, <1>5 DEF Sane, SameCore
  <2> QED
    BY <1>2, <1>4, <1>5, <2>1, NextPart DEF u
<1>7. KernelFits'
  <2>1. ~Torn'
    BY <1>2, <1>4, <1>5 DEF Torn, Deals, Parts, SameCore
  <2> QED
    BY <1>2, <1>5, <2>1 DEF KernelFits, SameCore
<1>8. (owed \/ MostUrgentRuns)'
  BY <1>2, <1>4, <1>5 DEF MostUrgentRuns, SameCore
<1> QED
  BY <1>4, <1>6, <1>7, <1>8 DEF ThreadsInv

LEMMA CloseKeeps ==
    ASSUME KernelAssumption, ThreadsInv, NEW t \in Threads, DeleteCloses(t)
    PROVE  ThreadsInv'
<1> DEFINE u == call[t].obj
           r == MakeDefunct(k, u)
<1>1. /\ At(t, "close") /\ call[t].pc = "close" /\ k' = r /\ UNCHANGED owed
      /\ call' = [x \in Threads |-> IF x \in {t, u} THEN UserCode ELSE call[x]]
  BY DEF DeleteCloses, At
<1>2. /\ t = k.cur /\ ~k.isr /\ Deals(t) /\ HandledWell(t) /\ u \in Threads \ {IdleThread}
      /\ k.stat[k.cur] # "suspend" /\ (owed \/ MostUrgentRuns) /\ owed \in BOOLEAN
      /\ call \in [Threads -> ThreadCallState]
      /\ \A q \in Queues : Elems(k.waitq[q]) = {}
  BY <1>1, PartCall DEF Parts
<1>3. UserCode \in ThreadCallState /\ UserCode.pc = "user" /\ "user" \notin Parts
  BY DEF ThreadCallState, UserCode, Parts
<1>4. /\ call' \in [Threads -> ThreadCallState] /\ call'[t].pc = "user" /\ ~Deals(t)'
      /\ \A x \in Threads \ {t} : call'[x] = call[x] \/ ~Deals(x)'
  BY <1>1, <1>2, <1>3 DEF Deals
<1> HIDE DEF u, r
<1>5. /\ Sane(k') /\ k'.cur = k.cur /\ k'.nest = k.nest /\ k'.isr = k.isr
      /\ k'.prio = k.prio /\ k'.group = k.group /\ k'.waitq = k.waitq
      /\ k'.stat = [k.stat EXCEPT ![u] = "close"]
      /\ Elems(k'.timers) = Elems(k.timers) \ {u} /\ k.stat \in [Threads -> Statuses]
  <2>1. CASE ~Torn
    <3>1. Sane(k) /\ k.stat \in [Threads -> Statuses]
      BY <2>1 DEF ThreadsInv, KernelFits, Sane, KernelState
    <3>2. k.stat[u] \in {"running", "suspend", "init"}
      <4>1. CASE u = t
        BY <1>2, <3>1, <4>1 DEF HandledWell, Sane, u
      <4>2. CASE u # t
        BY <1>1, <1>2, <2>1, <4>2 DEF HandledWell, Held, Torn, u
      <4> QED
        BY <4>1, <4>2
    <3>3. Off(k, u)
      BY <1>2, <3>1, <3>2 DEF Sane, ExactBut, Agrees, Off
    <3> QED
      BY <1>1, <1>2, <3>1, <3>3, DefunctSane DEF r
  <2>2. CASE Torn
    <3>1. HalfWay(k, u) /\ k.group = Bits(k)
      BY <1>1, <1>2, <2>2 DEF ThreadsInv, KernelFits, u
    <3>2. k.stat \in [Threads -> Statuses]
      BY <1>2, <3>1, HalfWayMeans
    <3> QED
      BY <1>1, <1>2, <3>1, <3>2, DefunctTorn DEF r
  <2> QED
    BY <2>1, <2>2
<1>6. CallsFitKernel'
  <2>1. /\ OneRuns(k') /\ k'.stat[t] # "suspend" /\ Elems(k'.timers) \subseteq Elems(k.timers)
        /\ \A x \in Threads \ {u} : k'.stat[x] = k.stat[x]
    BY <1>2, <1>5 DEF Sane
  <2> QED
    BY <1>2, <1>4, <1>5, <2>1, NextPart DEF u
<1>7. KernelFits'
  <2>1. ~Torn'
    BY <1>2, <1>4, <1>5 DEF Torn, Deals, Parts
  <2> QED
    BY <1>2, <1>5, <2>1 DEF KernelFits
<1>8. (owed \/ MostUrgentRuns)' /\ owed' \in BOOLEAN
  BY <1>1, <1>2, <1>4, <1>5 DEF MostUrgentRuns
<1> QED
  BY <1>6, <1>7, <1>8 DEF ThreadsInv

LEMMA CallsKeep ==
    ASSUME KernelAssumption, {"apart", "still"} \subseteq Rules, ThreadsInv,
           NEW t \in Threads, ThreadCalls(t)
    PROVE  ThreadsInv'
<1>1. CASE \E u \in Threads : \/ Startup(t, u) \/ ThreadResume(t, u)
                              \/ ThreadDelete(t, u) \/ ThreadCreate(t, u)
  BY <1>1, StartupKeeps, ResumeKeeps, DeleteKeeps, CreateKeeps
<1>2. CASE ResumeUnlinks(t) \/ ResumeInserts(t) \/ DeleteRemoves(t) \/ DeleteCloses(t)
  BY <1>2, UnlinkKeeps, InsertKeeps, RemoveKeeps, CloseKeeps
<1>3. CASE ThreadSleepBack(t) /\ UNCHANGED owed
  BY <1>3, SleepBackKeeps
<1>4. CASE ThreadYield(t) /\ UNCHANGED owed
  BY <1>4, YieldKeeps
<1>5. CASE \E n \in Timeouts : ThreadSleep(t, n) /\ UNCHANGED owed
  BY <1>5, SleepKeeps
<1>6. CASE EnterCritical(t) \/ ExitCritical(t)
  BY <1>6, CriticalKeeps
<1>7. CASE \E u \in Threads, p \in Prios : ThreadChangePriority(t, u, p)
  BY <1>7, PriorityKeeps
<1> QED
  BY <1>1, <1>2, <1>3, <1>4, <1>5, <1>6, <1>7, ScheduleKeeps, SuspendKeeps, ExitKeeps,
     CallScheduleKeeps DEF ThreadCalls

LEMMA ThreadsInvStep ==
    ASSUME KernelAssumption, {"apart", "still"} \subseteq Rules, ThreadsInv, [Next]_vars
    PROVE  ThreadsInv'
<1>1. CASE Clock
  BY <1>1, TickKeeps
<1>2. CASE IdleLoop /\ UNCHANGED owed
  BY <1>2, IdleKeeps
<1>3. CASE \E t \in Threads : ThreadCalls(t)
  BY <1>3, CallsKeep
<1>4. CASE UNCHANGED vars
  <2>1. k' = k /\ call' = call /\ owed' = owed
    BY <1>4 DEF vars
  <2> QED
    BY <2>1 DEF ThreadsInv, KernelFits, CallsFitKernel, MostUrgentRuns, Torn, Deals, HandledWell,
                Held, OneCallEach
<1> QED
  BY <1>1, <1>2, <1>3, <1>4 DEF Next

LEMMA ThreadsInvAlways ==
    ASSUME KernelAssumption, {"apart", "still"} \subseteq Rules
    PROVE  Spec => []ThreadsInv
<1>1. Init => ThreadsInv
  BY ThreadsInvInit
<1>2. ThreadsInv /\ [Next]_vars => ThreadsInv'
  BY ThreadsInvStep
<1> QED
  BY <1>1, <1>2, PTL DEF Spec

----------------------------------------------------------------------------
(* What the invariant says of the properties.                              *)

LEMMA KernelShape ==
    ASSUME ThreadsInv
    PROVE  k \in KernelState /\ k.cur \in Threads /\ call \in [Threads -> ThreadCallState]
<1>1. k \in KernelState
  BY DEF ThreadsInv, KernelFits, HalfWay, Sane
<1> QED
  BY <1>1 DEF KernelState, ThreadsInv, CallsFitKernel

(* Only Torn leaves a ready thread off the ready table. *)
LEMMA RemovedReady ==
    ASSUME ThreadsInv, NEW u \in Threads, Removed(u), k.stat[u] = "ready"
    PROVE  Torn /\ u = call[k.cur].obj
<1>1. PICK t \in Threads \ {u} : call[t].pc \in {"insert", "close"} /\ call[t].obj = u
  BY DEF Removed
<1>2. Deals(t) /\ HandledWell(t)
  BY <1>1 DEF Deals, Parts, ThreadsInv, CallsFitKernel
<1>3. Held(t, u) /\ u # k.cur
  BY <1>1, <1>2 DEF HandledWell
<1> QED
  BY <1>1, <1>3 DEF Held, Torn

LEMMA TornMeans ==
    ASSUME ThreadsInv, Torn
    PROVE  ReadyTableExact /\ TimerOfSuspended
<1> DEFINE u == call[k.cur].obj
           s == Settled(k, u)
<1>1. /\ u \in Threads \ {IdleThread} /\ u # k.cur /\ HalfWay(k, u) /\ k.cur \in Threads
      /\ Deals(k.cur) /\ Held(k.cur, u)
  BY TornCall
<1>2. /\ k \in KernelState /\ Sane(s) /\ Off(k, u) /\ u \notin Elems(k.timers) /\ k.stat[u] = "ready"
      /\ Bits(k) \subseteq k.group
      /\ k.stat \in [Threads -> Statuses]
  BY <1>1 DEF HalfWay, KernelState
<1>3. /\ s.table = k.table /\ s.defunct = k.defunct /\ s.timers = k.timers /\ s.prio = k.prio
      /\ s.stat = [k.stat EXCEPT ![u] = "suspend"]
  BY <1>2 DEF Settled, KernelState
<1>4. \A t \in Threads : Agrees(s, t)
  BY <1>2 DEF Sane, ExactBut
<1> HIDE DEF s
<1>5. ASSUME NEW t \in Threads, t # u
      PROVE  /\ \A p \in Prios : t \in Elems(k.table[p]) <=> (k.stat[t] = "ready" /\ k.prio[t] = p)
             /\ t \in Elems(k.defunct) <=> k.stat[t] = "close"
             /\ t \in Elems(k.timers) => k.stat[t] = "suspend"
  BY <1>2, <1>3, <1>4, <1>5 DEF Agrees
<1>6. \A t \in Threads : t # u /\ k.stat[t] = "ready" => ~Removed(t)
  BY RemovedReady
<1>7. Removed(u)
  BY <1>1 DEF Removed, Torn
<1>8. k.nest = 0 => k.group = Bits(k)
  BY <1>1 DEF Held, Torn, ThreadsInv, KernelFits
<1>9. {p \in Prios : k.table[p] # <<>>} = Bits(k)
  <2>1. ASSUME NEW p \in Prios PROVE k.table[p] # <<>> <=> Elems(k.table[p]) # {}
    <3>1. k.table[p] \in Lists1(Threads)
      BY <1>2 DEF KernelState
    <3> QED
      BY <3>1, ListElems
  <2> QED
    BY <2>1 DEF Bits
<1>10. \A l \in Lists, t \in Threads : \A i, j \in Times(l, t) : i = j
  <2> SUFFICES ASSUME NEW l \in Lists, NEW t \in Threads, NEW i \in Times(l, t), NEW j \in Times(l, t)
               PROVE  i = j
    OBVIOUS
  <2>1. l \in Lists1(Threads)
    BY <1>2 DEF Lists, KernelState
  <2>2. i \in 1..Len(l) /\ j \in 1..Len(l) /\ l[i] = l[j]
    BY <2>1, ListElems DEF Times
  <2> QED
    BY <2>1, <2>2 DEF Lists1
<1>11. \A q \in Queues : Elems(k.waitq[q]) = {}
  BY DEF ThreadsInv, KernelFits
<1> HIDE DEF u
<1>12. \A t \in Threads, p \in Prios :
          t \in Elems(k.table[p]) <=> (k.stat[t] = "ready" /\ k.prio[t] = p /\ ~Removed(t))
  <2> SUFFICES ASSUME NEW t \in Threads, NEW p \in Prios
               PROVE  t \in Elems(k.table[p]) <=> (k.stat[t] = "ready" /\ k.prio[t] = p /\ ~Removed(t))
    OBVIOUS
  <2>1. CASE t = u
    BY <1>2, <1>7, <2>1 DEF Off
  <2>2. CASE t # u
    BY <1>5, <1>6, <2>2
  <2> QED
    BY <2>1, <2>2
<1>13. \A t \in Threads : t \in Elems(k.defunct) <=> k.stat[t] = "close"
  <2> SUFFICES ASSUME NEW t \in Threads PROVE t \in Elems(k.defunct) <=> k.stat[t] = "close"
    OBVIOUS
  <2>1. CASE t = u
    BY <1>2, <2>1 DEF Off
  <2>2. CASE t # u
    BY <1>5, <2>2
  <2> QED
    BY <2>1, <2>2
<1>14. ReadyTableExact
  BY <1>2, <1>8, <1>9, <1>10, <1>11, <1>12, <1>13 DEF ReadyTableExact
<1>15. Elems(k.timers) \subseteq Threads
  <2>1. k.timers \in Lists1(Threads)
    BY <1>2 DEF KernelState
  <2> QED
    BY <2>1, ListElems
<1>16. TimerOfSuspended
  BY <1>2, <1>5, <1>15 DEF TimerOfSuspended
<1> QED
  BY <1>14, <1>16

LEMMA InvMeans ==
    ASSUME ThreadsInv
    PROVE  ReadyTableExact /\ TimerOfSuspended
<1>1. CASE Torn
  BY <1>1, TornMeans
<1>2. CASE ~Torn
  <2>1. Sane(k)
    BY <1>2 DEF ThreadsInv, KernelFits
  <2> QED
    BY <1>2, <2>1, RemovedReady, SaneMeans
<1> QED
  BY <1>1, <1>2

----------------------------------------------------------------------------
(* The kernel keeps its types, the limits of the time slice among them:    *)
(* rt_tick_increase fills it up again before it is zero.                   *)
THEOREM ThreadsTypes ==
    ASSUME KernelAssumption, {"apart", "still"} \subseteq Rules
    PROVE  Spec => []ThreadsTypeOK
<1>1. ASSUME ThreadsInv PROVE ThreadsTypeOK
  <2>1. k \in KernelState /\ call \in [Threads -> ThreadCallState]
    BY <1>1, KernelShape
  <2>2. Lists1(Threads) \subseteq Seq(Threads)
    BY DEF Lists1
  <2>3. KernelTypeOK
    BY <2>1, <2>2 DEF KernelState, KernelTypeOK, ThreadCallState, Statuses, Errors
  <2> QED
    BY <1>1, <2>3 DEF ThreadsTypeOK, ThreadsInv
<1> QED
  BY <1>1, ThreadsInvAlways, PTL

(* When the application keeps the rules of RtThreads, the bitmap of        *)
(* rt_schedule misses no priority with ready threads, a thread is on the   *)
(* list of its current priority exactly when it is READY, and its one list *)
(* node is never on two lists.  The clock interrupt, and after it other    *)
(* threads, come between any two parts of rt_thread_startup,               *)
(* rt_thread_resume and rt_thread_delete; only there, and only under the   *)
(* scheduler lock or without a clock, a ready thread is on no list.        *)
THEOREM ReadyTableAlwaysExact ==
    ASSUME KernelAssumption, {"apart", "still"} \subseteq Rules
    PROVE  Spec => []ReadyTableExact
<1>1. ThreadsInv => ReadyTableExact
  BY InvMeans
<1> QED
  BY <1>1, ThreadsInvAlways, PTL

(* The assertion of _thread_timeout never fails when the application keeps *)
(* the rules of RtThreads: a timer that runs out finds its thread          *)
(* suspended, also in the middle of a call that wakes or deletes it.       *)
THEOREM TimersOfSuspended ==
    ASSUME KernelAssumption, {"apart", "still"} \subseteq Rules
    PROVE  Spec => []TimerOfSuspended
<1>1. ThreadsInv => TimerOfSuspended
  BY InvMeans
<1> QED
  BY <1>1, ThreadsInvAlways, PTL

(* Unless rt_thread_resume or a change of priority left rescheduling to    *)
(* its caller, no thread that is ready is more urgent than the one that    *)
(* runs, once rt_schedule was reached and the scheduler is not locked.     *)
THEOREM UrgentThreadRuns ==
    ASSUME KernelAssumption, {"apart", "still"} \subseteq Rules
    PROVE  Spec => []MostUrgentRunsUnlessOwed
<1>1. ThreadsInv => MostUrgentRunsUnlessOwed
  BY DEF ThreadsInv, MostUrgentRunsUnlessOwed
<1> QED
  BY <1>1, ThreadsInvAlways, PTL
=============================================================================
