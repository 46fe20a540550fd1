----------------------------- MODULE RtMailbox -----------------------------
(***************************************************************************)
(* A mailbox of ipc.c on the kernel of RtKernel: a ring of words, a list   *)
(* of waiting receivers and one of waiting senders.  A woken thread is     *)
(* promised nothing: it looks again, and another thread may have been      *)
(* faster, so it may have to wait once more for the rest of its time.      *)
(***************************************************************************)
EXTENDS RtKernel, FiniteSets

CONSTANTS RecvList, SendList,   \* parent.suspend_thread, suspend_sender_thread
          Size,                 \* mb->size
          Mails, NoMail,
          Ops                   \* the calls the application makes

MailboxAssumption ==
    /\ Queues = {RecvList, SendList} /\ RecvList # SendList
    /\ Size \in Nat \ {0} /\ NoMail \notin Mails /\ IsFiniteSet(Threads)

VARIABLES mb,      \* the mailbox
          wait,    \* timeout of each thread's call, less the ticks gone by
          mail,    \* what a sender that waits has to send
          got      \* history: the mail that was received last

vars == <<k, call, mb, wait, mail, got>>

Init ==
    /\ KernelInit
    /\ mb = [pool |-> [i \in 0..(Size - 1) |-> NoMail], in_offset |-> 0, out_offset |-> 0,
             entry |-> 0, alive |-> TRUE]
    /\ wait = [t \in Threads |-> 0]
    /\ mail = [t \in Threads |-> NoMail]
    /\ got = NoMail

Empty == mb.entry = 0
Full == mb.entry = Size

(* the first of the list l is resumed, if there is one, and t schedules *)
WakeOne(t, l) ==
    IF k.waitq[l] = <<>> THEN k' = k /\ call' = [call EXCEPT ![t] = UserCode]
    ELSE k' = ipc_list_resume(k, l) /\ ThenSchedule(t, "none", "none")

(* t waits on list l for n ticks or forever *)
Wait(t, l, op, n) ==
    /\ LET s == ipc_list_suspend([k EXCEPT !.error[t] = "EINTR"], l, t)
       IN k' = IF n > 0 THEN rt_timer_start(s, t, n) ELSE s
    /\ wait' = [wait EXCEPT ![t] = n]
    /\ ThenSchedule(t, op, "mb")

Leave(t, e) ==
    /\ k' = [k EXCEPT !.error[t] = e]
    /\ call' = [call EXCEPT ![t] = UserCode]
    /\ UNCHANGED <<mb, wait, mail, got>>

(***************************************************************************)
(* rt_mb_send_wait                                                         *)
(***************************************************************************)
(* Mutant: nobody is woken if there was mail already. *)
PutWakesIfEmpty(t, v) ==
    /\ ~Full
    /\ mb' = [mb EXCEPT !.pool[mb.in_offset] = v,
                        !.in_offset = (@ + 1) % Size, !.entry = @ + 1]
    /\ mail' = [mail EXCEPT ![t] = NoMail]
    /\ IF Empty THEN WakeOne(t, RecvList) ELSE UNCHANGED k /\ call' = [call EXCEPT ![t] = UserCode]
    /\ UNCHANGED <<wait, got>>

Put(t, v) ==
    /\ ~Full
    /\ mb' = [mb EXCEPT !.pool[mb.in_offset] = v,
                        !.in_offset = (@ + 1) % Size, !.entry = @ + 1]
    /\ mail' = [mail EXCEPT ![t] = NoMail]
    /\ WakeOne(t, RecvList)
    /\ UNCHANGED <<wait, got>>

SendWaits(t, v, n) ==
    /\ Full /\ n # 0
    /\ Wait(t, SendList, "send", n)
    /\ mail' = [mail EXCEPT ![t] = v]
    /\ UNCHANGED <<mb, got>>

(* with a full mailbox and timeout 0 the call returns -RT_EFULL *)
MbSend(t, v, n) ==
    /\ Running(t) /\ mb.alive /\ (n = 0 \/ k.nest = 0)
    /\ Put(t, v) \/ SendWaits(t, v, n)

MbSendBack(t) ==
    /\ Returned(t, "send")
    /\ \/ k.error[t] # "EOK" /\ Leave(t, k.error[t])
       \/ k.error[t] = "EOK" /\ \/ Put(t, mail[t])
                                \/ SendWaits(t, mail[t], wait[t])
                                \/ Full /\ wait[t] = 0 /\ Leave(t, "EINTR")

MbUrgent(t, v) ==
    /\ "urgent" \in Ops /\ Running(t) /\ mb.alive /\ ~Full
    /\ LET at == IF mb.out_offset > 0 THEN mb.out_offset - 1 ELSE Size - 1
       IN mb' = [mb EXCEPT !.out_offset = at, !.pool[at] = v, !.entry = @ + 1]
    /\ WakeOne(t, RecvList)
    /\ UNCHANGED <<wait, mail, got>>

(***************************************************************************)
(* rt_mb_recv                                                              *)
(***************************************************************************)

Get(t) ==
    /\ ~Empty
    /\ got' = mb.pool[mb.out_offset]
    /\ mb' = [mb EXCEPT !.out_offset = (@ + 1) % Size, !.entry = @ - 1]
    /\ WakeOne(t, SendList)
    /\ UNCHANGED <<wait, mail>>

RecvWaits(t, n) ==
    /\ Empty /\ n # 0
    /\ Wait(t, RecvList, "recv", n)
    /\ UNCHANGED <<mb, mail, got>>

MbRecv(t, n) ==
    /\ Running(t) /\ mb.alive /\ (n = 0 \/ k.nest = 0)
    /\ Get(t) \/ RecvWaits(t, n)

(* Mutant: the woken receiver does not look again. *)
RecvBackTrusts(t) ==
    /\ Returned(t, "recv")
    /\ \/ k.error[t] # "EOK" /\ Leave(t, k.error[t])
       \/ /\ k.error[t] = "EOK"
          /\ got' = mb.pool[mb.out_offset]
          /\ mb' = [mb EXCEPT !.out_offset = (@ + 1) % Size,
                              !.entry = IF @ > 0 THEN @ - 1 ELSE 0]
          /\ WakeOne(t, SendList)
          /\ UNCHANGED <<wait, mail>>

(* Mutant: the second wait is as long as the first. *)
RecvBackFullTime(t) ==
    /\ Returned(t, "recv")
    /\ \/ k.error[t] # "EOK" /\ Leave(t, k.error[t])
       \/ k.error[t] = "EOK" /\ \/ Get(t)
                                \/ RecvWaits(t, CHOOSE n \in Timeouts : n > 0)

MbRecvBack(t) ==
    /\ Returned(t, "recv")
    /\ \/ k.error[t] # "EOK" /\ Leave(t, k.error[t])
       \/ k.error[t] = "EOK" /\ \/ Get(t)
                                \/ RecvWaits(t, wait[t])
                                \/ Empty /\ wait[t] = 0 /\ Leave(t, "ETIMEOUT")

(***************************************************************************)
(* RT_IPC_CMD_RESET; rt_mb_detach and rt_mb_delete, which do not schedule  *)
(***************************************************************************)
ResumeBoth == ipc_list_resume_all(ipc_list_resume_all(k, RecvList), SendList)

MbReset(t) ==
    /\ "reset" \in Ops /\ Running(t) /\ mb.alive
    /\ k' = ResumeBoth
    /\ mb' = [mb EXCEPT !.entry = 0, !.in_offset = 0, !.out_offset = 0]
    /\ ThenSchedule(t, "none", "none")
    /\ UNCHANGED <<wait, mail, got>>

MbDelete(t) ==
    /\ "delete" \in Ops /\ Running(t) /\ mb.alive
    /\ k' = ResumeBoth
    /\ mb' = [mb EXCEPT !.alive = FALSE]
    /\ UNCHANGED <<call, wait, mail, got>>

MbCalls(t) ==
    \/ \E v \in Mails : MbUrgent(t, v) \/ \E n \in Timeouts : MbSend(t, v, n)
    \/ \E n \in Timeouts : MbRecv(t, n)
    \/ MbSendBack(t) \/ MbRecvBack(t) \/ MbReset(t) \/ MbDelete(t)

(* a tick also brings the calls in progress nearer to their end *)
Tick ==
    /\ TickIncrease
    /\ wait' = [t \in Threads |-> IF wait[t] > 0 THEN wait[t] - 1 ELSE wait[t]]
    /\ UNCHANGED <<mb, mail, got>>

KernelSteps ==
    /\ \/ TimerCheck \/ IdleLoop
       \/ \E t \in Threads : \/ Schedule(t) \/ ThreadYield(t)
                              \/ \E u \in Threads : ThreadStartup(t, u)
    /\ UNCHANGED <<mb, wait, mail, got>>

Next == Tick \/ KernelSteps \/ \E t \in Threads : MbCalls(t)

Spec == Init /\ [][Next]_vars

(* The clock goes on ticking, and between its interrupts the processor     *)
(* gets on with the kernel code of the current thread.                     *)
FairSpec ==
    /\ Spec
    /\ WF_vars(Tick) /\ WF_vars(TimerCheck /\ UNCHANGED <<mb, wait, mail, got>>)
    /\ \A t \in Threads :
          /\ SF_vars(Schedule(t) /\ UNCHANGED <<mb, wait, mail, got>>)
          /\ SF_vars(MbSendBack(t)) /\ SF_vars(MbRecvBack(t))
----------------------------------------------------------------------------
(* The offsets stay within the pool and entry within its size.             *)
TypeOK ==
    /\ KernelTypeOK
    /\ mb.pool \in [0..(Size - 1) -> Mails \cup {NoMail}]
    /\ mb.in_offset \in 0..(Size - 1) /\ mb.out_offset \in 0..(Size - 1)
    /\ mb.entry \in 0..Size /\ mb.alive \in BOOLEAN
    /\ wait \in [Threads -> Timeouts \cup Nat]
    /\ mail \in [Threads -> Mails \cup {NoMail}] /\ got \in Mails \cup {NoMail}

(* woken by _ipc_list_resume and about to look again *)
Woken(op) == {t \in Threads : call[t].op = op /\ k.stat[t] # "suspend" /\ k.error[t] = "EOK"}

(* No wakeup is lost.  If receivers wait, every mail in the box has a      *)
(* woken receiver on its way to it; if senders wait, every free place has  *)
(* a woken sender.                                                         *)
NoLostWakeup ==
    /\ k.waitq[RecvList] # <<>> => mb.entry <= Cardinality(Woken("recv"))
    /\ k.waitq[SendList] # <<>> => Size - mb.entry <= Cardinality(Woken("send"))

(* A call with a timeout comes to an end, however often its thread is      *)
(* woken and finds that another was faster.                                *)
TimedCallEnds ==
    \A t \in Threads : (call[t].op \in {"send", "recv"} /\ wait[t] # Forever) ~> call[t].op = "none"

(* The mailbox is a bounded FIFO queue with urgent mail: nothing is lost,  *)
(* doubled or overtaken, whatever threads come between the wakeup of a     *)
(* thread and its second look.                                             *)
Fifo == INSTANCE MsgFifo WITH
    Urgents <- "urgent" \in Ops, Messages <- Mails, NoMessage <- NoMail,
    q <- [i \in 1..mb.entry |-> mb.pool[(mb.out_offset + i - 1) % Size]]

(* The mailbox of ipc.c implements the bounded FIFO. *)
ImplementsFifo == Fifo!Spec
=============================================================================
