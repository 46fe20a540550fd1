-------------------------- MODULE RtMessageQueue --------------------------
(***************************************************************************)
(* A message queue of ipc.c on the kernel of RtKernel: blocks chained into *)
(* a free list and into the queue, a list of waiting receivers and one of  *)
(* waiting senders.  Interrupts are enabled while a message is copied, so  *)
(* a thread can be preempted with a block in its hands that is on neither  *)
(* chain: the call is cut there.                                           *)
(***************************************************************************)
EXTENDS RtKernel, FiniteSets

CONSTANTS RecvList, SendList,   \* parent.suspend_thread, suspend_sender_thread
          Blocks, Null,         \* the message pool
          Msgs, NoMsg,
          Ops

QueueAssumption ==
    /\ Queues = {RecvList, SendList} /\ RecvList # SendList
    /\ Blocks # {} /\ IsFiniteSet(Blocks) /\ Null \notin Blocks /\ NoMsg \notin Msgs

VARIABLES mq,       \* msg_queue_head, _tail, _free, the next of each block, entry
          buf,      \* what is in each block; of no interest on the free list
          wait,     \* timeout of each thread's call, less the ticks gone by
          hold,     \* the block in the hands of each thread
          msg,      \* the message of a sender; history: what a receiver dequeued
          got       \* history: the message that was dequeued last

vars == <<k, call, mq, buf, wait, hold, msg, got>>

Size == Cardinality(Blocks)

(* the blocks from b on, along next *)
Chain(b) ==
    LET at[i \in 1..(Size + 1)] ==
            IF i = 1 THEN b ELSE IF at[i - 1] = Null THEN Null ELSE mq.next[at[i - 1]]
    IN SelectSeq([i \in 1..(Size + 1) |-> at[i]], LAMBDA x : x # Null)

(* rt_mq_init: all blocks are chained into the free list, in some order *)
Init ==
    /\ KernelInit
    /\ mq \in [head : {Null}, tail : {Null}, free : Blocks,
               next : [Blocks -> Blocks \cup {Null}], entry : {0}, alive : {TRUE}]
    /\ Elems(Chain(mq.free)) = Blocks /\ Len(Chain(mq.free)) = Size
    /\ buf = [b \in Blocks |-> NoMsg]
    /\ wait = [t \in Threads |-> 0]
    /\ hold = [t \in Threads |-> Null]
    /\ msg = [t \in Threads |-> NoMsg]
    /\ got = NoMsg

(* the first of the list l is resumed, if there is one, and t schedules *)
WakeOne(t, l) ==
    IF k.waitq[l] = <<>> THEN k' = k /\ call' = [call EXCEPT ![t] = UserCode]
    ELSE k' = ipc_list_resume(k, l) /\ ThenSchedule(t, "none", "none")

(* t waits on list l for n ticks or forever *)
Wait(t, l, op, n) ==
    /\ LET s == ipc_list_suspend([k EXCEPT !.error[t] = "EINTR"], l, t)
       IN k' = IF n > 0 THEN rt_timer_start(s, t, n) ELSE s
    /\ wait' = [wait EXCEPT ![t] = n]
    /\ ThenSchedule(t, op, "mq")

Leave(t, e) ==
    /\ k' = [k EXCEPT !.error[t] = e]
    /\ call' = [call EXCEPT ![t] = UserCode]
    /\ msg' = [msg EXCEPT ![t] = NoMsg]
    /\ UNCHANGED <<mq, buf, wait, hold, got>>

(* t goes on to copy a message, with interrupts enabled *)
Copying(t, op) == call' = [call EXCEPT ![t] = [pc |-> "back", op |-> op, obj |-> "mq"]]

(***************************************************************************)
(* rt_mq_send_wait and rt_mq_urgent: a free block is taken, filled, and    *)
(* linked to the end or to the front of the queue.                         *)
(***************************************************************************)

TakeFree(t, v, op) ==
    /\ mq.free # Null
    /\ mq' = [mq EXCEPT !.free = mq.next[mq.free], !.next[mq.free] = Null]
    /\ hold' = [hold EXCEPT ![t] = mq.free]
    /\ msg' = [msg EXCEPT ![t] = v]
    /\ Copying(t, op)
    /\ UNCHANGED <<k, buf, wait, got>>

SendWaits(t, v, n) ==
    /\ mq.free = Null /\ n # 0
    /\ Wait(t, SendList, "send", n)
    /\ msg' = [msg EXCEPT ![t] = v]
    /\ UNCHANGED <<mq, buf, hold, got>>

(* with no free block and timeout 0 the call returns -RT_EFULL *)
MqSend(t, v, n) ==
    /\ Running(t) /\ mq.alive /\ (n = 0 \/ k.nest = 0)
    /\ TakeFree(t, v, "link") \/ SendWaits(t, v, n)

MqUrgent(t, v) == "urgent" \in Ops /\ Running(t) /\ mq.alive /\ TakeFree(t, v, "front")

MqSendBack(t) ==
    /\ Returned(t, "send")
    /\ \/ k.error[t] # "EOK" /\ Leave(t, k.error[t])
       \/ k.error[t] = "EOK" /\ \/ TakeFree(t, msg[t], "link")
                                \/ SendWaits(t, msg[t], wait[t])
                                \/ mq.free = Null /\ wait[t] = 0 /\ Leave(t, "EINTR")

(* the rest of a send, once the message is copied into block b *)
Linked(t, b) ==
    /\ buf' = [buf EXCEPT ![b] = msg[t]]
    /\ hold' = [hold EXCEPT ![t] = Null]
    /\ msg' = [msg EXCEPT ![t] = NoMsg]
    /\ WakeOne(t, RecvList)
    /\ UNCHANGED <<wait, got>>

MqLink(t) ==
    /\ Returned(t, "link")
    /\ LET b == hold[t]
       IN /\ mq' = [mq EXCEPT !.next = IF mq.tail = Null THEN @ ELSE [@ EXCEPT ![mq.tail] = b],
                              !.tail = b,
                              !.head = IF @ = Null THEN b ELSE @,
                              !.entry = @ + 1]
          /\ Linked(t, b)

MqLinkFront(t) ==
    /\ Returned(t, "front")
    /\ LET b == hold[t]
       IN /\ mq' = [mq EXCEPT !.next[b] = mq.head, !.head = b,
                              !.tail = IF @ = Null THEN b ELSE @,
                              !.entry = @ + 1]
          /\ Linked(t, b)

(***************************************************************************)
(* rt_mq_recv: the first block is taken out of the queue, copied, and put  *)
(* on the free list.                                                       *)
(***************************************************************************)
(* Mutant: the block is on the free list again before it is copied. *)
DequeueFreesEarly(t) ==
    /\ mq.entry > 0
    /\ LET b == mq.head
       IN /\ mq' = [mq EXCEPT !.head = mq.next[b], !.tail = IF @ = b THEN Null ELSE @,
                              !.next[b] = mq.free, !.free = b,
                              !.entry = @ - 1]
          /\ hold' = [hold EXCEPT ![t] = b]
          /\ msg' = [msg EXCEPT ![t] = buf[b]]
          /\ got' = buf[b]
    /\ Copying(t, "free")
    /\ UNCHANGED <<k, buf, wait>>

Dequeue(t) ==
    /\ mq.entry > 0
    /\ LET b == mq.head
       IN /\ mq' = [mq EXCEPT !.head = mq.next[b],
                              !.tail = IF @ = b THEN Null ELSE @,
                              !.entry = @ - 1]
          /\ hold' = [hold EXCEPT ![t] = b]
          /\ msg' = [msg EXCEPT ![t] = buf[b]]
          /\ got' = buf[b]
    /\ Copying(t, "free")
    /\ UNCHANGED <<k, buf, wait>>

RecvWaits(t, n) ==
    /\ mq.entry = 0 /\ n # 0
    /\ Wait(t, RecvList, "recv", n)
    /\ UNCHANGED <<mq, buf, hold, msg, got>>

MqRecv(t, n) ==
    /\ Running(t) /\ mq.alive /\ (n = 0 \/ k.nest = 0)
    /\ Dequeue(t) \/ RecvWaits(t, n)

MqRecvBack(t) ==
    /\ Returned(t, "recv")
    /\ \/ k.error[t] # "EOK" /\ Leave(t, k.error[t])
       \/ k.error[t] = "EOK" /\ \/ Dequeue(t)
                                \/ RecvWaits(t, wait[t])
                                \/ mq.entry = 0 /\ wait[t] = 0 /\ Leave(t, "ETIMEOUT")

MqFree(t) ==
    /\ Returned(t, "free")
    /\ mq' = [mq EXCEPT !.next[hold[t]] = mq.free, !.free = hold[t]]
    /\ hold' = [hold EXCEPT ![t] = Null]
    /\ msg' = [msg EXCEPT ![t] = NoMsg]
    /\ buf' = [buf EXCEPT ![hold[t]] = NoMsg]
    /\ WakeOne(t, SendList)
    /\ UNCHANGED <<wait, got>>

(***************************************************************************)
(* RT_IPC_CMD_RESET; rt_mq_detach and rt_mq_delete, which do not schedule  *)
(***************************************************************************)
ResumeBoth == ipc_list_resume_all(ipc_list_resume_all(k, RecvList), SendList)

(* the queue is put on the free list block by block *)
Emptied ==
    LET s == Chain(mq.head)
        upto[i \in 0..Len(s)] ==
            IF i = 0 THEN mq
            ELSE [upto[i - 1] EXCEPT !.next[s[i]] = upto[i - 1].free, !.free = s[i]]
    IN [upto[Len(s)] EXCEPT !.head = Null, !.tail = Null, !.entry = 0]

MqReset(t) ==
    /\ "reset" \in Ops /\ Running(t) /\ mq.alive
    /\ k' = ResumeBoth
    /\ mq' = Emptied
    /\ buf' = [x \in Blocks |-> IF x \in Elems(Chain(mq.head)) THEN NoMsg ELSE buf[x]]
    /\ ThenSchedule(t, "none", "none")
    /\ UNCHANGED <<wait, hold, msg, got>>

MqDelete(t) ==
    /\ "delete" \in Ops /\ Running(t) /\ mq.alive
    /\ k' = ResumeBoth
    /\ mq' = [mq EXCEPT !.alive = FALSE]
    /\ UNCHANGED <<call, buf, wait, hold, msg, got>>

MqCalls(t) ==
    \/ \E v \in Msgs : MqUrgent(t, v) \/ \E n \in Timeouts : MqSend(t, v, n)
    \/ \E n \in Timeouts : MqRecv(t, n)
    \/ MqSendBack(t) \/ MqLink(t) \/ MqLinkFront(t)
    \/ MqRecvBack(t) \/ MqFree(t) \/ MqReset(t) \/ MqDelete(t)

(* a tick also brings the calls in progress nearer to their end *)
Tick ==
    /\ TickIncrease
    /\ wait' = [t \in Threads |-> IF wait[t] > 0 THEN wait[t] - 1 ELSE wait[t]]
    /\ UNCHANGED <<mq, buf, hold, msg, got>>

KernelSteps ==
    /\ \/ TimerCheck \/ IdleLoop
       \/ \E t \in Threads : \/ Schedule(t) \/ ThreadYield(t)
                              \/ \E u \in Threads : ThreadStartup(t, u)
    /\ UNCHANGED <<mq, buf, wait, hold, msg, got>>

Next == Tick \/ KernelSteps \/ \E t \in Threads : MqCalls(t)

Spec == Init /\ [][Next]_vars
----------------------------------------------------------------------------
Queued == Chain(mq.head)

(* No block is lost or used twice: each is on the free list, in the queue  *)
(* or in the hands of one thread, and entry, head and tail describe the    *)
(* same queue, even if a reset comes while blocks are in hands.            *)
BlocksAccounted ==
    LET held == {hold[t] : t \in Threads} \ {Null}
        holders == {t \in Threads : hold[t] # Null}
    IN /\ Len(Queued) + Len(Chain(mq.free)) + Cardinality(holders) = Size
       /\ Elems(Queued) \cup Elems(Chain(mq.free)) \cup held = Blocks
       /\ mq.entry = Len(Queued)
       /\ mq.tail = IF mq.entry = 0 THEN Null ELSE Queued[mq.entry]

(* A receiver copies the message it took out of the queue, however long it *)
(* is preempted before the copy.                                           *)
CopyIntact == \A t \in Threads : call[t].op = "free" => buf[hold[t]] = msg[t]

(* woken by _ipc_list_resume and about to look again *)
Woken(op) == {t \in Threads : call[t].op = op /\ k.stat[t] # "suspend" /\ k.error[t] = "EOK"}

(* No wakeup is lost: if receivers wait, every message in the queue has a  *)
(* woken receiver on its way; if senders wait, every free block has a      *)
(* woken sender, and a block in a receiver's hands will bring another.     *)
NoLostWakeup ==
    /\ k.waitq[RecvList] # <<>> => mq.entry <= Cardinality(Woken("recv"))
    /\ k.waitq[SendList] # <<>> => Len(Chain(mq.free)) <= Cardinality(Woken("send"))

(* The queue is a bounded FIFO with urgent messages: what was linked is    *)
(* dequeued in order, each once, whatever comes between the parts of a     *)
(* send or a receive.                                                      *)
Fifo == INSTANCE MsgFifo WITH
    Urgents <- "urgent" \in Ops, Messages <- Msgs, NoMessage <- NoMsg,
    q <- [i \in 1..mq.entry |-> buf[Queued[i]]]

(* The message queue of ipc.c implements the bounded FIFO. *)
ImplementsFifo == Fifo!Spec
=============================================================================
