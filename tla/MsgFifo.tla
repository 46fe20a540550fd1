------------------------------ MODULE MsgFifo ------------------------------
(***************************************************************************)
(* What a mailbox and a message queue of ipc.c promise, without a          *)
(* scheduler, suspend lists or memory: messages are received in the order  *)
(* they were sent, each once, urgent ones first, and there are never more  *)
(* than the object has room for.                                           *)
(***************************************************************************)
EXTENDS Integers, Sequences

CONSTANTS Messages, NoMessage, Size,
          Urgents       \* whether urgent messages are sent at all

VARIABLES q,     \* what was sent and not received yet
          got    \* the message that was received last

vars == <<q, got>>

Init == q = <<>> /\ got = NoMessage

Send(v) == Len(q) < Size /\ q' = Append(q, v) /\ UNCHANGED got

Urgent(v) == Urgents /\ Len(q) < Size /\ q' = <<v>> \o q /\ UNCHANGED got

Recv == q # <<>> /\ q' = Tail(q) /\ got' = Head(q)

Reset == q' = <<>> /\ UNCHANGED got

Next ==
    \/ Recv \/ Reset
    \/ \E v \in Messages : Send(v) \/ Urgent(v)

Spec == Init /\ [][Next]_vars
=============================================================================
