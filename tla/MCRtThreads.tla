---------------------------- MODULE MCRtThreads ----------------------------
(***************************************************************************)
(* Three threads of equal priority beside the idle thread: taking turns on *)
(* the port, and resuming each other on a port with a clock.               *)
(***************************************************************************)
EXTENDS RtThreads, TLC

CONSTANTS ta, tb, tc

EqualThree == (ta :> 0) @@ (tb :> 0) @@ (tc :> 0) @@ (IdleThread :> 1)

NoFlag == [q \in {} |-> "FIFO"]
=============================================================================
