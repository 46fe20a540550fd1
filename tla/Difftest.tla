----------------------------- MODULE Difftest ------------------------------
(***************************************************************************)
(* The co-simulation of emulator/src/difftest.cpp: the reference simulator *)
(* (EmulatorISS) and the RTL (NpcCore behind RtlISS) run the same program  *)
(* and their commit events are compared one by one.                        *)
(*                                                                         *)
(* Difftest::step_inst is cut at its clock edges: RefStep is the step of   *)
(* the reference, DutCycle one iteration of the loop in RtlISS::step_inst, *)
(* the last of which also makes the comparison.                            *)
(***************************************************************************)
EXTENDS NpcCore, EmulatorISS

CONSTANT CommitTimeout     \* Config::commit_timeout_cycles

ASSUME DifftestAssumption == CommitTimeout \in Nat

VARIABLES phase,     \* "REF", "DUT" or "STOPPED" (stopped_)
          ref_ok,    \* what the reference returned
          ref_ev,    \* and the event it reported
          waited,    \* cycle_ - start_cycle
          failure    \* mismatch_: "none", or which comparison failed

diffVars == <<phase, ref_ok, ref_ev, waited, failure>>
vars == <<coreVars, iss, diffVars>>

NoEvent == Event(0, 0, 0, 0, 0, FALSE, 0)

Init == \E image \in Images :
            /\ CoreInit(image)
            /\ IssInit(image)
            /\ phase = "REF" /\ failure = "none" /\ waited = 0
            /\ ref_ok = FALSE /\ ref_ev = NoEvent

(* Difftest::events_match, as the first field that differs. *)
EventsDiffer(a, b) ==
    CASE a.pc # b.pc -> "pc"
      [] a.pc = b.pc /\ a.exception # b.exception -> "exception"
      [] OTHER ->
         CASE a.exception /\ a.cause # b.cause  -> "cause"
           [] ~a.exception /\ a.inst # b.inst   -> "inst"
           [] ~a.exception /\ a.inst = b.inst /\ a.rd # b.rd -> "rd"
           [] ~a.exception /\ a.inst = b.inst /\ a.rd = b.rd /\ a.rd # 0
                /\ a.rd_value # b.rd_value -> "rd_value"
           [] OTHER -> IF a.next_pc # b.next_pc THEN "next_pc" ELSE "none"

RefStep ==
    /\ phase = "REF"
    /\ phase' = "DUT"
    /\ waited' = 0
    /\ IF iss.halted
       THEN /\ ref_ok' = FALSE
            /\ UNCHANGED <<iss, ref_ev>>
       ELSE /\ ref_ok' = TRUE
            /\ ref_ev' = StepInst(iss).ev
            /\ iss' = StepInst(iss).state
    /\ UNCHANGED <<coreVars, failure>>

(* The end of a step: dut_ok tells whether the RTL committed, ev what. *)
Compare(dut_ok, ev) ==
    /\ failure' = CASE ref_ok /\ ~dut_ok  -> "dut halted unexpectedly"
                    [] ~ref_ok /\ dut_ok  -> "reference halted unexpectedly"
                    [] ref_ok /\ dut_ok   -> EventsDiffer(ref_ev, ev)
                    [] ~ref_ok /\ ~dut_ok -> "none"
    /\ phase' = IF failure' # "none" \/ ~dut_ok THEN "STOPPED" ELSE "REF"

DutCycle ==
    /\ phase = "DUT"
    /\ CoreClock
    /\ CASE mem_wb'.valid -> Compare(TRUE, CommitEvent(mem_wb')) /\ UNCHANGED waited
         [] ~mem_wb'.valid /\ waited + 1 > CommitTimeout -> Compare(FALSE, NoEvent) /\ UNCHANGED waited
         [] OTHER -> waited' = waited + 1 /\ UNCHANGED <<phase, failure>>
    /\ UNCHANGED <<iss, ref_ok, ref_ev>>

Next == RefStep \/ DutCycle

Spec == Init /\ [][Next]_vars

----------------------------------------------------------------------------
(* The pipeline retires exactly the instructions the reference executes,   *)
(* in order, with the same results, exceptions and next pc, and both stop  *)
(* together: forwarding, stalls, squashing and exceptions are invisible.   *)
NoMismatch == failure = "none"

(* What the comparison of commit events does not look at: after every      *)
(* instruction that matched, memory, all registers, all CSRs and the timer *)
(* of the two machines agree, counting the write-back of the instruction   *)
(* just committed.  No squashed instruction left a trace.                  *)
ArchStateAgrees ==
    phase = "REF" =>
        /\ mem = iss.mem
        /\ RegsAfterWb = iss.x
        /\ CsrAfterWb = iss.csr
        /\ mtime + Truth(mem_wb.valid) = iss.time

(* After fence.i the core runs the instructions memory holds: the two      *)
(* never commit different instruction words at the same pc.                *)
FetchedIsCurrent == failure # "inst"

(* The reference traps every instruction that names a register beyond      *)
(* GPR_COUNT, so Hart::read_reg never meets one.                           *)
ReservedTrapped == ref_ok /\ ~ref_ev.exception => ~Reserved(InstOf(ref_ev.inst))

(* mtime counts retired instructions in both machines, so that programs    *)
(* that read it can be compared: a load of it returns the same value.      *)
TimerReadAgrees == failure # "rd_value"

(* The pc of a commit event is the address of the instruction that retired *)
(* or trapped, for a fetch that faults too: the two report the same one.   *)
EventPcAgrees == failure # "pc"
=============================================================================
