---------------------------- MODULE NpcPipeline ----------------------------
(***************************************************************************)
(* The five-stage pipeline, core/rtl/npc_pipeline.v, with its register     *)
(* file, CSR file and CLINT.  One action is one clock edge: every wire of  *)
(* the module is an operator of the state before the edge and of the       *)
(* answers of the memory side in that cycle:                               *)
(*   fr   answer of the instruction cache (valid, inst, fault, misaligned) *)
(*   ld   answer to the load in MEM (ready, data, fault)                   *)
(*   st   answer to the store in MEM (ready, fault)                        *)
(* A stage register keeps its fields when only its valid bit is cleared,   *)
(* as in the code.  d is the decoded instruction.                          *)
(***************************************************************************)
EXTENDS NpcDatapath

VARIABLES pc, halted, fetch_pending, fetch_pc,   \* IF
          if_id, id_ex, ex_mem, mem_wb,          \* stage registers
          x,                                     \* npc_regfile
          csr,                                   \* npc_csr_file
          mtime                                  \* npc_clint

pipeVars == <<pc, halted, fetch_pending, fetch_pc, if_id, id_ex, ex_mem, mem_wb, x, csr, mtime>>

PipelineInit ==
    /\ pc = ResetVector /\ fetch_pc = ResetVector
    /\ halted = FALSE /\ fetch_pending = FALSE
    /\ if_id = [valid |-> FALSE, pc |-> 0, inst |-> 0, fetch_fault |-> FALSE,
                fetch_misaligned |-> FALSE]
    /\ id_ex = [valid |-> FALSE, pc |-> 0, inst |-> 0, d |-> Unknown, rs1_data |-> 0,
                rs2_data |-> 0, csr_data |-> 0, fetch_fault |-> FALSE,
                fetch_misaligned |-> FALSE]
    /\ ex_mem = [valid |-> FALSE, pc |-> 0, inst |-> 0, d |-> Unknown, alu_result |-> 0,
                 rs2_data |-> 0, csr_data |-> 0, csr_new_value |-> 0, csr_do_write |-> FALSE,
                 exception |-> FALSE, cause |-> 0, next_pc |-> 0]
    /\ mem_wb = [valid |-> FALSE, pc |-> 0, inst |-> 0, d |-> Unknown, rd_value |-> 0,
                 csr_new_value |-> 0, csr_do_write |-> FALSE, exception |-> FALSE,
                 cause |-> 0, next_pc |-> 0]
    /\ x = [r \in 0..(GprCount - 1) |-> 0]
    /\ csr = CsrReset
    /\ mtime = 0

----------------------------------------------------------------------------
(* WB: what the instruction in MEM/WB writes, and the commit port. *)

RegWen  == mem_wb.valid /\ RegWrite(mem_wb.d) /\ ~mem_wb.exception /\ Rd(mem_wb.d) # 0
CsrWen  == mem_wb.valid /\ IsCsr(mem_wb.d) /\ ~mem_wb.exception /\ mem_wb.csr_do_write
CsrExcEn == mem_wb.valid /\ mem_wb.exception

RegsAfterWb == IF RegWen THEN [x EXCEPT ![Rd(mem_wb.d)] = mem_wb.rd_value] ELSE x

(* Mutant: an exception leaves mcause alone. *)
CsrAfterWbNoCause ==
    IF CsrExcEn THEN [csr EXCEPT !["mepc"] = mem_wb.pc]
    ELSE IF CsrWen THEN CsrWrite(csr, mem_wb.d.csr, mem_wb.csr_new_value)
    ELSE csr

CsrAfterWb ==
    IF CsrExcEn THEN [csr EXCEPT !["mepc"] = mem_wb.pc, !["mcause"] = mem_wb.cause]
    ELSE IF CsrWen THEN CsrWrite(csr, mem_wb.d.csr, mem_wb.csr_new_value)
    ELSE csr

FenceICommit == mem_wb.valid /\ mem_wb.d.op = "FENCE_I" /\ ~mem_wb.exception

(* The commit port, as RtlISS::step_inst reads it after the edge. *)
CommitEvent(wb) ==
    LET wen == RegWrite(wb.d) /\ ~wb.exception /\ Rd(wb.d) # 0
    IN [pc |-> wb.pc, inst |-> wb.inst,
        rd |-> IF wen THEN Rd(wb.d) ELSE 0,
        rd_value |-> IF wen THEN wb.rd_value ELSE 0,
        next_pc |-> wb.next_pc, exception |-> wb.exception, cause |-> wb.cause]

----------------------------------------------------------------------------
(* MEM: the load/store unit and the CLINT. *)

ClintAccess == InClint(ex_mem.alu_result)
CtrlMemRead  == ex_mem.valid /\ MemRead(ex_mem.d) /\ ~ex_mem.exception
CtrlMemWrite == ex_mem.valid /\ MemWrite(ex_mem.d) /\ ~ex_mem.exception

(* The request on the AXI master; a misaligned one is issued as well. *)
DataReq == [load  |-> CtrlMemRead /\ ~ClintAccess,
            store |-> CtrlMemWrite /\ ~ClintAccess,
            addr  |-> ex_mem.alu_result,
            size  |-> MemSize(ex_mem.d),
            data  |-> ex_mem.rs2_data]

MemMisaligned == LsuMisaligned(ex_mem.d, ex_mem.alu_result)

(* npc_clint: mtime and mtimeh of the two halves, other registers zero. *)
ClintRdata ==
    LET offset == ex_mem.alu_result - ClintBase
    IN CASE offset = MtimeOffset  -> mtime % WordMod
         [] offset = MtimehOffset -> mtime \div WordMod
         [] OTHER -> 0

(* The timer, written or not, advances only in a cycle that commits. *)
ClintClock ==
    LET offset == ex_mem.alu_result - ClintBase
        write  == CtrlMemWrite /\ ClintAccess
        base   == CASE write /\ offset = MtimeOffset ->
                         mtime - (mtime % WordMod) + ex_mem.rs2_data
                    [] write /\ offset = MtimehOffset ->
                         (mtime % WordMod) + ex_mem.rs2_data * WordMod
                    [] OTHER -> mtime
    IN mtime' = IF mem_wb.valid THEN (base + 1) % (WordMod * WordMod) ELSE mtime

LoadFinalData(ld) == IF ClintAccess THEN ClintRdata ELSE LoadFormat(ex_mem.d, ld.data)

MemCauses(ld, st) ==
    CASE CtrlMemRead /\ MemMisaligned  -> {CauseLoadMisaligned}
      [] CtrlMemRead /\ ~MemMisaligned /\ ld.fault -> {CauseLoadFault}
      [] CtrlMemWrite /\ MemMisaligned -> {CauseStoreMisaligned}
      [] CtrlMemWrite /\ ~MemMisaligned /\ st.fault -> {CauseStoreFault}
      [] OTHER -> {}

MemNewException(ld, st) == MemCauses(ld, st) # {}
MemRedirect(ld, st) == MemNewException(ld, st)

(* Mutant: MEM waits for both answers whatever it asked for. *)
MemAccessWaitBoth(ld, st) ==
    /\ ~MemMisaligned /\ ~ClintAccess
    /\ CtrlMemRead \/ CtrlMemWrite
    /\ ~(ld.ready /\ st.ready)

MemAccessWait(ld, st) ==
    /\ (CtrlMemRead /\ ~ld.ready) \/ (CtrlMemWrite /\ ~st.ready)
    /\ ~MemMisaligned /\ ~ClintAccess

(* The value forwarded from MEM, which is not that of a load, and the one  *)
(* that goes on to WB.                                                     *)
ExForwardValue == CASE IsCsr(ex_mem.d)  -> ex_mem.csr_data
                    [] IsJump(ex_mem.d) -> Plus(ex_mem.pc, 4)
                    [] OTHER -> ex_mem.alu_result
MemStageRdValue(ld) == IF MemRead(ex_mem.d) THEN LoadFinalData(ld) ELSE ExForwardValue

----------------------------------------------------------------------------
(* EX *)

ExMemCanForward(r) == /\ ex_mem.valid /\ RegWrite(ex_mem.d) /\ ~MemRead(ex_mem.d)
                      /\ ~ex_mem.exception /\ Rd(ex_mem.d) # 0 /\ Rd(ex_mem.d) = r
MemWbCanForward(r) == /\ mem_wb.valid /\ RegWrite(mem_wb.d) /\ ~mem_wb.exception
                      /\ Rd(mem_wb.d) # 0 /\ Rd(mem_wb.d) = r

(* Mutant: of two results for one register the older is forwarded. *)
ForwardedOldest(r, value) == CASE MemWbCanForward(r) -> mem_wb.rd_value
                               [] ~MemWbCanForward(r) /\ ExMemCanForward(r) -> ExForwardValue
                               [] OTHER -> value

Forwarded(r, value) == CASE ExMemCanForward(r) -> ExForwardValue
                         [] ~ExMemCanForward(r) /\ MemWbCanForward(r) -> mem_wb.rd_value
                         [] OTHER -> value

ExRs1 == Forwarded(Rs1(id_ex.d), id_ex.rs1_data)
ExRs2 == Forwarded(Rs2(id_ex.d), id_ex.rs2_data)

ExBranchTaken == BranchTaken(id_ex.d, ExRs1, ExRs2)

(* The exception of an instruction whose operands are v1 and v2, in the    *)
(* priority of the code, and the pc it goes on at.                         *)
TrapCauses(i, v1, v2) ==
    CASE i.pc % 4 # 0       -> {CauseInstMisaligned}
      [] i.pc % 4 = 0 /\ i.fetch_fault -> {CauseInstFault}
      [] OTHER ->
         CASE i.fetch_misaligned -> {CauseInstMisaligned}
           [] ~i.fetch_misaligned
              /\ (\/ i.d.op = "UNKNOWN" \/ Reserved(i.d)
                  \/ IsCsr(i.d) /\ CsrReadFault(i.d.csr)) -> {CauseIllegal}
           [] OTHER ->
              CASE IsJump(i.d) /\ JumpTarget(i.d, i.pc, v1) % 4 # 0 -> {CauseInstMisaligned}
                [] BranchTaken(i.d, v1, v2) /\ BranchTarget(i.d, i.pc) % 4 # 0 ->
                     {CauseInstMisaligned}
                [] i.d.op = "ECALL"  -> {CauseEcallM}
                [] i.d.op = "EBREAK" -> {CauseBreakpoint}
                [] OTHER -> {}

NextPcOf(i, trap, v1, v2, file) ==
    CASE trap -> file["mtvec"]
      [] ~trap /\ i.d.op = "MRET" -> file["mepc"]
      [] ~trap /\ IsJump(i.d)     -> JumpTarget(i.d, i.pc, v1)
      [] ~trap /\ BranchTaken(i.d, v1, v2) -> BranchTarget(i.d, i.pc)
      [] OTHER -> Plus(i.pc, 4)

ExCauses    == TrapCauses(id_ex, ExRs1, ExRs2)
ExException == ExCauses # {}
ExNextPc    == NextPcOf(id_ex, ExException, ExRs1, ExRs2, csr)

ExRedirect == id_ex.valid /\ (ExException \/ id_ex.d.op = "MRET" \/ IsJump(id_ex.d) \/ ExBranchTaken)

TheCause(causes) == IF causes = {} THEN 0 ELSE CHOOSE c \in causes : TRUE

----------------------------------------------------------------------------
(* ID: hazards. *)

Dec == InstOf(if_id.inst)

WritesReg(stage, r) == stage.valid /\ RegWrite(stage.d) /\ Rd(stage.d) = r

(* Mutant: only the first source operand is compared. *)
LoadUseStallRs1 ==
    /\ if_id.valid /\ MemRead(id_ex.d)
    /\ HasRs1(Dec) /\ Rs1(Dec) # 0 /\ WritesReg(id_ex, Rs1(Dec))

LoadUseStall ==
    /\ if_id.valid /\ MemRead(id_ex.d)
    /\ \/ HasRs1(Dec) /\ Rs1(Dec) # 0 /\ WritesReg(id_ex, Rs1(Dec))
       \/ HasRs2(Dec) /\ Rs2(Dec) # 0 /\ WritesReg(id_ex, Rs2(Dec))

(* A store waits until its operands are in WB. *)
StoreDataStall ==
    /\ if_id.valid /\ MemWrite(Dec)
    /\ \E r \in {Rs1(Dec), Rs2(Dec)} \ {0} : WritesReg(id_ex, r) \/ WritesReg(ex_mem, r)

(* A load waits until no store is ahead of it. *)
StoreBusy == \/ id_ex.valid /\ MemWrite(id_ex.d)
             \/ ex_mem.valid /\ MemWrite(ex_mem.d)
             \/ mem_wb.valid /\ MemWrite(mem_wb.d)
StoreLoadStall == if_id.valid /\ MemRead(Dec) /\ StoreBusy

(* Mutant: the CSR instruction in WB is forgotten. *)
CsrBusyNoWb == (id_ex.valid /\ IsCsr(id_ex.d)) \/ (ex_mem.valid /\ IsCsr(ex_mem.d))

(* Everything waits until no CSR instruction is ahead of it. *)
CsrBusy == \/ id_ex.valid /\ IsCsr(id_ex.d)
           \/ ex_mem.valid /\ IsCsr(ex_mem.d)
           \/ mem_wb.valid /\ IsCsr(mem_wb.d)
CsrStall == if_id.valid /\ CsrBusy

IdStall(ld, st) == MemAccessWait(ld, st) \/ LoadUseStall \/ StoreDataStall
                     \/ StoreLoadStall \/ CsrStall

(* Register read with the bypass of the value being written back. *)
DecReg(r) == IF r = 0 THEN 0 ELSE RegsAfterWb[r]

----------------------------------------------------------------------------
(* IF *)

WbWillHalt == mem_wb.valid /\ mem_wb.exception /\ mem_wb.d.op = "EBREAK"
HaltPending == \/ id_ex.valid /\ id_ex.d.op = "EBREAK"
               \/ ex_mem.valid /\ ex_mem.d.op = "EBREAK"
               \/ mem_wb.valid /\ mem_wb.d.op = "EBREAK"

IfIdAccept(ld, st) ==
    ~if_id.valid \/ (~IdStall(ld, st) /\ ~ExRedirect /\ ~MemRedirect(ld, st))
(* Mutant: halted does not stop fetching. *)
FetchCanStartHalted(ld, st) ==
    /\ ~HaltPending /\ ~WbWillHalt /\ ~MemAccessWait(ld, st)
    /\ ~fetch_pending /\ IfIdAccept(ld, st) /\ ~ExRedirect /\ ~MemRedirect(ld, st)

FetchCanStart(ld, st) ==
    /\ ~halted /\ ~HaltPending /\ ~WbWillHalt /\ ~MemAccessWait(ld, st)
    /\ ~fetch_pending /\ IfIdAccept(ld, st) /\ ~ExRedirect /\ ~MemRedirect(ld, st)

(* Mutant: a pending fetch is not asked for again. *)
ReqFetchValidOnce(ld, st) == FetchCanStart(ld, st)

ReqFetchValid(ld, st) ==
    (fetch_pending /\ ~HaltPending /\ ~WbWillHalt) \/ FetchCanStart(ld, st)
ReqFetchAddr == IF fetch_pending THEN fetch_pc ELSE pc

(* An answer of the cache is taken whenever ID can take it. *)
FetchCapture(fr, ld, st) ==
    fr.valid /\ IfIdAccept(ld, st) /\ ~ExRedirect /\ ~WbWillHalt

----------------------------------------------------------------------------
(* The clock edge.  FrontClock updates IF, IF/ID and ID/EX; BackClock      *)
(* updates EX/MEM and MEM/WB.                                              *)

Squash(stage) == [stage EXCEPT !.valid = FALSE]

FrontHalt ==
    /\ WbWillHalt
    /\ halted' = TRUE
    /\ fetch_pending' = FALSE
    /\ if_id' = Squash(if_id)
    /\ id_ex' = Squash(id_ex)
    /\ UNCHANGED <<pc, fetch_pc>>

(* Mutant: the instruction behind a faulting access is not squashed. *)
FrontMemRedirectKeepEx(ld, st) ==
    /\ ~WbWillHalt /\ MemRedirect(ld, st)
    /\ pc' = csr["mtvec"]
    /\ fetch_pending' = FALSE
    /\ if_id' = Squash(if_id)
    /\ UNCHANGED <<halted, fetch_pc, id_ex>>

FrontMemRedirect(ld, st) ==
    /\ ~WbWillHalt /\ MemRedirect(ld, st)
    /\ pc' = csr["mtvec"]
    /\ fetch_pending' = FALSE
    /\ if_id' = Squash(if_id)
    /\ id_ex' = Squash(id_ex)
    /\ UNCHANGED <<halted, fetch_pc>>

(* Mutant: a redirect does not cancel the fetch that is pending. *)
FrontExRedirectKeepFetch(ld, st) ==
    /\ ~WbWillHalt /\ ~MemRedirect(ld, st) /\ ExRedirect
    /\ pc' = ExNextPc
    /\ if_id' = Squash(if_id)
    /\ id_ex' = Squash(id_ex)
    /\ UNCHANGED <<halted, fetch_pending, fetch_pc>>

FrontExRedirect(ld, st) ==
    /\ ~WbWillHalt /\ ~MemRedirect(ld, st) /\ ExRedirect
    /\ pc' = ExNextPc
    /\ fetch_pending' = FALSE
    /\ if_id' = Squash(if_id)
    /\ id_ex' = Squash(id_ex)
    /\ UNCHANGED <<halted, fetch_pc>>

FetchClock(fr, ld, st) ==
    IF FetchCapture(fr, ld, st)
    THEN /\ if_id' = [valid |-> TRUE, pc |-> ReqFetchAddr, inst |-> fr.inst,
                      fetch_fault |-> fr.fault, fetch_misaligned |-> fr.misaligned]
         /\ pc' = Plus(ReqFetchAddr, 4)
         /\ fetch_pending' = FALSE
         /\ fetch_pc' = IF FetchCanStart(ld, st) THEN pc ELSE fetch_pc
    ELSE /\ if_id' = IF ~IdStall(ld, st) THEN Squash(if_id) ELSE if_id
         /\ fetch_pending' = (fetch_pending \/ FetchCanStart(ld, st))
         /\ fetch_pc' = IF FetchCanStart(ld, st) THEN pc ELSE fetch_pc
         /\ UNCHANGED pc

DecodeClock(ld, st) ==
    id_ex' = IF MemAccessWait(ld, st) THEN id_ex
             ELSE IF IdStall(ld, st) THEN Squash(id_ex)
             ELSE [valid |-> if_id.valid, pc |-> if_id.pc, inst |-> if_id.inst, d |-> Dec,
                   rs1_data |-> DecReg(Rs1(Dec)), rs2_data |-> DecReg(Rs2(Dec)),
                   csr_data |-> CsrReadData(csr, Dec.csr),
                   fetch_fault |-> if_id.fetch_fault,
                   fetch_misaligned |-> if_id.fetch_misaligned]

FrontAdvance(fr, ld, st) ==
    /\ ~WbWillHalt /\ ~MemRedirect(ld, st) /\ ~ExRedirect
    /\ FetchClock(fr, ld, st)
    /\ DecodeClock(ld, st)
    /\ UNCHANGED halted

FrontClock(fr, ld, st) == \/ FrontHalt
                          \/ FrontMemRedirect(ld, st)
                          \/ FrontExRedirect(ld, st)
                          \/ FrontAdvance(fr, ld, st)

(* The contents of MEM/WB for the instruction that leaves MEM. *)
MemToWb(ld, st) ==
    LET new == MemNewException(ld, st)
    IN [valid |-> ex_mem.valid, pc |-> ex_mem.pc, inst |-> ex_mem.inst, d |-> ex_mem.d,
        rd_value |-> MemStageRdValue(ld), csr_new_value |-> ex_mem.csr_new_value,
        csr_do_write |-> ex_mem.csr_do_write,
        exception |-> ex_mem.exception \/ new,
        cause |-> IF new THEN TheCause(MemCauses(ld, st)) ELSE ex_mem.cause,
        next_pc |-> IF new THEN csr["mtvec"] ELSE ex_mem.next_pc]

ExToMem ==
    [valid |-> id_ex.valid, pc |-> id_ex.pc, inst |-> id_ex.inst, d |-> id_ex.d,
     alu_result |-> AluResult(id_ex.d, id_ex.pc, ExRs1, ExRs2), rs2_data |-> ExRs2,
     csr_data |-> id_ex.csr_data,
     csr_new_value |-> CsrNewValue(id_ex.d, ExRs1, id_ex.csr_data),
     csr_do_write |-> CsrDoWrite(id_ex.d),
     exception |-> ExException, cause |-> TheCause(ExCauses), next_pc |-> ExNextPc]

BackHalt == /\ WbWillHalt
            /\ ex_mem' = Squash(ex_mem)
            /\ mem_wb' = Squash(mem_wb)

BackMemRedirect(ld, st) == /\ ~WbWillHalt /\ MemRedirect(ld, st)
                           /\ ex_mem' = Squash(ex_mem)
                           /\ mem_wb' = MemToWb(ld, st)

BackWait(ld, st) == /\ ~WbWillHalt /\ ~MemRedirect(ld, st) /\ MemAccessWait(ld, st)
                    /\ mem_wb' = Squash(mem_wb)
                    /\ UNCHANGED ex_mem

BackAdvance(ld, st) == /\ ~WbWillHalt /\ ~MemRedirect(ld, st) /\ ~MemAccessWait(ld, st)
                       /\ ex_mem' = ExToMem
                       /\ mem_wb' = MemToWb(ld, st)

BackClock(ld, st) == \/ BackHalt
                     \/ BackMemRedirect(ld, st)
                     \/ BackWait(ld, st)
                     \/ BackAdvance(ld, st)

PipelineClock(fr, ld, st) ==
    /\ FrontClock(fr, ld, st)
    /\ BackClock(ld, st)
    /\ x' = RegsAfterWb
    /\ csr' = CsrAfterWb
    /\ ClintClock
=============================================================================
