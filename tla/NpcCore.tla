------------------------------ MODULE NpcCore ------------------------------
(***************************************************************************)
(* The whole core, core/rtl/npc_core.v: the pipeline on the memory side.   *)
(* CoreClock is one clock edge of everything.  The order of the LETs is    *)
(* the order in which a cycle's wires settle: the instruction in MEM drives *)
(* the data request, its answer decides whether the pipeline may fetch,    *)
(* and that decides what the cache is asked for.                           *)
(***************************************************************************)
EXTENDS NpcPipeline, MemSide

CONSTANT Images     \* programs: the initial contents of memory

ASSUME CoreAssumption ==
    /\ Images \subseteq [RamWords -> Word]
    /\ Encoding \in [DOMAIN Encoding -> [op : InstType, rd : 0..31, rs1 : 0..31, rs2 : 0..31,
                                         imm : Word, csr : CsrNames \cup {"none"}]]
    /\ DOMAIN Encoding \subseteq Word
    /\ GprCount \in Nat \ {0}

coreVars == <<pipeVars, icVars, axiVars, axiMemVars>>

CoreInit(image) == /\ PipelineInit
                   /\ IcacheInit
                   /\ AxiInit
                   /\ AxiMemInit(image)

(* The answers to the data request of this cycle. *)
CoreLoadResp  == LoadResp(DataReq, RData(DataReq))
CoreStoreResp == StoreResp(DataReq, BChannel(WChannel(DataReq)))

CoreClock ==
    LET ld == CoreLoadResp
        st == CoreStoreResp
        lv == ReqFetchValid(ld, st)
        la == ReqFetchAddr
    IN /\ PipelineClock(IcacheResp(lv, la), ld, st)
       /\ FetchPathClock(FenceICommit, lv, la, DataReq)

(* The simulation clock never stops. *)
CoreSpec == /\ \E image \in Images : CoreInit(image)
            /\ [][CoreClock]_coreVars
            /\ WF_coreVars(CoreClock)

----------------------------------------------------------------------------
(* The core stops at ebreak (wb_will_halt): once halted is set nothing is  *)
(* in flight any more, also when a fetch was still on its way.             *)
HaltIsFinal ==
    halted => ~if_id.valid /\ ~id_ex.valid /\ ~ex_mem.valid /\ ~mem_wb.valid

(* A load that must wait in MEM for a line fill finds EX empty.  While     *)
(* mem_access_wait holds MEM, EX may redirect and is squashed without      *)
(* moving on, so a jump behind the load would be lost.                     *)
WaitMeansExEmpty == MemAccessWait(CoreLoadResp, CoreStoreResp) => ~id_ex.valid

(* CSRs are read in ID and written in WB with csr_stall between them: the  *)
(* old value an instruction carries through EX is the one in the file,     *)
(* whoever wrote it last, a CSR instruction or an exception.               *)
CsrReadCurrent ==
    id_ex.valid /\ IsCsr(id_ex.d) => id_ex.csr_data = CsrReadData(csr, id_ex.d.csr)

(* The pc of the oldest instruction that has not reached WB: of one in     *)
(* flight, or of the next fetch.                                           *)
NextFetch == IF fetch_pending THEN fetch_pc ELSE pc
NextToRetire == CASE ex_mem.valid -> ex_mem.pc
                  [] ~ex_mem.valid /\ id_ex.valid -> id_ex.pc
                  [] ~ex_mem.valid /\ ~id_ex.valid /\ if_id.valid -> if_id.pc
                  [] OTHER -> NextFetch

(* The instructions that retire are one path: each is at the next pc of    *)
(* the one before, and what no longer belongs to the path never retires.   *)
RetiresInOrder ==
    [][~halted' => IF mem_wb'.valid
                   THEN mem_wb'.pc = NextToRetire /\ NextToRetire' = mem_wb'.next_pc
                   ELSE NextToRetire' = NextToRetire]_coreVars

(* A sequential machine with registers regs, CSR file `file' and memory m  *)
(* executes instruction i as the core retires it, leaving memory m2.       *)
RetiresAs(i, regs, file, m, m2) ==
    LET v1   == regs[Rs1(i.d)]
        v2   == regs[Rs2(i.d)]
        a    == AluResult(i.d, i.pc, v1, v2)
        s    == MemSize(i.d)
        f    == [pc |-> i.pc, d |-> i.d, fetch_fault |-> FALSE, fetch_misaligned |-> FALSE]
        ram  == ~InClint(a)
        data == ExtractNarrow(a, s, StoreWdataShifted(a, s, v2))
    IN /\ i.d = InstOf(i.inst)
       /\ m2 = IF MemWrite(i.d) /\ ram /\ ~i.exception THEN MemStore(m, a, s, data) ELSE m
       /\ i.exception =>
            /\ i.next_pc = file["mtvec"]
            /\ \/ i.cause \in TrapCauses(f, v1, v2) \cup {CauseInstFault, CauseInstMisaligned}
               \/ i.cause = CauseLoadMisaligned /\ MemRead(i.d) /\ ~Aligned(a, s)
               \/ i.cause = CauseLoadFault /\ MemRead(i.d) /\ ram /\ MemLoad(m, a, s).result # "OK"
               \/ i.cause = CauseStoreMisaligned /\ MemWrite(i.d) /\ ~Aligned(a, s)
               \/ i.cause = CauseStoreFault /\ MemWrite(i.d) /\ ram /\ MemStoreResult(a, s) # "OK"
       /\ ~i.exception =>
            /\ TrapCauses(f, v1, v2) = {}
            /\ MemRead(i.d) \/ MemWrite(i.d) => Aligned(a, s)
            /\ MemRead(i.d) /\ ram  => MemLoad(m, a, s).result = "OK"
            /\ MemWrite(i.d) /\ ram => MemStoreResult(a, s) = "OK"
            /\ i.next_pc = NextPcOf(f, FALSE, v1, v2, file)
            /\ RegWrite(i.d) /\ ~IsCsr(i.d) /\ ~(MemRead(i.d) /\ ~ram) =>
                 i.rd_value = CASE MemRead(i.d) -> LoadFormat(i.d, MemLoad(m, a, s).data)
                                [] IsJump(i.d)  -> Plus(i.pc, 4)
                                [] OTHER        -> a

(* Every instruction that retires has been executed on the registers, the  *)
(* CSRs and the memory that all older ones leave, and memory changes with  *)
(* the stores that retire only: forwarding, stalls, squashed paths, traps  *)
(* and the early store in MEM cannot be told from sequential execution.    *)
RetiresSequentially ==
    [][IF mem_wb'.valid THEN RetiresAs(mem_wb', x', csr', mem, mem') ELSE mem' = mem]_coreVars

(* An instruction access fault entering ID is the fault of its own line,   *)
(* never that of a fill for a path abandoned since.                        *)
FaultBelongsToPc ==
    if_id.valid /\ if_id.fetch_fault =>
        \E w \in 0..3 : LineBase(if_id.pc) + 4 * w \notin RamWords

(* A word stored to mtime or mtimeh is in the timer when the store leaves  *)
(* MEM; the low half may have advanced by one tick.                        *)
ClintStoreKept ==
    [][CtrlMemWrite /\ ClintAccess =>
         LET offset == ex_mem.alu_result - ClintBase
             v      == ex_mem.rs2_data
         IN /\ offset = MtimeOffset  => mtime' % WordMod \in {v, Plus(v, 1)}
            /\ offset = MtimehOffset => mtime' \div WordMod = v]_coreVars

(* No stall, fill, redirect or flush leaves the core waiting for ever: a   *)
(* program that reaches ebreak halts the core.                             *)
ProgramHalts == <>halted
=============================================================================
