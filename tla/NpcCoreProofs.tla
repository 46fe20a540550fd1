--------------------------- MODULE NpcCoreProofs ---------------------------
(***************************************************************************)
(* Proofs about NpcCore, for every program, instruction encoding, width of *)
(* the registers, number of registers and memory map: which instructions   *)
(* are in flight together, and what they read.                             *)
(***************************************************************************)
EXTENDS NpcCore, TLAPS

(* The stage registers can be squashed, and the register file has its      *)
(* registers; nothing is said of the values in them.                       *)
Shape == /\ "valid" \in DOMAIN if_id /\ "valid" \in DOMAIN id_ex
         /\ "valid" \in DOMAIN ex_mem /\ "valid" \in DOMAIN mem_wb
         /\ DOMAIN x = 0..(GprCount - 1) /\ DOMAIN csr = CsrNames

(* Cache and AXI master go through a line fill together. *)
LockStep == \/ axi_state = "IDLE" /\ ic_state \in {"IDLE", "REQ"}
            \/ axi_state = "IF_AR" /\ ic_state = "REQ"
            \/ axi_state = "IF_R" /\ ic_state = "DATA"

(* A fetch that waits has nothing before it in ID, a line fill on the bus  *)
(* nothing in ID and EX.                                                   *)
FrontEmpty == /\ fault_resp_valid => ic_state = "IDLE"
              /\ fetch_pending => ~if_id.valid
              /\ ic_state # "IDLE" => ~if_id.valid
              /\ axi_state # "IDLE" => ~id_ex.valid

(* Nothing is in flight behind an instruction that traps. *)
TrapsAlone == /\ ex_mem.valid /\ ex_mem.exception => ~if_id.valid /\ ~id_ex.valid
              /\ mem_wb.valid /\ mem_wb.exception => ~ex_mem.valid /\ ~id_ex.valid

(* Nothing is executed behind a CSR instruction that is not written back. *)
CsrAlone == /\ id_ex.valid => /\ ~(ex_mem.valid /\ IsCsr(ex_mem.d))
                              /\ ~(mem_wb.valid /\ IsCsr(mem_wb.d))
            /\ ex_mem.valid => ~(mem_wb.valid /\ IsCsr(mem_wb.d))

ControlInv == Shape /\ LockStep /\ FrontEmpty /\ TrapsAlone /\ CsrAlone

----------------------------------------------------------------------------
LEMMA SquashValid ==
    ASSUME NEW s, "valid" \in DOMAIN s
    PROVE  ~Squash(s).valid /\ "valid" \in DOMAIN Squash(s)
BY DEF Squash

(* Loads, stores and CSR instructions are different instructions. *)
LEMMA OpClasses ==
    ASSUME NEW d
    PROVE  /\ ~(MemRead(d) /\ MemWrite(d))
           /\ MemRead(d) => RegWrite(d) /\ ~IsCsr(d) /\ ~IsJump(d)
           /\ MemWrite(d) => ~RegWrite(d) /\ ~IsCsr(d) /\ ~IsJump(d)
           /\ ~(IsCsr(d) /\ IsJump(d))
BY DEF MemRead, MemWrite, RegWrite, HasRd, IsCsr, IsJump, OpImm, OpReg, Branches, Loads, Stores,
       CsrOps, CsrReg, CsrImm

(* While no line fill is on the bus, the memory side answers a data        *)
(* request in the cycle it is made.                                        *)
LEMMA AnsweredAtOnce ==
    ASSUME axi_state = "IDLE"
    PROVE  ~MemAccessWait(CoreLoadResp, CoreStoreResp)
<1> DEFINE req == DataReq
<1>1. /\ req.load <=> CtrlMemRead /\ ~ClintAccess
      /\ req.store <=> CtrlMemWrite /\ ~ClintAccess
  BY DEF DataReq
<1>2. ASSUME req.load
      PROVE  CoreLoadResp.ready
  <2>1. DataLoadActive(req) /\ ArChannel(req).valid /\ ArChannel(req).id = 1
    BY <1>2 DEF DataLoadActive, ArChannel
  <2>2. RData(req).valid /\ RData(req).id = 1
    BY <2>1 DEF RData, RChannel
  <2> QED
    BY <2>1, <2>2 DEF CoreLoadResp, LoadResp
<1>3. ASSUME req.store, ~req.load
      PROVE  CoreStoreResp.ready
  <2>1. DataStoreActive(req) /\ WChannel(req).valid
    BY <1>3 DEF DataStoreActive, WChannel
  <2>2. BChannel(WChannel(req)).valid /\ BChannel(WChannel(req)).id = 1
    BY <2>1 DEF BChannel
  <2> QED
    BY <2>1, <2>2 DEF CoreStoreResp, StoreResp
<1>4. ~(CtrlMemRead /\ CtrlMemWrite)
  BY OpClasses DEF CtrlMemRead, CtrlMemWrite
<1> QED
  BY <1>1, <1>2, <1>3, <1>4 DEF MemAccessWait

(* A load waits for a line fill only, and EX is empty during one. *)
LEMMA WaitEmpty ==
    ASSUME ControlInv
    PROVE  WaitMeansExEmpty
BY AnsweredAtOnce DEF ControlInv, FrontEmpty, WaitMeansExEmpty

(* The five ways the stage registers move at a clock edge.  The last case  *)
(* of the code, a redirect in EX while MEM waits, does not occur.          *)
LEMMA ClockCases ==
    ASSUME ControlInv, CoreClock,
           NEW ld, NEW st, NEW fr, ld = CoreLoadResp, st = CoreStoreResp,
           fr = IcacheResp(ReqFetchValid(ld, st), ReqFetchAddr)
    PROVE  \/ FrontHalt /\ BackHalt
           \/ FrontMemRedirect(ld, st) /\ BackMemRedirect(ld, st)
           \/ FrontExRedirect(ld, st) /\ BackAdvance(ld, st)
           \/ FrontAdvance(fr, ld, st) /\ BackWait(ld, st) /\ ~id_ex.valid
           \/ FrontAdvance(fr, ld, st) /\ BackAdvance(ld, st)
<1>1. MemAccessWait(ld, st) => ~id_ex.valid
  BY WaitEmpty DEF WaitMeansExEmpty
<1>2. FrontClock(fr, ld, st) /\ BackClock(ld, st)
  BY DEF CoreClock, PipelineClock
<1>3. FrontHalt => WbWillHalt
  BY DEF FrontHalt
<1>4. FrontMemRedirect(ld, st) => ~WbWillHalt /\ MemRedirect(ld, st)
  BY DEF FrontMemRedirect
<1>5. FrontExRedirect(ld, st) => ~WbWillHalt /\ ~MemRedirect(ld, st) /\ id_ex.valid
  BY DEF FrontExRedirect, ExRedirect
<1>6. FrontAdvance(fr, ld, st) => ~WbWillHalt /\ ~MemRedirect(ld, st)
  BY DEF FrontAdvance
<1>7. BackHalt => WbWillHalt
  BY DEF BackHalt
<1>8. BackMemRedirect(ld, st) => ~WbWillHalt /\ MemRedirect(ld, st)
  BY DEF BackMemRedirect
<1>9. BackWait(ld, st) => ~WbWillHalt /\ ~MemRedirect(ld, st) /\ MemAccessWait(ld, st)
  BY DEF BackWait
<1>10. BackAdvance(ld, st) => ~WbWillHalt /\ ~MemRedirect(ld, st)
  BY DEF BackAdvance
<1> QED
  BY <1>1, <1>2, <1>3, <1>4, <1>5, <1>6, <1>7, <1>8, <1>9, <1>10 DEF FrontClock, BackClock

(* What the memory side does at a clock edge: the fill advances in lock    *)
(* step, only a lookup that is not answered starts one, and only a missed  *)
(* line goes onto the bus.                                                 *)
LEMMA MemSideStep ==
    ASSUME ControlInv, CoreClock,
           NEW ld, NEW st, NEW fr, ld = CoreLoadResp, st = CoreStoreResp,
           fr = IcacheResp(ReqFetchValid(ld, st), ReqFetchAddr)
    PROVE  /\ LockStep'
           /\ fault_resp_valid' => ic_state' = "IDLE"
           /\ ic_state = "IDLE" /\ ic_state' # "IDLE" => ReqFetchValid(ld, st) /\ ~fr.valid
           /\ axi_state = "IDLE" /\ axi_state' # "IDLE" => ic_state = "REQ"
<1> DEFINE lv == ReqFetchValid(ld, st)
           la == ReqFetchAddr
           r == RData(DataReq)
<1>1. /\ IcacheClock(FenceICommit, lv, la, ReqFetchReady(ArReady), FillBeat(r))
      /\ AxiClock(DataReq, FillReqValid, FillReqAddr, ArReady, r)
  BY DEF CoreClock, FetchPathClock
<1>2. LockStep /\ (fault_resp_valid => ic_state = "IDLE")
  BY DEF ControlInv, FrontEmpty
<1>3. CASE ic_state = "IDLE"
  <2>1. IcacheIdle(FenceICommit, lv, la)
    BY <1>1, <1>3 DEF IcacheClock, IcacheReq, IcacheData
  <2>2. /\ fault_resp_valid' = FALSE
        /\ \/ ic_state' = "REQ" /\ lv /\ ~fault_resp_valid /\ Aligned(la, 4) /\ ~Hit(lv, la)
           \/ ic_state' = "IDLE"
    BY <2>1, <1>3 DEF IcacheIdle
  <2>3. axi_state = "IDLE" /\ axi_state' = "IDLE"
    BY <1>1, <1>2, <1>3 DEF LockStep, AxiClock, AxiIdle, AxiFetchAddr, AxiFetchData, StartFetch,
                           FillReqValid, axiVars
  <2>4. ic_state' # "IDLE" => ~fr.valid
    BY <2>2 DEF IcacheResp, RespMisaligned
  <2> QED
    BY <2>2, <2>3, <2>4 DEF LockStep
<1>4. CASE ic_state = "REQ"
  <2>1. IcacheReq(FenceICommit, ReqFetchReady(ArReady))
    BY <1>1, <1>4 DEF IcacheClock, IcacheIdle, IcacheData
  <2>2. /\ fault_resp_valid' = FALSE
        /\ ic_state' = IF axi_state = "IF_AR" THEN "DATA" ELSE "REQ"
    BY <2>1 DEF IcacheReq, ReqFetchReady, ArReady
  <2>3. \/ axi_state = "IDLE" /\ axi_state' \in {"IDLE", "IF_AR"}
        \/ axi_state = "IF_AR" /\ axi_state' = "IF_R"
    BY <1>1, <1>2, <1>4 DEF LockStep, AxiClock, AxiIdle, AxiFetchAddr, AxiFetchData, ArReady,
                           axiVars
  <2> QED
    BY <1>4, <2>2, <2>3 DEF LockStep
<1>5. CASE ic_state = "DATA"
  <2>1. IcacheData(FenceICommit, FillBeat(r))
    BY <1>1, <1>5 DEF IcacheClock, IcacheIdle, IcacheReq
  <2>2. axi_state = "IF_R" /\ AxiFetchData(r)
    BY <1>1, <1>2, <1>5 DEF LockStep, AxiClock, AxiIdle, AxiFetchAddr
  <2>3. FillBeat(r).last = r.last
    BY DEF FillBeat
  <2>4. \/ axi_state' = "IDLE" /\ ic_state' = "IDLE"
        \/ axi_state' = "IF_R" /\ ic_state' = "DATA" /\ ~fault_resp_valid'
    BY <1>5, <2>1, <2>2, <2>3 DEF IcacheData, AxiFetchData, InstallLine
  <2> QED
    BY <1>5, <2>2, <2>4 DEF LockStep
<1> QED
  BY <1>2, <1>3, <1>4, <1>5 DEF LockStep

(* An answer of the cache comes when no fill is under way and starts none. *)
LEMMA CaptureIdle ==
    ASSUME ControlInv, CoreClock,
           NEW ld, NEW st, NEW fr, ld = CoreLoadResp, st = CoreStoreResp,
           fr = IcacheResp(ReqFetchValid(ld, st), ReqFetchAddr), fr.valid
    PROVE  ic_state = "IDLE" /\ ic_state' = "IDLE"
<1>1. ic_state = "IDLE"
  BY DEF ControlInv, FrontEmpty, IcacheResp, RespMisaligned, Hit
<1> QED
  BY <1>1, MemSideStep

(* Whoever fetches finds ID empty after the edge, unless it is answered.   *)
LEMMA FetcherFindsIdEmpty ==
    ASSUME ControlInv, NEW ld, NEW st, NEW fr, FrontAdvance(fr, ld, st),
           ~FetchCapture(fr, ld, st), ReqFetchValid(ld, st) \/ ~if_id.valid
    PROVE  ~if_id'.valid
<1>1. if_id' = IF ~IdStall(ld, st) THEN Squash(if_id) ELSE if_id
  BY DEF FrontAdvance, FetchClock
<1>2. ~if_id.valid \/ ~IdStall(ld, st)
  BY DEF ControlInv, FrontEmpty, ReqFetchValid, FetchCanStart, IfIdAccept
<1> QED
  BY <1>1, <1>2, SquashValid DEF ControlInv, Shape

LEMMA ShapeKept ==
    ASSUME ControlInv, CoreClock
    PROVE  Shape'
<1> DEFINE ld == CoreLoadResp
           st == CoreStoreResp
           fr == IcacheResp(ReqFetchValid(ld, st), ReqFetchAddr)
<1>1. /\ DOMAIN x' = 0..(GprCount - 1)
      /\ DOMAIN csr' = CsrNames
  BY DEF ControlInv, Shape, CoreClock, PipelineClock, RegsAfterWb, CsrAfterWb, CsrWrite
<1>2. /\ FrontClock(fr, ld, st)
      /\ BackClock(ld, st)
  BY DEF CoreClock, PipelineClock
<1>3. "valid" \in DOMAIN if_id'
  BY <1>2, SquashValid DEF ControlInv, Shape, FrontClock, FrontHalt, FrontMemRedirect,
                          FrontExRedirect, FrontAdvance, FetchClock
<1>4. "valid" \in DOMAIN id_ex'
  BY <1>2, SquashValid DEF ControlInv, Shape, FrontClock, FrontHalt, FrontMemRedirect,
                          FrontExRedirect, FrontAdvance, DecodeClock
<1>5. "valid" \in DOMAIN ex_mem'
  BY <1>2, SquashValid DEF ControlInv, Shape, BackClock, BackHalt, BackMemRedirect, BackWait,
                          BackAdvance, ExToMem
<1>6. "valid" \in DOMAIN mem_wb'
  BY <1>2, SquashValid DEF ControlInv, Shape, BackClock, BackHalt, BackMemRedirect, BackWait,
                          BackAdvance, MemToWb
<1> QED
  BY <1>1, <1>3, <1>4, <1>5, <1>6 DEF Shape

(* The instruction that enters EX comes from ID, and no stall holds it. *)
LEMMA EnterEx ==
    ASSUME ControlInv, NEW fr, NEW ld, NEW st, FrontAdvance(fr, ld, st),
           ~MemAccessWait(ld, st), id_ex'.valid
    PROVE  /\ if_id.valid /\ ~IdStall(ld, st)
           /\ id_ex' = [valid |-> if_id.valid, pc |-> if_id.pc, inst |-> if_id.inst, d |-> Dec,
                        rs1_data |-> DecReg(Rs1(Dec)), rs2_data |-> DecReg(Rs2(Dec)),
                        csr_data |-> CsrReadData(csr, Dec.csr),
                        fetch_fault |-> if_id.fetch_fault,
                        fetch_misaligned |-> if_id.fetch_misaligned]
<1>1. IdStall(ld, st) => ~id_ex'.valid
  BY SquashValid DEF ControlInv, Shape, FrontAdvance, DecodeClock
<1> QED
  BY <1>1 DEF FrontAdvance, DecodeClock

LEMMA FrontEmptyKept ==
    ASSUME ControlInv, CoreClock
    PROVE  FrontEmpty'
<1> DEFINE ld == CoreLoadResp
           st == CoreStoreResp
           fr == IcacheResp(ReqFetchValid(ld, st), ReqFetchAddr)
<1>1. fault_resp_valid' => ic_state' = "IDLE"
  BY MemSideStep
<1>2. CASE ~if_id'.valid /\ ~id_ex'.valid
  BY <1>1, <1>2 DEF FrontEmpty
<1>3. CASE FrontAdvance(fr, ld, st)
  <2>1. fetch_pending' => ~if_id'.valid
    <3>1. CASE FetchCapture(fr, ld, st)
      BY <1>3, <3>1 DEF FrontAdvance, FetchClock
    <3>2. CASE ~FetchCapture(fr, ld, st)
      <4>1. fetch_pending' => ReqFetchValid(ld, st) \/ ~if_id.valid
        BY <1>3, <3>2 DEF ControlInv, FrontEmpty, FrontAdvance, FetchClock, ReqFetchValid
      <4> QED
        BY <1>3, <3>2, <4>1, FetcherFindsIdEmpty
    <3> QED
      BY <3>1, <3>2
  <2>2. ic_state' # "IDLE" => ~if_id'.valid
    <3>1. SUFFICES ASSUME ic_state' # "IDLE"
                   PROVE  ~if_id'.valid
      OBVIOUS
    <3>2. ~FetchCapture(fr, ld, st)
      BY <3>1, CaptureIdle DEF FetchCapture
    <3>3. ReqFetchValid(ld, st) \/ ~if_id.valid
      BY <3>1, MemSideStep DEF ControlInv, FrontEmpty
    <3> QED
      BY <1>3, <3>2, <3>3, FetcherFindsIdEmpty
  <2>3. axi_state' # "IDLE" => ~id_ex'.valid
    <3>1. SUFFICES ASSUME axi_state' # "IDLE", id_ex'.valid
                   PROVE  FALSE
      OBVIOUS
    <3>2. ~if_id.valid
      BY <3>1, MemSideStep DEF ControlInv, FrontEmpty, LockStep
    <3>3. MemAccessWait(ld, st)
      BY <1>3, <3>1, <3>2, EnterEx
    <3>4. id_ex' = id_ex /\ ~id_ex.valid
      BY <1>3, <3>3, WaitEmpty DEF FrontAdvance, DecodeClock, WaitMeansExEmpty
    <3> QED
      BY <3>1, <3>4
  <2> QED
    BY <1>1, <2>1, <2>2, <2>3 DEF FrontEmpty
<1>4. FrontHalt \/ FrontMemRedirect(ld, st) \/ FrontExRedirect(ld, st)
         => ~if_id'.valid /\ ~id_ex'.valid
  BY SquashValid DEF ControlInv, Shape, FrontHalt, FrontMemRedirect, FrontExRedirect
<1> QED
  BY <1>2, <1>3, <1>4, ClockCases

(* An instruction that traps in EX redirects the fetch and squashes what   *)
(* is behind it; one that traps in MEM squashes EX too.                    *)
LEMMA TrapsAloneKept ==
    ASSUME ControlInv, CoreClock
    PROVE  TrapsAlone'
<1> DEFINE ld == CoreLoadResp
           st == CoreStoreResp
           fr == IcacheResp(ReqFetchValid(ld, st), ReqFetchAddr)
<1> USE DEF ControlInv, Shape
<1>1. CASE FrontHalt /\ BackHalt
  BY <1>1, SquashValid DEF BackHalt, TrapsAlone
<1>2. CASE FrontMemRedirect(ld, st) /\ BackMemRedirect(ld, st)
  BY <1>2, SquashValid DEF FrontMemRedirect, BackMemRedirect, TrapsAlone
<1>3. CASE FrontExRedirect(ld, st) /\ BackAdvance(ld, st)
  <2>1. ~if_id'.valid /\ ~id_ex'.valid
    BY <1>3, SquashValid DEF FrontExRedirect
  <2>2. mem_wb'.valid /\ mem_wb'.exception => ~ex_mem'.valid
    BY <1>3 DEF BackAdvance, MemToWb, ExToMem, MemRedirect, TrapsAlone
  <2> QED
    BY <2>1, <2>2 DEF TrapsAlone
<1>4. CASE FrontAdvance(fr, ld, st) /\ BackWait(ld, st) /\ ~id_ex.valid
  <2>1. ~mem_wb'.valid /\ ex_mem' = ex_mem
    BY <1>4, SquashValid DEF BackWait
  <2>2. ~(ex_mem.valid /\ ex_mem.exception)
    BY <1>4 DEF BackWait, MemAccessWait, CtrlMemRead, CtrlMemWrite
  <2> QED
    BY <2>1, <2>2 DEF TrapsAlone
<1>5. CASE FrontAdvance(fr, ld, st) /\ BackAdvance(ld, st)
  <2>1. ~(ex_mem'.valid /\ ex_mem'.exception)
    BY <1>5 DEF BackAdvance, ExToMem, FrontAdvance, ExRedirect
  <2>2. mem_wb'.valid /\ mem_wb'.exception => ex_mem.valid /\ ex_mem.exception
    BY <1>5 DEF BackAdvance, MemToWb, MemRedirect
  <2>3. ex_mem'.valid = id_ex.valid
    BY <1>5 DEF BackAdvance, ExToMem
  <2>4. id_ex'.valid => if_id.valid
    BY <1>5, EnterEx DEF BackAdvance
  <2> QED
    BY <2>1, <2>2, <2>3, <2>4 DEF TrapsAlone
<1> QED
  BY <1>1, <1>2, <1>3, <1>4, <1>5, ClockCases

LEMMA CsrAloneKept ==
    ASSUME ControlInv, CoreClock
    PROVE  CsrAlone'
<1> DEFINE ld == CoreLoadResp
           st == CoreStoreResp
           fr == IcacheResp(ReqFetchValid(ld, st), ReqFetchAddr)
<1> USE DEF ControlInv, Shape
<1>1. CASE FrontHalt /\ BackHalt
  BY <1>1, SquashValid DEF FrontHalt, BackHalt, CsrAlone
<1>2. CASE FrontMemRedirect(ld, st) /\ BackMemRedirect(ld, st)
  BY <1>2, SquashValid DEF FrontMemRedirect, BackMemRedirect, CsrAlone
<1>3. ASSUME BackAdvance(ld, st)
      PROVE  ex_mem'.valid => ~(mem_wb'.valid /\ IsCsr(mem_wb'.d))
  BY <1>3 DEF BackAdvance, MemToWb, ExToMem, CsrAlone
<1>4. CASE FrontExRedirect(ld, st) /\ BackAdvance(ld, st)
  BY <1>3, <1>4, SquashValid DEF FrontExRedirect, CsrAlone
<1>5. CASE FrontAdvance(fr, ld, st) /\ BackWait(ld, st) /\ ~id_ex.valid
  <2>1. ~mem_wb'.valid /\ ~id_ex'.valid
    BY <1>5, SquashValid DEF FrontAdvance, BackWait, DecodeClock
  <2> QED
    BY <2>1 DEF CsrAlone
<1>6. CASE FrontAdvance(fr, ld, st) /\ BackAdvance(ld, st)
  <2>1. id_ex'.valid => ~CsrBusy
    BY <1>6, EnterEx DEF BackAdvance, IdStall, CsrStall
  <2>2. /\ ex_mem'.valid = id_ex.valid /\ ex_mem'.d = id_ex.d
        /\ mem_wb'.valid = ex_mem.valid /\ mem_wb'.d = ex_mem.d
    BY <1>6 DEF BackAdvance, ExToMem, MemToWb
  <2> QED
    BY <1>3, <1>6, <2>1, <2>2 DEF CsrAlone, CsrBusy
<1> QED
  BY <1>1, <1>2, <1>4, <1>5, <1>6, ClockCases

LEMMA ControlInit ==
    ASSUME NEW image, CoreInit(image)
    PROVE  ControlInv
BY DEF CsrReset, CoreInit, PipelineInit, IcacheInit, AxiInit, ControlInv, Shape, LockStep, FrontEmpty,
       TrapsAlone, CsrAlone

LEMMA ControlKept ==
    ASSUME ControlInv, [CoreClock]_coreVars
    PROVE  ControlInv'
<1>1. CASE CoreClock
  BY <1>1, ShapeKept, MemSideStep, FrontEmptyKept, TrapsAloneKept, CsrAloneKept DEF ControlInv
<1>2. CASE UNCHANGED coreVars
  BY <1>2 DEF coreVars, pipeVars, icVars, axiVars, ControlInv, Shape, LockStep, FrontEmpty,
              TrapsAlone, CsrAlone
<1> QED
  BY <1>1, <1>2

(* The control of the pipeline keeps its invariant for every program. *)
THEOREM CoreControl == CoreSpec => []ControlInv
<1>1. (\E image \in Images : CoreInit(image)) => ControlInv
  BY ControlInit
<1>2. ControlInv /\ [CoreClock]_coreVars => ControlInv'
  BY ControlKept
<1> QED
  BY <1>1, <1>2, PTL DEF CoreSpec

(* A load that waits in MEM finds EX empty (mem_access_wait and ex_redirect *)
(* of npc_pipeline.v never hold together).                                  *)
THEOREM LoadsWaitAlone == CoreSpec => []WaitMeansExEmpty
<1>1. ControlInv => WaitMeansExEmpty
  BY WaitEmpty
<1> QED
  BY <1>1, CoreControl, PTL

----------------------------------------------------------------------------
(* The registers once the instruction in MEM has been written back too:    *)
(* all that is older than the instruction in EX.                           *)
RegsAfterMem ==
    LET wb == MemToWb(CoreLoadResp, CoreStoreResp)
    IN IF wb.valid /\ RegWrite(wb.d) /\ ~wb.exception /\ Rd(wb.d) # 0
       THEN [RegsAfterWb EXCEPT ![Rd(wb.d)] = wb.rd_value] ELSE RegsAfterWb

(* Forwarding, the bypass of the register file and the load-use stall      *)
(* together give an instruction in EX the operands a sequential machine    *)
(* reads: the registers as all older instructions leave them.              *)
OperandsExact ==
    id_ex.valid => /\ HasRs1(id_ex.d) => ExRs1 = RegsAfterMem[Rs1(id_ex.d)]
                   /\ HasRs2(id_ex.d) => ExRs2 = RegsAfterMem[Rs2(id_ex.d)]

(* What the instruction in EX brought from ID: the registers as they are,  *)
(* none of which the load in MEM is about to write.                        *)
OperandsRead ==
    /\ x[0] = 0
    /\ id_ex.valid =>
         /\ Rs1(id_ex.d) \in 0..(GprCount - 1) /\ id_ex.rs1_data = x[Rs1(id_ex.d)]
         /\ Rs2(id_ex.d) \in 0..(GprCount - 1) /\ id_ex.rs2_data = x[Rs2(id_ex.d)]
         /\ ex_mem.valid /\ MemRead(ex_mem.d) /\ ~ex_mem.exception /\ Rd(ex_mem.d) # 0 =>
                /\ HasRs1(id_ex.d) => Rs1(id_ex.d) # Rd(ex_mem.d)
                /\ HasRs2(id_ex.d) => Rs2(id_ex.d) # Rd(ex_mem.d)

(* A decoded register number names a register. *)
LEMMA DecodedRegs ==
    ASSUME NEW w
    PROVE  /\ Rs1(InstOf(w)) \in 0..(GprCount - 1)
           /\ Rs2(InstOf(w)) \in 0..(GprCount - 1)
<1>1. InstOf(w).rs1 \in Nat /\ InstOf(w).rs2 \in Nat
  <2>1. CASE w \in DOMAIN Encoding
    BY <2>1, CoreAssumption DEF InstOf
  <2>2. CASE w \notin DOMAIN Encoding
    BY <2>2 DEF InstOf, Unknown
  <2> QED
    BY <2>1, <2>2
<1>2. \A n \in Nat : n % GprCount \in 0..(GprCount - 1)
  BY CoreAssumption
<1> QED
  BY <1>1, <1>2 DEF Rs1, Rs2

LEMMA RegsAfterWbIs ==
    ASSUME Shape, NEW r \in 0..(GprCount - 1)
    PROVE  /\ DOMAIN RegsAfterWb = 0..(GprCount - 1)
           /\ RegsAfterWb[r] = IF RegWen /\ Rd(mem_wb.d) = r THEN mem_wb.rd_value ELSE x[r]
           /\ x[0] = 0 => RegsAfterWb[0] = 0
BY CoreAssumption DEF Shape, RegsAfterWb, RegWen

LEMMA OperandsReadKept ==
    ASSUME ControlInv, OperandsRead, CoreClock
    PROVE  OperandsRead'
<1> DEFINE ld == CoreLoadResp
           st == CoreStoreResp
           fr == IcacheResp(ReqFetchValid(ld, st), ReqFetchAddr)
<1>1. x' = RegsAfterWb /\ x'[0] = 0
  <2>1. x' = RegsAfterWb /\ 0 \in 0..(GprCount - 1)
    BY CoreAssumption DEF CoreClock, PipelineClock
  <2> QED
    BY <2>1, RegsAfterWbIs DEF ControlInv, OperandsRead
<1>2. CASE ~id_ex'.valid
  BY <1>1, <1>2 DEF OperandsRead
<1>3. FrontHalt \/ FrontMemRedirect(ld, st) \/ FrontExRedirect(ld, st) => ~id_ex'.valid
  BY SquashValid DEF ControlInv, Shape, FrontHalt, FrontMemRedirect, FrontExRedirect
<1>4. FrontAdvance(fr, ld, st) /\ BackWait(ld, st) /\ ~id_ex.valid => ~id_ex'.valid
  BY DEF FrontAdvance, DecodeClock, BackWait
<1>5. CASE FrontAdvance(fr, ld, st) /\ BackAdvance(ld, st) /\ id_ex'.valid
  <2>1. /\ if_id.valid /\ ~LoadUseStall
        /\ id_ex'.d = Dec
        /\ id_ex'.rs1_data = DecReg(Rs1(Dec)) /\ id_ex'.rs2_data = DecReg(Rs2(Dec))
    BY <1>5, EnterEx DEF BackAdvance, IdStall
  <2>2. /\ Rs1(Dec) \in 0..(GprCount - 1) /\ DecReg(Rs1(Dec)) = x'[Rs1(Dec)]
        /\ Rs2(Dec) \in 0..(GprCount - 1) /\ DecReg(Rs2(Dec)) = x'[Rs2(Dec)]
    BY <1>1, DecodedRegs DEF Dec, DecReg
  <2>3. ex_mem'.valid = id_ex.valid /\ ex_mem'.d = id_ex.d
    BY <1>5 DEF BackAdvance, ExToMem
  <2>4. ASSUME ex_mem'.valid, MemRead(ex_mem'.d), Rd(ex_mem'.d) # 0
        PROVE  /\ HasRs1(Dec) => Rs1(Dec) # Rd(ex_mem'.d)
               /\ HasRs2(Dec) => Rs2(Dec) # Rd(ex_mem'.d)
    BY <2>1, <2>3, <2>4, OpClasses DEF LoadUseStall, WritesReg
  <2> QED
    BY <1>1, <2>1, <2>2, <2>4, Zenon DEF OperandsRead, MemRead, Rd, Rs1, Rs2, HasRs1, HasRs2
<1> QED
  BY <1>2, <1>3, <1>4, <1>5, ClockCases

(* The forwarding network delivers the registers as the instructions in    *)
(* MEM and WB leave them.                                                  *)
LEMMA ForwardedExact ==
    ASSUME Shape, NEW r \in 0..(GprCount - 1), x[0] = 0,
           ~(ex_mem.valid /\ MemRead(ex_mem.d) /\ ~ex_mem.exception /\ Rd(ex_mem.d) # 0
               /\ Rd(ex_mem.d) = r)
    PROVE  Forwarded(r, x[r]) = RegsAfterMem[r]
<1> DEFINE ld == CoreLoadResp
           st == CoreStoreResp
           wb == MemToWb(ld, st)
<1>1. /\ wb.valid = ex_mem.valid /\ wb.d = ex_mem.d /\ wb.rd_value = MemStageRdValue(ld)
      /\ wb.exception = (ex_mem.exception \/ MemNewException(ld, st))
  BY DEF MemToWb
<1>2. RegsAfterMem[r] = IF wb.valid /\ RegWrite(wb.d) /\ ~wb.exception /\ Rd(wb.d) # 0 /\ Rd(wb.d) = r
                        THEN wb.rd_value ELSE RegsAfterWb[r]
  BY RegsAfterWbIs DEF RegsAfterMem
<1>3. RegWrite(ex_mem.d) /\ ~MemRead(ex_mem.d) => ~MemNewException(ld, st)
  BY OpClasses DEF MemNewException, MemCauses, CtrlMemRead, CtrlMemWrite
<1>4. CASE ExMemCanForward(r)
  BY <1>1, <1>2, <1>3, <1>4 DEF Forwarded, ExMemCanForward, MemStageRdValue
<1>5. CASE ~ExMemCanForward(r)
  <2>1. RegsAfterMem[r] = RegsAfterWb[r]
    BY <1>1, <1>2, <1>5 DEF ExMemCanForward
  <2>2. MemWbCanForward(r) <=> RegWen /\ Rd(mem_wb.d) = r
    BY DEF MemWbCanForward, RegWen
  <2> QED
    BY <1>5, <2>1, <2>2, RegsAfterWbIs DEF Forwarded
<1> QED
  BY <1>4, <1>5

LEMMA OperandsAreExact ==
    ASSUME ControlInv, OperandsRead
    PROVE  OperandsExact
<1> SUFFICES ASSUME id_ex.valid
             PROVE  /\ HasRs1(id_ex.d) => ExRs1 = RegsAfterMem[Rs1(id_ex.d)]
                    /\ HasRs2(id_ex.d) => ExRs2 = RegsAfterMem[Rs2(id_ex.d)]
  BY DEF OperandsExact
<1> QED
  BY ForwardedExact DEF ControlInv, OperandsRead, ExRs1, ExRs2

(* Forwarding, bypass and load-use stall give every instruction in EX the  *)
(* registers a sequential machine would read, whatever the program.        *)
THEOREM OperandsAreSequential == CoreSpec => []OperandsExact
<1>1. (\E image \in Images : CoreInit(image)) => OperandsRead
  BY CoreAssumption DEF CoreInit, PipelineInit, OperandsRead
<1>2. ControlInv /\ OperandsRead /\ [CoreClock]_coreVars => OperandsRead'
  <2>1. CASE UNCHANGED coreVars
    BY <2>1 DEF coreVars, pipeVars, OperandsRead
  <2> QED
    BY <2>1, OperandsReadKept
<1>3. ControlInv /\ OperandsRead => OperandsExact
  BY OperandsAreExact
<1> QED
  BY <1>1, <1>2, <1>3, CoreControl, PTL DEF CoreSpec

----------------------------------------------------------------------------
(* The pc of what follows the instruction in ID, in EX and in MEM. *)
AfterId  == IF if_id.valid THEN if_id.pc ELSE NextFetch
AfterEx  == IF id_ex.valid THEN id_ex.pc ELSE AfterId
AfterMem == IF ex_mem.valid THEN ex_mem.pc ELSE AfterEx

(* What is in flight is one path: behind an instruction that EX has not    *)
(* seen comes the next word, behind the others the next pc they computed.  *)
OnePath == /\ fetch_pending => fetch_pc = pc
           /\ if_id.valid => NextFetch = Plus(if_id.pc, 4)
           /\ id_ex.valid => AfterId = Plus(id_ex.pc, 4)
           /\ ex_mem.valid => AfterEx = ex_mem.next_pc
           /\ mem_wb.valid => AfterMem = mem_wb.next_pc

LEMMA NextToRetireIs == NextToRetire = AfterMem
BY DEF NextToRetire, AfterMem, AfterEx, AfterId

(* The fetch goes on where it is: a word captured is that of NextFetch.    *)
LEMMA FetchAdvances ==
    ASSUME ControlInv, OnePath, NEW fr, NEW ld, NEW st, FrontAdvance(fr, ld, st)
    PROVE  /\ fetch_pending' => fetch_pc' = pc'
           /\ FetchCapture(fr, ld, st) => /\ if_id'.valid /\ if_id'.pc = NextFetch
                                          /\ NextFetch' = Plus(NextFetch, 4)
                                          /\ ~if_id.valid \/ ~IdStall(ld, st)
           /\ ~FetchCapture(fr, ld, st) =>
                 /\ NextFetch' = NextFetch
                 /\ if_id' = IF ~IdStall(ld, st) THEN Squash(if_id) ELSE if_id
<1>1. CASE FetchCapture(fr, ld, st)
  <2>1. /\ if_id'.valid /\ if_id'.pc = ReqFetchAddr
        /\ pc' = Plus(ReqFetchAddr, 4) /\ fetch_pending' = FALSE
    BY <1>1 DEF FrontAdvance, FetchClock
  <2>2. ReqFetchAddr = NextFetch /\ NextFetch' = pc'
    BY <2>1 DEF ReqFetchAddr, NextFetch
  <2>3. ~if_id.valid \/ ~IdStall(ld, st)
    BY <1>1 DEF FetchCapture, IfIdAccept
  <2> QED
    BY <1>1, <2>1, <2>2, <2>3
<1>2. CASE ~FetchCapture(fr, ld, st)
  <2>1. /\ if_id' = IF ~IdStall(ld, st) THEN Squash(if_id) ELSE if_id
        /\ fetch_pending' = (fetch_pending \/ FetchCanStart(ld, st))
        /\ fetch_pc' = IF FetchCanStart(ld, st) THEN pc ELSE fetch_pc
        /\ pc' = pc
    BY <1>2 DEF FrontAdvance, FetchClock
  <2>2. NextFetch = pc /\ NextFetch' = pc /\ (fetch_pending' => fetch_pc' = pc)
    BY <2>1 DEF OnePath, NextFetch
  <2> QED
    BY <1>2, <2>1, <2>2
<1> QED
  BY <1>1, <1>2

(* A redirect empties what is behind it and fetches from its target. *)
LEMMA Redirected ==
    ASSUME Shape, NEW ld, NEW st, NEW target,
           \/ FrontMemRedirect(ld, st) /\ target = csr["mtvec"]
           \/ FrontExRedirect(ld, st) /\ target = ExNextPc
    PROVE  /\ ~if_id'.valid /\ ~id_ex'.valid /\ ~fetch_pending'
           /\ AfterEx' = target
<1>1. /\ ~if_id'.valid /\ ~id_ex'.valid /\ ~fetch_pending' /\ pc' = target
  BY SquashValid DEF Shape, FrontMemRedirect, FrontExRedirect
<1> QED
  BY <1>1 DEF AfterEx, AfterId, NextFetch

(* Without a redirect the instruction in EX goes on to the next word. *)
LEMMA NotRedirected ==
    ASSUME id_ex.valid, ~ExRedirect
    PROVE  ExNextPc = Plus(id_ex.pc, 4)
BY DEF ExRedirect, ExNextPc, NextPcOf, ExBranchTaken

(* One clock edge: the path is kept, and the instruction that enters WB is *)
(* the next one of it.                                                     *)
LEMMA PathStep ==
    ASSUME ControlInv, OnePath, CoreClock
    PROVE  /\ OnePath'
           /\ ~halted' => IF mem_wb'.valid
                          THEN mem_wb'.pc = AfterMem /\ AfterMem' = mem_wb'.next_pc
                          ELSE AfterMem' = AfterMem
<1> DEFINE ld == CoreLoadResp
           st == CoreStoreResp
           fr == IcacheResp(ReqFetchValid(ld, st), ReqFetchAddr)
<1>0. Shape
  BY DEF ControlInv
<1>1. CASE FrontHalt /\ BackHalt
  <2>1. /\ ~if_id'.valid /\ ~id_ex'.valid /\ ~ex_mem'.valid /\ ~mem_wb'.valid
        /\ halted' /\ ~fetch_pending'
    BY <1>0, <1>1, SquashValid DEF Shape, FrontHalt, BackHalt
  <2> QED
    BY <2>1 DEF OnePath
<1>2. CASE FrontMemRedirect(ld, st) /\ BackMemRedirect(ld, st)
  <2>1. /\ ~if_id'.valid /\ ~id_ex'.valid /\ ~fetch_pending' /\ AfterEx' = csr["mtvec"]
    BY <1>0, <1>2, Redirected
  <2>2. ~ex_mem'.valid
    BY <1>0, <1>2, SquashValid DEF Shape, BackMemRedirect
  <2>3. mem_wb'.valid /\ mem_wb'.pc = ex_mem.pc /\ mem_wb'.next_pc = csr["mtvec"] /\ ex_mem.valid
    BY <1>2 DEF BackMemRedirect, MemToWb, MemRedirect, MemNewException, MemCauses, CtrlMemRead,
                CtrlMemWrite
  <2>4. AfterMem' = mem_wb'.next_pc /\ mem_wb'.pc = AfterMem
    BY <2>1, <2>2, <2>3 DEF AfterMem
  <2> QED
    BY <2>1, <2>2, <2>3, <2>4 DEF OnePath
<1>3. ASSUME BackAdvance(ld, st)
      PROVE  /\ mem_wb'.valid = ex_mem.valid /\ mem_wb'.pc = ex_mem.pc
             /\ mem_wb'.next_pc = ex_mem.next_pc
             /\ ex_mem'.valid = id_ex.valid /\ ex_mem'.pc = id_ex.pc
             /\ ex_mem'.next_pc = ExNextPc
  BY <1>3 DEF BackAdvance, MemToWb, ExToMem, MemRedirect
<1>4. CASE FrontExRedirect(ld, st) /\ BackAdvance(ld, st)
  <2>1. /\ ~if_id'.valid /\ ~id_ex'.valid /\ ~fetch_pending' /\ AfterEx' = ExNextPc
    BY <1>0, <1>4, Redirected
  <2>2. id_ex.valid
    BY <1>4 DEF FrontExRedirect, ExRedirect
  <2>3. AfterMem' = id_ex.pc /\ AfterEx = id_ex.pc
    BY <1>3, <1>4, <2>2 DEF AfterMem, AfterEx
  <2> QED
    BY <1>3, <1>4, <2>1, <2>3 DEF OnePath, AfterMem
<1>5. ASSUME FrontAdvance(fr, ld, st)
      PROVE  /\ fetch_pending' => fetch_pc' = pc'
             /\ if_id'.valid => NextFetch' = Plus(if_id'.pc, 4)
             /\ IdStall(ld, st) => AfterId' = AfterId
             /\ ~IdStall(ld, st) => AfterId' = NextFetch
  <2>1. CASE FetchCapture(fr, ld, st)
    BY <1>5, <2>1, FetchAdvances DEF AfterId
  <2>2. CASE ~FetchCapture(fr, ld, st)
    <3>1. ~IdStall(ld, st) => ~if_id'.valid
      BY <1>0, <1>5, <2>2, FetchAdvances, SquashValid DEF Shape
    <3> QED
      BY <1>5, <2>2, <3>1, FetchAdvances DEF AfterId, OnePath
  <2> QED
    BY <2>1, <2>2
<1>6. CASE FrontAdvance(fr, ld, st) /\ BackWait(ld, st) /\ ~id_ex.valid
  <2>1. /\ IdStall(ld, st) /\ id_ex' = id_ex /\ ex_mem' = ex_mem /\ ~mem_wb'.valid
    BY <1>0, <1>6, SquashValid DEF Shape, FrontAdvance, DecodeClock, BackWait, IdStall
  <2>2. AfterEx' = AfterEx /\ AfterMem' = AfterMem
    BY <1>5, <1>6, <2>1 DEF AfterEx, AfterMem
  <2> QED
    BY <1>5, <1>6, <2>1, <2>2 DEF OnePath
<1>7. CASE FrontAdvance(fr, ld, st) /\ BackAdvance(ld, st)
  <2>1. id_ex.valid => ExNextPc = Plus(id_ex.pc, 4)
    BY <1>7, NotRedirected DEF FrontAdvance
  <2>2. CASE IdStall(ld, st)
    <3>1. ~id_ex'.valid
      BY <1>0, <1>7, <2>2, SquashValid DEF Shape, FrontAdvance, DecodeClock, BackAdvance
    <3>2. AfterEx' = AfterId
      BY <1>5, <1>7, <2>2, <3>1 DEF AfterEx
    <3>3. AfterMem' = AfterEx
      BY <1>3, <1>7, <3>2 DEF AfterMem, AfterEx
    <3> QED
      BY <1>3, <1>5, <1>7, <2>1, <3>1, <3>2, <3>3 DEF OnePath, AfterMem
  <2>3. CASE ~IdStall(ld, st)
    <3>1. id_ex'.valid = if_id.valid /\ id_ex'.pc = if_id.pc
      BY <1>7, <2>3 DEF FrontAdvance, DecodeClock, BackAdvance
    <3>2. AfterEx' = AfterId
      BY <1>5, <1>7, <2>3, <3>1 DEF AfterEx, AfterId
    <3>3. AfterMem' = AfterEx
      BY <1>3, <1>7, <3>2 DEF AfterMem, AfterEx
    <3>4. id_ex'.valid => AfterId' = Plus(id_ex'.pc, 4)
      BY <1>5, <1>7, <2>3, <3>1 DEF OnePath
    <3> QED
      BY <1>3, <1>5, <1>7, <2>1, <3>2, <3>3, <3>4 DEF OnePath, AfterMem
  <2> QED
    BY <2>2, <2>3
<1> QED
  BY <1>1, <1>2, <1>4, <1>6, <1>7, ClockCases

(* The instructions that retire are one path: each is at the next pc of    *)
(* the one before, through branches, traps, returns, stalls and fills.     *)
THEOREM RetirementFollowsNextPc == CoreSpec => RetiresInOrder
<1> DEFINE Step == ~halted' => IF mem_wb'.valid
                              THEN mem_wb'.pc = NextToRetire /\ NextToRetire' = mem_wb'.next_pc
                              ELSE NextToRetire' = NextToRetire
<1>1. (\E image \in Images : CoreInit(image)) => OnePath
  BY DEF CoreInit, PipelineInit, OnePath
<1>2. ControlInv /\ OnePath /\ [CoreClock]_coreVars => OnePath'
  <2>1. CASE UNCHANGED coreVars
    BY <2>1 DEF coreVars, pipeVars, OnePath, AfterMem, AfterEx, AfterId, NextFetch
  <2> QED
    BY <2>1, PathStep
<1>3. ControlInv /\ OnePath /\ [CoreClock]_coreVars => [Step]_coreVars
  <2>1. NextToRetire = AfterMem /\ NextToRetire' = AfterMem'
    BY NextToRetireIs DEF NextToRetire, AfterMem, AfterEx, AfterId
  <2> QED
    BY <2>1, PathStep
<1> QED
  BY <1>1, <1>2, <1>3, CoreControl, PTL DEF CoreSpec, RetiresInOrder

----------------------------------------------------------------------------
(* The CSR file does not change under an instruction in EX or MEM, which   *)
(* reads mtvec and mepc when it redirects: older writes and traps are done.*)
CsrSettled == id_ex.valid \/ ex_mem.valid => CsrAfterWb = csr

(* What an instruction in EX or MEM reads of the CSR file is what older    *)
(* instructions leave there: CSR writes and traps come alone.              *)
LEMMA CsrIsSettled ==
    ASSUME ControlInv
    PROVE  CsrSettled
BY DEF ControlInv, TrapsAlone, CsrAlone, CsrSettled, CsrAfterWb, CsrExcEn, CsrWen

(* An exception or mret takes its target from a settled mtvec or mepc: no  *)
(* write of npc_csr_file.v is due while an instruction is in EX or MEM.     *)
THEOREM CsrFileSettled == CoreSpec => []CsrSettled
<1>1. ControlInv => CsrSettled
  BY CsrIsSettled
<1> QED
  BY <1>1, CoreControl, PTL

(* A CSR instruction leaves ID in the cycle in which a trap commits and    *)
(* reads a CSR the trap is writing: the read port has no bypass for it.    *)
TrapAtCsrRead == CsrExcEn /\ if_id.valid /\ IsCsr(Dec) /\ Dec.csr \in {"mepc", "mcause"}

LEMMA CsrReadKept ==
    ASSUME ControlInv, CsrReadCurrent, CoreClock, ~TrapAtCsrRead
    PROVE  CsrReadCurrent'
<1> DEFINE ld == CoreLoadResp
           st == CoreStoreResp
           fr == IcacheResp(ReqFetchValid(ld, st), ReqFetchAddr)
<1>1. csr' = CsrAfterWb
  BY DEF CoreClock, PipelineClock
<1>2. CASE ~id_ex'.valid
  BY <1>2 DEF CsrReadCurrent
<1>3. FrontHalt \/ FrontMemRedirect(ld, st) \/ FrontExRedirect(ld, st) => ~id_ex'.valid
  BY SquashValid DEF ControlInv, Shape, FrontHalt, FrontMemRedirect, FrontExRedirect
<1>4. FrontAdvance(fr, ld, st) /\ BackWait(ld, st) /\ ~id_ex.valid => ~id_ex'.valid
  BY DEF FrontAdvance, DecodeClock, BackWait
<1>5. CASE FrontAdvance(fr, ld, st) /\ BackAdvance(ld, st) /\ id_ex'.valid
  <2>1. /\ if_id.valid /\ ~CsrBusy
        /\ id_ex'.d = Dec /\ id_ex'.csr_data = CsrReadData(csr, Dec.csr)
    BY <1>5, EnterEx DEF BackAdvance, IdStall, CsrStall
  <2>2. ~CsrWen
    BY <2>1 DEF CsrBusy, CsrWen
  <2>3. ASSUME IsCsr(Dec), Dec.csr \in CsrNames
        PROVE  csr'[Dec.csr] = csr[Dec.csr]
    <3>1. CASE CsrExcEn
      <4>1. Dec.csr # "mepc" /\ Dec.csr # "mcause"
        BY <2>1, <2>3, <3>1 DEF TrapAtCsrRead
      <4> QED
        BY <1>1, <2>3, <3>1, <4>1 DEF CsrAfterWb, ControlInv, Shape
    <3>2. CASE ~CsrExcEn
      BY <1>1, <2>2, <3>2 DEF CsrAfterWb
    <3> QED
      BY <3>1, <3>2
  <2>4. CsrReadCurrent' = (id_ex'.valid /\ IsCsr(id_ex'.d)
                             => id_ex'.csr_data = CsrReadData(csr', id_ex'.d.csr))
    BY DEF CsrReadCurrent, IsCsr
  <2>5. IsCsr(Dec) => CsrReadData(csr, Dec.csr) = CsrReadData(csr', Dec.csr)
    BY <2>3 DEF CsrReadData
  <2> QED
    BY <2>1, <2>4, <2>5
<1> QED
  BY <1>2, <1>3, <1>4, <1>5, ClockCases

(* CSR reads are current unless a trap commits as mepc or mcause is read:  *)
(* csr_stall covers every other distance between a write and a read.       *)
THEOREM CsrReadsAreCurrent == CoreSpec /\ []~TrapAtCsrRead => []CsrReadCurrent
<1>1. (\E image \in Images : CoreInit(image)) => CsrReadCurrent
  BY DEF CoreInit, PipelineInit, CsrReadCurrent
<1>2. ControlInv /\ CsrReadCurrent /\ ~TrapAtCsrRead /\ [CoreClock]_coreVars => CsrReadCurrent'
  <2>1. CASE UNCHANGED coreVars
    BY <2>1 DEF coreVars, pipeVars, CsrReadCurrent
  <2> QED
    BY <2>1, CsrReadKept
<1> QED
  BY <1>1, <1>2, CoreControl, PTL DEF CoreSpec

----------------------------------------------------------------------------
(* Nothing runs once halted: no fetch is pending either. *)
HaltInv == HaltIsFinal /\ (halted => ~fetch_pending)

LEMMA HaltKept ==
    ASSUME ControlInv, HaltInv, CoreClock, halted => ~fault_resp_valid
    PROVE  HaltInv'
<1> DEFINE ld == CoreLoadResp
           st == CoreStoreResp
           fr == IcacheResp(ReqFetchValid(ld, st), ReqFetchAddr)
<1>1. CASE FrontHalt /\ BackHalt
  BY <1>1, SquashValid DEF ControlInv, Shape, FrontHalt, BackHalt, HaltInv, HaltIsFinal
<1>2. CASE FrontMemRedirect(ld, st) /\ BackMemRedirect(ld, st)
  <2>1. halted' = halted /\ ex_mem.valid
    BY <1>2 DEF FrontMemRedirect, MemRedirect, MemNewException, MemCauses, CtrlMemRead, CtrlMemWrite
  <2> QED
    BY <2>1 DEF HaltInv, HaltIsFinal
<1>3. CASE FrontExRedirect(ld, st)
  <2>1. halted' = halted /\ id_ex.valid
    BY <1>3 DEF FrontExRedirect, ExRedirect
  <2> QED
    BY <2>1 DEF HaltInv, HaltIsFinal
<1>4. CASE FrontAdvance(fr, ld, st)
  <2>1. halted' = halted
    BY <1>4 DEF FrontAdvance
  <2>2. SUFFICES ASSUME halted
                 PROVE  HaltInv'
    BY <2>1 DEF HaltInv, HaltIsFinal
  <2>3. /\ ~if_id.valid /\ ~id_ex.valid /\ ~ex_mem.valid /\ ~mem_wb.valid /\ ~fetch_pending
        /\ ~fault_resp_valid
    BY <2>2 DEF HaltInv, HaltIsFinal
  <2>4. ~ReqFetchValid(ld, st) /\ ~FetchCanStart(ld, st)
    BY <2>2, <2>3 DEF ReqFetchValid, FetchCanStart
  <2>5. ~FetchCapture(fr, ld, st)
    BY <2>3, <2>4 DEF FetchCapture, IcacheResp, RespMisaligned, Hit
  <2>6. ~if_id'.valid /\ ~fetch_pending'
    BY <1>4, <2>3, <2>4, <2>5, FetcherFindsIdEmpty DEF FrontAdvance, FetchClock
  <2>7. ~MemAccessWait(ld, st)
    BY <2>3 DEF MemAccessWait, CtrlMemRead, CtrlMemWrite
  <2>8. ~id_ex'.valid
    BY <1>4, <2>3, <2>7, EnterEx
  <2>9. ~ex_mem'.valid /\ ~mem_wb'.valid
    <3>1. BackClock(ld, st)
      BY DEF CoreClock, PipelineClock
    <3> QED
      BY <2>3, <2>7, <3>1, SquashValid
         DEF ControlInv, Shape, BackClock, BackHalt, BackMemRedirect, BackWait, BackAdvance,
             ExToMem, MemToWb
  <2> QED
    BY <2>6, <2>8, <2>9 DEF HaltInv, HaltIsFinal
<1> QED
  BY <1>1, <1>2, <1>3, <1>4, ClockCases

(* A halted core has nothing in flight for ever, whatever the program, as  *)
(* long as no line fill it left behind faults (wb_will_halt stops fetch    *)
(* and squashes, but the answer to a faulted fill is captured unasked).    *)
THEOREM HaltsForGood == CoreSpec /\ [](halted => ~fault_resp_valid) => []HaltIsFinal
<1>1. (\E image \in Images : CoreInit(image)) => HaltInv
  BY DEF CoreInit, PipelineInit, HaltInv, HaltIsFinal
<1>2. ControlInv /\ HaltInv /\ (halted => ~fault_resp_valid) /\ [CoreClock]_coreVars => HaltInv'
  <2>1. CASE UNCHANGED coreVars
    BY <2>1 DEF coreVars, pipeVars, HaltInv, HaltIsFinal
  <2> QED
    BY <2>1, HaltKept
<1>3. HaltInv => HaltIsFinal
  BY DEF HaltInv
<1> QED
  BY <1>1, <1>2, <1>3, CoreControl, PTL DEF CoreSpec

----------------------------------------------------------------------------
(* What the data request of this cycle does to memory and what it returns, *)
(* in terms of the instruction in MEM.                                     *)
LEMMA DataAccess ==
    LET a == ex_mem.alu_result
        s == MemSize(ex_mem.d)
        data == ExtractNarrow(a, s, StoreWdataShifted(a, s, ex_mem.rs2_data))
    IN /\ MemAfter(WChannel(DataReq)) = IF CtrlMemWrite /\ ~ClintAccess
                                        THEN MemStore(mem, a, s, data) ELSE mem
       /\ CoreLoadResp.ready => /\ CtrlMemRead /\ ~ClintAccess
                                /\ CoreLoadResp.data = MemLoad(mem, a, s).data
                                /\ CoreLoadResp.fault <=> MemLoad(mem, a, s).result # "OK"
       /\ ~CoreLoadResp.ready => ~CoreLoadResp.fault
       /\ CoreStoreResp.ready => CtrlMemWrite /\ ~ClintAccess
       /\ CtrlMemWrite /\ ~ClintAccess =>
             (CoreStoreResp.fault <=> MemStoreResult(a, s) # "OK")
       /\ ~CoreStoreResp.ready => ~CoreStoreResp.fault
<1> DEFINE a == ex_mem.alu_result
           s == MemSize(ex_mem.d)
           req == DataReq
<1>1. /\ req.load <=> CtrlMemRead /\ ~ClintAccess
      /\ req.store <=> CtrlMemWrite /\ ~ClintAccess
      /\ req.addr = a /\ req.size = s /\ req.data = ex_mem.rs2_data
  BY DEF DataReq
<1>2. ~(req.load /\ req.store)
  BY <1>1, OpClasses DEF CtrlMemRead, CtrlMemWrite
<1>3. /\ WChannel(req).valid <=> req.store
      /\ WChannel(req).addr = a /\ WChannel(req).size = s
      /\ WChannel(req).data = StoreWdataShifted(a, s, ex_mem.rs2_data)
  BY <1>1, <1>2 DEF WChannel, DataStoreActive
<1>4. MemAfter(WChannel(req)) = IF req.store
                                THEN MemStore(mem, a, s, ExtractNarrow(a, s, WChannel(req).data))
                                ELSE mem
  BY <1>3 DEF MemAfter
<1>5. ASSUME CoreLoadResp.ready
      PROVE  /\ req.load
             /\ CoreLoadResp.data = MemLoad(mem, a, s).data
             /\ CoreLoadResp.fault <=> MemLoad(mem, a, s).result # "OK"
  <2>1. DataLoadActive(req) /\ req.load
    BY <1>5 DEF CoreLoadResp, LoadResp, DataLoadActive
  <2>2. /\ ArChannel(req).valid /\ ArChannel(req).id = 1
        /\ ArChannel(req).addr = a /\ ArChannel(req).size = s
    BY <1>1, <2>1 DEF ArChannel
  <2>3. /\ RData(req).data = MemLoad(mem, a, s).data
        /\ RData(req).fault <=> MemLoad(mem, a, s).result # "OK"
    BY <1>2, <1>4, <2>1, <2>2 DEF RData, RChannel
  <2> QED
    BY <1>5, <2>1, <2>3 DEF CoreLoadResp, LoadResp
<1>6. /\ ~CoreLoadResp.ready => ~CoreLoadResp.fault
      /\ ~CoreStoreResp.ready => ~CoreStoreResp.fault
      /\ CoreStoreResp.ready => req.store
  BY DEF CoreLoadResp, LoadResp, CoreStoreResp, StoreResp, DataStoreActive
<1>7. req.store => (CoreStoreResp.fault <=> MemStoreResult(a, s) # "OK")
  BY <1>2, <1>3 DEF CoreStoreResp, StoreResp, BChannel, DataStoreActive
<1> QED
  BY <1>1, <1>3, <1>4, <1>5, <1>6, <1>7

(* Instructions whose result or address the ALU computes. *)
UsesAlu(d) == d.op \in OpImm \cup OpReg \cup Loads \cup Stores \cup {"LUI", "AUIPC"}

(* The fields of i that decide where it goes, with no fetch exception. *)
Fetched(i) == [pc |-> i.pc, d |-> i.d, fetch_fault |-> FALSE, fetch_misaligned |-> FALSE]

(* The units look at no operand the instruction does not name. *)
LEMMA OperandsUsed ==
    ASSUME NEW d, NEW pc0, NEW v1, NEW v2, NEW w1, NEW w2,
           HasRs1(d) => v1 = w1, HasRs2(d) => v2 = w2
    PROVE  /\ UsesAlu(d) => AluResult(d, pc0, v1, v2) = AluResult(d, pc0, w1, w2)
           /\ BranchTaken(d, v1, v2) <=> BranchTaken(d, w1, w2)
           /\ JumpTarget(d, pc0, v1) = JumpTarget(d, pc0, w1)
<1>1. ASSUME UsesAlu(d)
      PROVE  AluResult(d, pc0, v1, v2) = AluResult(d, pc0, w1, w2)
  <2>1. CASE HasRs1(d) /\ HasRs2(d)
    BY <2>1
  <2>2. CASE HasRs1(d) /\ ~HasRs2(d)
    <3>1. d.op \notin OpReg \cup Branches
      BY <2>2 DEF HasRs2
    <3> QED
      BY <2>2, <3>1 DEF AluResult, AluLess
  <2>3. CASE ~HasRs1(d)
    <3>1. d.op \in {"LUI", "AUIPC"}
      BY <1>1, <2>3 DEF UsesAlu, HasRs1
    <3>2. d.op \notin OpReg \cup Branches
      BY <3>1 DEF OpReg, Branches
    <3> QED
      BY <3>1, <3>2 DEF AluResult, AluLess
  <2> QED
    BY <2>1, <2>2, <2>3
<1>2. BranchTaken(d, v1, v2) <=> BranchTaken(d, w1, w2)
  <2>1. CASE d.op \in Branches
    BY <2>1 DEF HasRs1, HasRs2
  <2>2. CASE d.op \notin Branches
    BY <2>2 DEF BranchTaken, Branches
  <2> QED
    BY <2>1, <2>2
<1>3. JumpTarget(d, pc0, v1) = JumpTarget(d, pc0, w1)
  BY DEF JumpTarget, HasRs1
<1> QED
  BY <1>1, <1>2, <1>3

(* Causes and next pc depend on the named operands, and on how the word    *)
(* was fetched only where that is the cause.                               *)
LEMMA CausesUsed ==
    ASSUME NEW i, NEW v1, NEW v2, NEW w1, NEW w2,
           HasRs1(i.d) => v1 = w1, HasRs2(i.d) => v2 = w2
    PROVE  /\ TrapCauses(i, v1, v2) \subseteq
                 TrapCauses(Fetched(i), w1, w2) \cup {CauseInstFault, CauseInstMisaligned}
           /\ TrapCauses(i, v1, v2) = {} => TrapCauses(Fetched(i), w1, w2) = {}
<1>1. /\ BranchTaken(i.d, v1, v2) <=> BranchTaken(i.d, w1, w2)
      /\ JumpTarget(i.d, i.pc, v1) = JumpTarget(i.d, i.pc, w1)
  BY OperandsUsed
<1>2. /\ Fetched(i).pc = i.pc /\ Fetched(i).d = i.d
      /\ Fetched(i).fetch_fault = FALSE /\ Fetched(i).fetch_misaligned = FALSE
  BY DEF Fetched
<1> QED
  BY <1>1, <1>2 DEF TrapCauses

LEMMA NextPcUsed ==
    ASSUME NEW i, NEW v1, NEW v2, NEW w1, NEW w2, NEW trap, NEW file,
           HasRs1(i.d) => v1 = w1, HasRs2(i.d) => v2 = w2
    PROVE  NextPcOf(i, trap, v1, v2, file) = NextPcOf(Fetched(i), trap, w1, w2, file)
<1>1. /\ BranchTaken(i.d, v1, v2) <=> BranchTaken(i.d, w1, w2)
      /\ JumpTarget(i.d, i.pc, v1) = JumpTarget(i.d, i.pc, w1)
  BY OperandsUsed
<1>2. Fetched(i).pc = i.pc /\ Fetched(i).d = i.d
  BY DEF Fetched
<1> QED
  BY <1>1, <1>2 DEF NextPcOf

LEMMA TheCauseIn ==
    ASSUME NEW S, S # {}
    PROVE  TheCause(S) \in S
BY DEF TheCause

(* What the stages behind EX hold: the results of the instruction in MEM,  *)
(* computed from the registers all older instructions leave.               *)
ExecutedInv ==
    /\ id_ex.valid => id_ex.d = InstOf(id_ex.inst)
    /\ ex_mem.valid =>
         LET d  == ex_mem.d
             v1 == RegsAfterWb[Rs1(d)]
             v2 == RegsAfterWb[Rs2(d)]
             f  == Fetched(ex_mem)
         IN /\ d = InstOf(ex_mem.inst)
            /\ UsesAlu(d) => ex_mem.alu_result = AluResult(d, ex_mem.pc, v1, v2)
            /\ MemWrite(d) => ex_mem.rs2_data = v2
            /\ ex_mem.exception => /\ ex_mem.next_pc = csr["mtvec"]
                                   /\ ex_mem.cause \in TrapCauses(f, v1, v2)
                                                         \cup {CauseInstFault, CauseInstMisaligned}
            /\ ~ex_mem.exception => /\ TrapCauses(f, v1, v2) = {}
                                    /\ ex_mem.next_pc = NextPcOf(f, FALSE, v1, v2, csr)

(* The write back of the instruction in MEM, one edge before it happens. *)
LEMMA RegsCarried ==
    ASSUME CoreClock, BackAdvance(CoreLoadResp, CoreStoreResp)
    PROVE  RegsAfterWb' = RegsAfterMem
<1>1. x' = RegsAfterWb /\ mem_wb' = MemToWb(CoreLoadResp, CoreStoreResp)
  BY DEF CoreClock, PipelineClock, BackAdvance
<1> QED
  BY <1>1 DEF RegsAfterWb, RegsAfterMem, RegWen, RegWrite, HasRd, Rd

LEMMA ExecutedKept ==
    ASSUME ControlInv, OperandsExact, ExecutedInv, CoreClock
    PROVE  ExecutedInv'
<1> DEFINE ld == CoreLoadResp
           st == CoreStoreResp
           fr == IcacheResp(ReqFetchValid(ld, st), ReqFetchAddr)
<1>1. id_ex'.valid => id_ex'.d = InstOf(id_ex'.inst)
  <2>1. FrontHalt \/ FrontMemRedirect(ld, st) \/ FrontExRedirect(ld, st) => ~id_ex'.valid
    BY SquashValid DEF ControlInv, Shape, FrontHalt, FrontMemRedirect, FrontExRedirect
  <2>2. FrontAdvance(fr, ld, st) /\ BackWait(ld, st) /\ ~id_ex.valid => ~id_ex'.valid
    BY DEF FrontAdvance, DecodeClock, BackWait
  <2>3. FrontAdvance(fr, ld, st) /\ BackAdvance(ld, st) /\ id_ex'.valid
          => id_ex'.d = InstOf(id_ex'.inst)
    BY EnterEx DEF BackAdvance, Dec
  <2> QED
    BY <2>1, <2>2, <2>3, ClockCases
<1>2. CASE ~ex_mem'.valid
  BY <1>1, <1>2 DEF ExecutedInv
<1>3. CASE BackWait(ld, st) /\ ex_mem'.valid
  <2>1. ex_mem' = ex_mem /\ ex_mem.valid /\ ~mem_wb'.valid
    BY <1>3, SquashValid DEF BackWait, ControlInv, Shape
  <2>2. x' = RegsAfterWb /\ csr' = csr
    BY <2>1, CsrIsSettled DEF CoreClock, PipelineClock, CsrSettled
  <2>3. RegsAfterWb' = RegsAfterWb
    BY <2>1, <2>2 DEF RegsAfterWb, RegWen
  <2> QED
    BY <1>1, <2>1, <2>2, <2>3, Zenon DEF ExecutedInv, UsesAlu, MemWrite, Fetched, Rs1, Rs2
<1>4. CASE BackAdvance(ld, st) /\ ex_mem'.valid
  <2> DEFINE d == id_ex.d
             w1 == RegsAfterMem[Rs1(d)]
             w2 == RegsAfterMem[Rs2(d)]
  <2>1. ex_mem' = ExToMem
    BY <1>4 DEF BackAdvance
  <2>2. /\ id_ex.valid
        /\ ex_mem'.d = d /\ ex_mem'.pc = id_ex.pc /\ ex_mem'.inst = id_ex.inst
        /\ ex_mem'.alu_result = AluResult(d, id_ex.pc, ExRs1, ExRs2)
        /\ ex_mem'.rs2_data = ExRs2
        /\ ex_mem'.exception = ExException
        /\ ex_mem'.cause = TheCause(ExCauses)
        /\ ex_mem'.next_pc = ExNextPc
    BY <1>4, <2>1 DEF ExToMem
  <2>3. csr' = csr
    BY <2>2, CsrIsSettled DEF CoreClock, PipelineClock, CsrSettled
  <2>4. RegsAfterWb' = RegsAfterMem
    BY <1>4, RegsCarried
  <2>5. (HasRs1(d) => ExRs1 = w1) /\ (HasRs2(d) => ExRs2 = w2)
    BY <2>2 DEF OperandsExact
  <2>6. UsesAlu(d) => AluResult(d, id_ex.pc, ExRs1, ExRs2) = AluResult(d, id_ex.pc, w1, w2)
    BY <2>5, OperandsUsed
  <2>7. /\ ExCauses \subseteq TrapCauses(Fetched(id_ex), w1, w2)
                                \cup {CauseInstFault, CauseInstMisaligned}
        /\ ExCauses = {} => TrapCauses(Fetched(id_ex), w1, w2) = {}
        /\ ExNextPc = NextPcOf(Fetched(id_ex), ExException, w1, w2, csr)
    <3>1. /\ TrapCauses(id_ex, ExRs1, ExRs2) \subseteq
                TrapCauses(Fetched(id_ex), w1, w2) \cup {CauseInstFault, CauseInstMisaligned}
          /\ TrapCauses(id_ex, ExRs1, ExRs2) = {} => TrapCauses(Fetched(id_ex), w1, w2) = {}
      <4> HIDE DEF w1, w2
      <4> QED
        BY <2>5, CausesUsed
    <3>2. NextPcOf(id_ex, ExException, ExRs1, ExRs2, csr)
            = NextPcOf(Fetched(id_ex), ExException, w1, w2, csr)
      <4> HIDE DEF w1, w2
      <4> QED
        BY <2>5, NextPcUsed
    <3> QED
      BY <3>1, <3>2 DEF ExCauses, ExNextPc
  <2>8. MemWrite(d) => ExRs2 = w2
    BY <2>5 DEF MemWrite, HasRs2
  <2>9. ExException => ExNextPc = csr["mtvec"]
    BY DEF ExNextPc, NextPcOf
  <2>10. Fetched(ex_mem)' = Fetched(id_ex)
    BY <2>2 DEF Fetched
  <2>11. ExException => TheCause(ExCauses) \in TrapCauses(Fetched(id_ex), w1, w2)
                                \cup {CauseInstFault, CauseInstMisaligned}
    BY <2>7, TheCauseIn DEF ExException
  <2>12. ~ExException => /\ TrapCauses(Fetched(id_ex), w1, w2) = {}
                         /\ ExNextPc = NextPcOf(Fetched(id_ex), FALSE, w1, w2, csr)
    BY <2>7 DEF ExException
  <2>13. /\ Rs1(ex_mem'.d) = Rs1(d) /\ Rs2(ex_mem'.d) = Rs2(d)
         /\ UsesAlu(ex_mem'.d) = UsesAlu(d) /\ MemWrite(ex_mem'.d) = MemWrite(d)
    BY <2>2
  <2>14. d = InstOf(id_ex.inst)
    BY <2>2 DEF ExecutedInv
  <2> QED
    BY <1>1, <2>2, <2>3, <2>4, <2>6, <2>8, <2>9, <2>10, <2>11, <2>12, <2>14
       DEF ExecutedInv
<1>5. BackHalt \/ BackMemRedirect(ld, st) => ~ex_mem'.valid
  BY SquashValid DEF ControlInv, Shape, BackHalt, BackMemRedirect
<1> QED
  BY <1>2, <1>3, <1>4, <1>5, ClockCases

(* The causes of a trap in MEM are those of the access. *)
LEMMA MemTraps ==
    ASSUME NEW c, c \in MemCauses(CoreLoadResp, CoreStoreResp)
    PROVE  LET a == ex_mem.alu_result
               s == MemSize(ex_mem.d)
           IN \/ c = CauseLoadMisaligned /\ CtrlMemRead /\ ~Aligned(a, s)
              \/ c = CauseLoadFault /\ CtrlMemRead /\ ~ClintAccess /\ MemLoad(mem, a, s).result # "OK"
              \/ c = CauseStoreMisaligned /\ CtrlMemWrite /\ ~Aligned(a, s)
              \/ c = CauseStoreFault /\ CtrlMemWrite /\ ~ClintAccess /\ MemStoreResult(a, s) # "OK"
<1>1. MemMisaligned <=> ~Aligned(ex_mem.alu_result, MemSize(ex_mem.d))
  BY DEF MemMisaligned, LsuMisaligned
<1> QED
  BY <1>1, DataAccess DEF MemCauses

(* An access that does not trap was aligned and answered. *)
LEMMA MemDone ==
    ASSUME ~MemNewException(CoreLoadResp, CoreStoreResp),
           ~MemAccessWait(CoreLoadResp, CoreStoreResp)
    PROVE  LET a == ex_mem.alu_result
               s == MemSize(ex_mem.d)
           IN /\ CtrlMemRead \/ CtrlMemWrite => Aligned(a, s)
              /\ CtrlMemRead /\ ~ClintAccess =>
                    /\ MemLoad(mem, a, s).result = "OK"
                    /\ CoreLoadResp.data = MemLoad(mem, a, s).data
              /\ CtrlMemWrite /\ ~ClintAccess => MemStoreResult(a, s) = "OK"
<1>1. MemMisaligned <=> ~Aligned(ex_mem.alu_result, MemSize(ex_mem.d))
  BY DEF MemMisaligned, LsuMisaligned
<1>2. ~(CtrlMemRead /\ CtrlMemWrite)
  BY OpClasses DEF CtrlMemRead, CtrlMemWrite
<1> QED
  BY <1>1, <1>2, DataAccess DEF MemNewException, MemCauses, MemAccessWait

(* A store that traps does not write. *)
LEMMA FaultingStoreKeeps ==
    ASSUME MemNewException(CoreLoadResp, CoreStoreResp)
    PROVE  MemAfter(WChannel(DataReq)) = mem
<1> DEFINE a == ex_mem.alu_result
           s == MemSize(ex_mem.d)
           data == ExtractNarrow(a, s, StoreWdataShifted(a, s, ex_mem.rs2_data))
<1>1. SUFFICES ASSUME CtrlMemWrite
               PROVE  MemStore(mem, a, s, data) = mem
  BY DataAccess
<1>2. ~CtrlMemRead
  BY <1>1, OpClasses DEF CtrlMemRead, CtrlMemWrite
<1>3. PICK c : c \in MemCauses(CoreLoadResp, CoreStoreResp)
  BY DEF MemNewException
<1>4. ~Aligned(a, s) \/ MemStoreResult(a, s) # "OK"
  BY <1>2, <1>3, MemTraps
<1>5. ~Aligned(a, s) \/ ~InRam(a, s)
  BY <1>4 DEF MemStoreResult
<1> QED
  BY <1>5 DEF MemStore

(* The step of an instruction from MEM to WB is its sequential execution. *)
LEMMA RetireStep ==
    ASSUME ControlInv, ExecutedInv, CoreClock, ex_mem.valid,
           mem_wb' = MemToWb(CoreLoadResp, CoreStoreResp),
           MemNewException(CoreLoadResp, CoreStoreResp)
              \/ ~MemAccessWait(CoreLoadResp, CoreStoreResp)
    PROVE  RetiresAs(mem_wb', x', csr', mem, mem')
<1> DEFINE ld == CoreLoadResp
           st == CoreStoreResp
           i  == mem_wb'
           d  == ex_mem.d
           v1 == RegsAfterWb[Rs1(d)]
           v2 == RegsAfterWb[Rs2(d)]
           a  == AluResult(d, ex_mem.pc, v1, v2)
           s  == MemSize(d)
           f  == Fetched(ex_mem)
           ram == ~InClint(a)
           new == MemNewException(ld, st)
           data == ExtractNarrow(a, s, StoreWdataShifted(a, s, v2))
<1>1. x' = RegsAfterWb /\ csr' = csr
  BY CsrIsSettled DEF CoreClock, PipelineClock, CsrSettled
<1>2. /\ i.valid = ex_mem.valid /\ i.pc = ex_mem.pc /\ i.inst = ex_mem.inst /\ i.d = d
      /\ i.rd_value = MemStageRdValue(ld)
      /\ i.exception = (ex_mem.exception \/ new)
      /\ i.cause = IF new THEN TheCause(MemCauses(ld, st)) ELSE ex_mem.cause
      /\ i.next_pc = IF new THEN csr["mtvec"] ELSE ex_mem.next_pc
  BY DEF MemToWb
<1>3. MemRead(d) \/ MemWrite(d) => UsesAlu(d)
  BY DEF MemRead, MemWrite, UsesAlu
<1>4. UsesAlu(d) => ex_mem.alu_result = a
  BY DEF ExecutedInv
<1>5. MemRead(d) \/ MemWrite(d) => (ClintAccess <=> ~ram)
  BY <1>3, <1>4 DEF ClintAccess
<1>6. CtrlMemRead <=> MemRead(d) /\ ~ex_mem.exception
  BY DEF CtrlMemRead
<1>7. CtrlMemWrite <=> MemWrite(d) /\ ~ex_mem.exception
  BY DEF CtrlMemWrite
<1>8. new => ~ex_mem.exception
  BY DEF MemNewException, MemCauses, CtrlMemRead, CtrlMemWrite
<1>9. mem' = MemAfter(WChannel(DataReq))
  BY DEF CoreClock, FetchPathClock, AxiMemClock
<1>10. mem' = IF MemWrite(d) /\ ram /\ ~i.exception THEN MemStore(mem, a, s, data) ELSE mem
  <2>1. CASE new
    BY <1>2, <1>9, <2>1, FaultingStoreKeeps
  <2>2. CASE ~new /\ ~CtrlMemWrite
    BY <1>2, <1>7, <1>9, <2>2, DataAccess
  <2>3. CASE ~new /\ CtrlMemWrite
    <3>1. ex_mem.alu_result = a /\ ex_mem.rs2_data = v2 /\ (ClintAccess <=> ~ram)
      BY <1>3, <1>4, <1>5, <1>7, <2>3 DEF ExecutedInv
    <3> QED
      BY <1>2, <1>7, <1>9, <2>3, <3>1, DataAccess
  <2> QED
    BY <2>1, <2>2, <2>3
<1>11. ASSUME i.exception
       PROVE  /\ i.next_pc = csr["mtvec"]
              /\ \/ i.cause \in TrapCauses(f, v1, v2) \cup {CauseInstFault, CauseInstMisaligned}
                 \/ i.cause = CauseLoadMisaligned /\ MemRead(d) /\ ~Aligned(a, s)
                 \/ i.cause = CauseLoadFault /\ MemRead(d) /\ ram /\ MemLoad(mem, a, s).result # "OK"
                 \/ i.cause = CauseStoreMisaligned /\ MemWrite(d) /\ ~Aligned(a, s)
                 \/ i.cause = CauseStoreFault /\ MemWrite(d) /\ ram /\ MemStoreResult(a, s) # "OK"
  <2>1. CASE new
    <3>1. i.cause \in MemCauses(ld, st)
      BY <1>2, <2>1, TheCauseIn DEF MemNewException
    <3>2. ex_mem.alu_result = a /\ (ClintAccess <=> ~ram)
      <4>1. MemRead(d) \/ MemWrite(d)
        BY <2>1 DEF MemNewException, MemCauses, CtrlMemRead, CtrlMemWrite
      <4> QED
        BY <1>3, <1>4, <1>5, <4>1
    <3> QED
      BY <1>2, <1>6, <1>7, <2>1, <3>1, <3>2, MemTraps
  <2>2. CASE ~new
    BY <1>2, <1>11, <2>2 DEF ExecutedInv
  <2> QED
    BY <2>1, <2>2
<1>12. ASSUME ~i.exception
       PROVE  /\ TrapCauses(f, v1, v2) = {}
              /\ MemRead(d) \/ MemWrite(d) => Aligned(a, s)
              /\ MemRead(d) /\ ram  => MemLoad(mem, a, s).result = "OK"
              /\ MemWrite(d) /\ ram => MemStoreResult(a, s) = "OK"
              /\ i.next_pc = NextPcOf(f, FALSE, v1, v2, csr)
              /\ RegWrite(d) /\ ~IsCsr(d) /\ ~(MemRead(d) /\ ~ram) =>
                    i.rd_value = CASE MemRead(d) -> LoadFormat(d, MemLoad(mem, a, s).data)
                                   [] IsJump(d)  -> Plus(ex_mem.pc, 4)
                                   [] OTHER      -> a
  <2>1. ~new /\ ~ex_mem.exception
    BY <1>2, <1>12
  <2>2. TrapCauses(f, v1, v2) = {} /\ i.next_pc = NextPcOf(f, FALSE, v1, v2, csr)
    BY <1>2, <2>1 DEF ExecutedInv
  <2>3. /\ MemRead(d) \/ MemWrite(d) => Aligned(a, s)
        /\ MemRead(d) /\ ram  => /\ MemLoad(mem, a, s).result = "OK"
                                 /\ ld.data = MemLoad(mem, a, s).data
        /\ MemWrite(d) /\ ram => MemStoreResult(a, s) = "OK"
    BY <1>3, <1>4, <1>5, <1>6, <1>7, <2>1, MemDone
  <2>4. MemRead(d) /\ ram => i.rd_value = LoadFormat(d, MemLoad(mem, a, s).data)
    BY <1>2, <1>5, <2>3 DEF MemStageRdValue, LoadFinalData
  <2>5. RegWrite(d) /\ ~IsCsr(d) /\ ~MemRead(d)
           => i.rd_value = IF IsJump(d) THEN Plus(ex_mem.pc, 4) ELSE a
    <3>1. RegWrite(d) /\ ~IsCsr(d) /\ ~IsJump(d) => UsesAlu(d)
      BY DEF RegWrite, HasRd, IsCsr, IsJump, UsesAlu
    <3> QED
      BY <1>2, <1>4, <3>1 DEF MemStageRdValue, ExForwardValue
  <2> QED
    BY <2>2, <2>3, <2>4, <2>5, OpClasses
<1>13. d = InstOf(ex_mem.inst)
  BY DEF ExecutedInv
<1>14. f = [pc |-> i.pc, d |-> i.d, fetch_fault |-> FALSE, fetch_misaligned |-> FALSE]
  BY <1>2 DEF Fetched
<1> HIDE DEF i, d, s, f, data, a, v1, v2, ram, new
<1>15. /\ v1 = x'[Rs1(i.d)] /\ v2 = x'[Rs2(i.d)] /\ a = AluResult(i.d, i.pc, v1, v2)
       /\ s = MemSize(i.d) /\ ram = ~InClint(a)
       /\ data = ExtractNarrow(a, s, StoreWdataShifted(a, s, v2))
  BY <1>1, <1>2 DEF v1, v2, a, s, ram, data
<1> QED
  BY <1>1, <1>2, <1>10, <1>11, <1>12, <1>13, <1>14, <1>15 DEF RetiresAs, i

(* The pipeline executes sequentially, for every program and encoding: an  *)
(* instruction that retires has read the registers, CSRs and memory its    *)
(* predecessors leave, and memory changes with retiring stores only.       *)
THEOREM PipelineIsSequential == CoreSpec => RetiresSequentially
<1> DEFINE Step == IF mem_wb'.valid THEN RetiresAs(mem_wb', x', csr', mem, mem') ELSE mem' = mem
           ld == CoreLoadResp
           st == CoreStoreResp
<1>1. (\E image \in Images : CoreInit(image)) => ExecutedInv
  BY DEF CoreInit, PipelineInit, ExecutedInv
<1>2. ControlInv /\ OperandsExact /\ ExecutedInv /\ [CoreClock]_coreVars => ExecutedInv'
  <2>1. CASE UNCHANGED coreVars
    BY <2>1 DEF coreVars, pipeVars, ExecutedInv, RegsAfterWb, RegWen, Fetched
  <2> QED
    BY <2>1, ExecutedKept
<1>3. ControlInv /\ ExecutedInv /\ [CoreClock]_coreVars => [Step]_coreVars
  <2> SUFFICES ASSUME ControlInv, ExecutedInv, CoreClock
                 PROVE  Step
    OBVIOUS
  <2>2. mem' = MemAfter(WChannel(DataReq))
    BY DEF CoreClock, FetchPathClock, AxiMemClock
  <2>3. ~CtrlMemWrite => mem' = mem
    BY <2>2, DataAccess
  <2>4. CASE BackHalt
    <3>1. ~mem_wb'.valid
      BY <2>4, SquashValid DEF BackHalt, ControlInv, Shape
    <3>2. ~CtrlMemWrite
      BY <2>4 DEF BackHalt, WbWillHalt, ControlInv, TrapsAlone, CtrlMemWrite
    <3> QED
      BY <2>3, <3>1, <3>2
  <2>5. CASE BackWait(ld, st)
    <3>1. ~mem_wb'.valid
      BY <2>5, SquashValid DEF BackWait, ControlInv, Shape
    <3>2. ~CtrlMemWrite
      <4>1. CtrlMemWrite /\ ~ClintAccess => ~CtrlMemRead
        BY OpClasses DEF CtrlMemRead, CtrlMemWrite
      <4>2. CtrlMemWrite /\ ~ClintAccess => CoreStoreResp.ready
        BY <4>1 DEF CoreStoreResp, StoreResp, DataStoreActive, DataReq, BChannel, WChannel
      <4> QED
        BY <2>5, <4>1, <4>2 DEF BackWait, MemAccessWait
    <3> QED
      BY <2>3, <3>1, <3>2
  <2>6. CASE BackMemRedirect(ld, st)
    <3>1. mem_wb' = MemToWb(ld, st) /\ MemNewException(ld, st)
      BY <2>6 DEF BackMemRedirect, MemRedirect
    <3>2. ex_mem.valid
      BY <3>1 DEF MemNewException, MemCauses, CtrlMemRead, CtrlMemWrite
    <3>3. mem_wb'.valid
      BY <3>1, <3>2 DEF MemToWb
    <3> QED
      BY <3>1, <3>2, <3>3, RetireStep
  <2>7. CASE BackAdvance(ld, st)
    <3>1. mem_wb' = MemToWb(ld, st) /\ ~MemAccessWait(ld, st)
      BY <2>7 DEF BackAdvance
    <3>2. mem_wb'.valid = ex_mem.valid
      BY <3>1 DEF MemToWb
    <3>3. CASE ex_mem.valid
      BY <3>1, <3>2, <3>3, RetireStep
    <3>4. CASE ~ex_mem.valid
      BY <2>3, <3>2, <3>4 DEF CtrlMemWrite
    <3> QED
      BY <3>3, <3>4
  <2> QED
    BY <2>4, <2>5, <2>6, <2>7 DEF CoreClock, PipelineClock, BackClock
<1> QED
  BY <1>1, <1>2, <1>3, CoreControl, OperandsAreSequential, PTL DEF CoreSpec, RetiresSequentially

----------------------------------------------------------------------------
(* A CSR instruction in WB returns the CSR its predecessors leave, and     *)
(* writes what the operation makes of it and of its operand.               *)
CsrOpExact ==
    mem_wb.valid /\ IsCsr(mem_wb.d) /\ ~mem_wb.exception =>
        LET old == CsrReadData(csr, mem_wb.d.csr)
        IN /\ mem_wb.rd_value = old
           /\ mem_wb.csr_new_value = CsrNewValue(mem_wb.d, x[Rs1(mem_wb.d)], old)
           /\ mem_wb.csr_do_write <=> CsrDoWrite(mem_wb.d)

(* The same of the instruction in MEM. *)
CsrExecuted ==
    ex_mem.valid /\ IsCsr(ex_mem.d) =>
        LET old == CsrReadData(csr, ex_mem.d.csr)
        IN /\ ex_mem.csr_data = old
           /\ ex_mem.csr_new_value = CsrNewValue(ex_mem.d, RegsAfterWb[Rs1(ex_mem.d)], old)
           /\ ex_mem.csr_do_write <=> CsrDoWrite(ex_mem.d)

(* A CSR operation looks at rs1 only if it names it. *)
LEMMA CsrOperandUsed ==
    ASSUME NEW d, NEW v1, NEW w1, NEW old, IsCsr(d), HasRs1(d) => v1 = w1
    PROVE  CsrNewValue(d, v1, old) = CsrNewValue(d, w1, old)
<1>1. CsrOperand(d, v1) = CsrOperand(d, w1)
  BY DEF CsrOperand, IsCsr, CsrOps, HasRs1
<1> QED
  BY <1>1 DEF CsrNewValue

LEMMA CsrExecutedKept ==
    ASSUME ControlInv, OperandsExact, CsrReadCurrent, CsrExecuted, CoreClock
    PROVE  CsrExecuted'
<1> DEFINE ld == CoreLoadResp
           st == CoreStoreResp
           fr == IcacheResp(ReqFetchValid(ld, st), ReqFetchAddr)
<1>1. CASE ~ex_mem'.valid
  BY <1>1 DEF CsrExecuted
<1>2. BackHalt \/ BackMemRedirect(ld, st) => ~ex_mem'.valid
  BY SquashValid DEF ControlInv, Shape, BackHalt, BackMemRedirect
<1>3. CASE BackWait(ld, st) /\ ex_mem'.valid
  <2>1. ex_mem' = ex_mem /\ (MemRead(ex_mem.d) \/ MemWrite(ex_mem.d))
    BY <1>3 DEF BackWait, MemAccessWait, CtrlMemRead, CtrlMemWrite
  <2>2. ~IsCsr(ex_mem'.d)
    BY <1>3, <2>1, OpClasses DEF BackWait
  <2> QED
    BY <2>2 DEF CsrExecuted, IsCsr
<1>4. CASE BackAdvance(ld, st) /\ ex_mem'.valid
  <2> DEFINE d == id_ex.d
             w1 == RegsAfterMem[Rs1(d)]
  <2>1. /\ id_ex.valid /\ ex_mem'.d = d
        /\ ex_mem'.csr_data = id_ex.csr_data
        /\ ex_mem'.csr_new_value = CsrNewValue(d, ExRs1, id_ex.csr_data)
        /\ ex_mem'.csr_do_write = CsrDoWrite(d)
    BY <1>4 DEF BackAdvance, ExToMem
  <2>2. csr' = csr /\ RegsAfterWb' = RegsAfterMem
    BY <1>4, <2>1, CsrIsSettled, RegsCarried DEF CoreClock, PipelineClock, CsrSettled
  <2>3. SUFFICES ASSUME IsCsr(d)
                 PROVE  CsrExecuted'
    BY <2>1 DEF CsrExecuted, IsCsr
  <2>4. id_ex.csr_data = CsrReadData(csr, d.csr)
    BY <2>1, <2>3 DEF CsrReadCurrent
  <2>5. HasRs1(d) => ExRs1 = w1
    BY <2>1 DEF OperandsExact
  <2>6. CsrNewValue(d, ExRs1, id_ex.csr_data) = CsrNewValue(d, w1, id_ex.csr_data)
    <3> HIDE DEF w1
    <3> QED
      BY <2>3, <2>5, CsrOperandUsed
  <2>7. Rs1(ex_mem'.d) = Rs1(d)
    BY <2>1
  <2> QED
    BY <2>1, <2>2, <2>4, <2>6 DEF CsrExecuted
<1> QED
  BY <1>1, <1>2, <1>3, <1>4, ClockCases

LEMMA CsrOpKept ==
    ASSUME ControlInv, CsrExecuted, CoreClock
    PROVE  CsrOpExact'
<1> DEFINE ld == CoreLoadResp
           st == CoreStoreResp
<1>1. CASE ~mem_wb'.valid
  BY <1>1 DEF CsrOpExact
<1>2. BackHalt \/ BackWait(ld, st) => ~mem_wb'.valid
  BY SquashValid DEF ControlInv, Shape, BackHalt, BackWait
<1>3. CASE mem_wb' = MemToWb(ld, st) /\ mem_wb'.valid
  <2>1. /\ ex_mem.valid /\ mem_wb'.d = ex_mem.d
        /\ mem_wb'.rd_value = MemStageRdValue(ld)
        /\ mem_wb'.csr_new_value = ex_mem.csr_new_value
        /\ mem_wb'.csr_do_write = ex_mem.csr_do_write
    BY <1>3 DEF MemToWb
  <2>2. x' = RegsAfterWb /\ csr' = csr
    BY <2>1, CsrIsSettled DEF CoreClock, PipelineClock, CsrSettled
  <2>3. SUFFICES ASSUME IsCsr(ex_mem.d)
                 PROVE  CsrOpExact'
    BY <2>1 DEF CsrOpExact, IsCsr
  <2>4. MemStageRdValue(ld) = ex_mem.csr_data
    <3>1. ~MemRead(ex_mem.d) /\ ~IsJump(ex_mem.d)
      BY <2>3, OpClasses
    <3> QED
      BY <2>3, <3>1 DEF MemStageRdValue, ExForwardValue
  <2> QED
    BY <2>1, <2>2, <2>3, <2>4 DEF CsrOpExact, CsrExecuted
<1>4. BackMemRedirect(ld, st) \/ BackAdvance(ld, st) => mem_wb' = MemToWb(ld, st)
  BY DEF BackMemRedirect, BackAdvance
<1>5. BackClock(ld, st)
  BY DEF CoreClock, PipelineClock
<1> QED
  BY <1>1, <1>2, <1>3, <1>4, <1>5 DEF BackClock

(* CSR instructions retire with the value a sequential machine reads and   *)
(* writes, if no trap commits in the cycle in which one reads mepc or      *)
(* mcause in ID.                                                           *)
THEOREM CsrOpsAreSequential == CoreSpec /\ []~TrapAtCsrRead => []CsrOpExact
<1>1. (\E image \in Images : CoreInit(image)) => CsrExecuted /\ CsrOpExact
  BY DEF CoreInit, PipelineInit, CsrExecuted, CsrOpExact
<1>2. /\ ControlInv /\ OperandsExact /\ CsrReadCurrent /\ CsrExecuted /\ [CoreClock]_coreVars
           => CsrExecuted'
      /\ ControlInv /\ CsrExecuted /\ CsrOpExact /\ [CoreClock]_coreVars => CsrOpExact'
  <2>1. CASE UNCHANGED coreVars
    BY <2>1 DEF coreVars, pipeVars, CsrExecuted, CsrOpExact, RegsAfterWb, RegWen
  <2> QED
    BY <2>1, CsrExecutedKept, CsrOpKept
<1> QED
  BY <1>1, <1>2, CoreControl, OperandsAreSequential, CsrReadsAreCurrent, PTL DEF CoreSpec
=============================================================================
