------------------------------ MODULE MemSide ------------------------------
(***************************************************************************)
(* The memory side of the core: instruction cache, AXI master and memory   *)
(* in lock step, wired as in core/rtl/npc_core.v.  FetchPathClock is one   *)
(* clock edge of the three for given outputs of the pipeline.              *)
(***************************************************************************)
EXTENDS NpcIcache, NpcAxiMaster, AxiMemory

(* The read data seen in this cycle, for a data request req. *)
RData(req) == RChannel(ArChannel(req), MemAfter(WChannel(req)))

FetchPathClock(flush, lv, la, req) ==
    /\ IcacheClock(flush, lv, la, ReqFetchReady(ArReady), FillBeat(RData(req)))
    /\ AxiClock(req, FillReqValid, FillReqAddr, ArReady, RData(req))
    /\ AxiMemClock(ArChannel(req), RReady(req), WChannel(req))
=============================================================================
