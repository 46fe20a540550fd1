---------------------------- MODULE NpcAxiMaster ----------------------------
(***************************************************************************)
(* The AXI master, core/rtl/npc_axi_master.v.  A line fill is a burst of   *)
(* four reads (IDLE -> IF_AR -> IF_R -> IDLE).  A load is driven onto the  *)
(* read channels combinationally and only while the state is IDLE, so it   *)
(* waits for a fill in progress; a store is driven onto the write channels *)
(* in any state.  The states DATA_AR, DATA_R, DATA_W and DATA_B of the     *)
(* source are never entered.                                               *)
(***************************************************************************)
EXTENDS NpcDefs

VARIABLES axi_state,    \* STATE_IDLE, STATE_IF_AR or STATE_IF_R
          addr_reg      \* address of the burst

axiVars == <<axi_state, addr_reg>>

AxiInit == axi_state = "IDLE" /\ addr_reg = 0

(* A data request of the load/store unit.  The two valid lines come from   *)
(* one instruction, so at most one of them is up.                          *)
NoReq == [load |-> FALSE, store |-> FALSE, addr |-> 0, size |-> 4, data |-> 0]

DataLoadActive(req)  == axi_state = "IDLE" /\ req.load
DataStoreActive(req) == ~req.load /\ req.store
StartFetch(req, fillReq) ==
    axi_state = "IDLE" /\ ~req.load /\ ~req.store /\ fillReq

ReqFetchReady(arready) == axi_state = "IF_AR" /\ arready

(* The read address channel: a load has id 1 and one beat, a fill id 0 and *)
(* four.                                                                   *)
ArChannel(req) ==
    [valid |-> axi_state = "IF_AR" \/ DataLoadActive(req),
     addr  |-> IF DataLoadActive(req) THEN req.addr ELSE addr_reg,
     id    |-> IF DataLoadActive(req) THEN 1 ELSE 0,
     beats |-> IF axi_state = "IF_AR" THEN 4 ELSE 1,
     size  |-> IF DataLoadActive(req) THEN req.size ELSE 4]

RReady(req) == axi_state = "IF_R" \/ DataLoadActive(req)

(* store_wdata_shifted: the field is replicated across the word and        *)
(* shifted to its byte lane, losing what leaves the word.                  *)
StoreWdataShifted(a, s, data) ==
    CASE s = 1 -> ((data % ByteMod) * (1 + ByteMod + HalfMod + HalfMod * ByteMod)
                     * Shift(a % 4)) % WordMod
      [] s = 2 -> ((data % HalfMod) * (1 + HalfMod) * Shift(a % 4)) % WordMod
      [] OTHER -> data

WChannel(req) ==
    [valid |-> DataStoreActive(req), addr |-> req.addr, size |-> req.size,
     data |-> StoreWdataShifted(req.addr, req.size, req.data)]

(* The answers to the cache and to the load/store unit.  r and b are the   *)
(* read and write response channels.                                       *)
FillBeat(r) ==
    LET beat == axi_state = "IF_R" /\ r.valid /\ r.id = 0
    IN [valid |-> beat, data |-> r.data, last |-> r.last, fault |-> beat /\ r.fault]

LoadResp(req, r) ==
    LET ready == DataLoadActive(req) /\ r.valid /\ r.id = 1
    IN [ready |-> ready,
        data  |-> IF DataLoadActive(req) THEN r.data ELSE 0,
        fault |-> ready /\ r.fault]

StoreResp(req, b) ==
    LET ready == DataStoreActive(req) /\ b.valid /\ b.id = 1
    IN [ready |-> ready, fault |-> ready /\ b.fault]

AxiIdle(req, fillReq, fillAddr) ==
    /\ axi_state = "IDLE"
    /\ IF StartFetch(req, fillReq)
       THEN axi_state' = "IF_AR" /\ addr_reg' = fillAddr
       ELSE UNCHANGED axiVars

AxiFetchAddr(arready) ==
    /\ axi_state = "IF_AR"
    /\ axi_state' = IF arready THEN "IF_R" ELSE "IF_AR"
    /\ UNCHANGED addr_reg

(* Mutant: the first beat ends the burst. *)
AxiFetchDataOneBeat(r) ==
    /\ axi_state = "IF_R"
    /\ axi_state' = IF FillBeat(r).valid THEN "IDLE" ELSE "IF_R"
    /\ UNCHANGED addr_reg

AxiFetchData(r) ==
    /\ axi_state = "IF_R"
    /\ axi_state' = IF FillBeat(r).valid /\ r.last THEN "IDLE" ELSE "IF_R"
    /\ UNCHANGED addr_reg

AxiClock(req, fillReq, fillAddr, arready, r) ==
    \/ AxiIdle(req, fillReq, fillAddr)
    \/ AxiFetchAddr(arready)
    \/ AxiFetchData(r)

AxiTypeOK == axi_state \in {"IDLE", "IF_AR", "IF_R"} /\ addr_reg \in Addr
=============================================================================
