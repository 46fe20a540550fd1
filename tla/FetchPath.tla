----------------------------- MODULE FetchPath -----------------------------
(***************************************************************************)
(* The memory side of the core driven with every sequence of lookups,      *)
(* flushes, loads and stores: what it shows does not depend on how the     *)
(* pipeline behaves.                                                       *)
(***************************************************************************)
EXTENDS MemSide

CONSTANTS FetchAddrs,   \* addresses the pipeline may look up
          DataAddrs,    \* addresses it may load from and store to
          StoreSizes,   \* sizes of the stores
          StoreData,    \* values it may store
          Images        \* initial contents of memory

ASSUME FetchPathAssumption ==
    /\ FetchAddrs \subseteq Addr
    /\ DataAddrs \subseteq Addr
    /\ StoreSizes \subseteq Size
    /\ StoreData \subseteq Word
    /\ Images \subseteq [RamWords -> Word]

(* the contents of memory the model checker starts from: each word is      *)
(* different, so that a word in the wrong place shows                      *)
DistinctWords == {[a \in RamWords |-> a \div 4]}

(* History variable: the words stored to since the cache was last emptied  *)
(* with no burst on the way.  It constrains nothing.                       *)
VARIABLE dirty

vars == <<icVars, axiVars, axiMemVars, dirty>>

Init == /\ IcacheInit
        /\ AxiInit
        /\ \E image \in Images : AxiMemInit(image)
        /\ dirty = {}

StoredWords(req) ==
    IF DataStoreActive(req) /\ Aligned(req.addr, req.size) /\ InRam(req.addr, req.size)
    THEN {WordAddr(req.addr)} ELSE {}

Clock(flush, lv, la, req) ==
    /\ FetchPathClock(flush, lv, la, req)
    /\ dirty' = IF flush /\ ic_state # "DATA" THEN {} ELSE dirty \cup StoredWords(req)

(* A request of the load/store unit.  The size of a load does not matter   *)
(* to the state of the fetch path.                                         *)
Reqs == {NoReq}
          \cup [load : {TRUE}, store : {FALSE}, addr : DataAddrs, size : {4}, data : {0}]
          \cup [load : {FALSE}, store : {TRUE}, addr : DataAddrs, size : StoreSizes,
                data : StoreData]

Next == \E flush \in BOOLEAN, lv \in BOOLEAN, la \in FetchAddrs, req \in Reqs :
            Clock(flush, lv, la, req)

Spec == Init /\ [][Next]_vars

----------------------------------------------------------------------------
(* Every register has its type. *)
TypeOK == IcacheTypeOK /\ AxiTypeOK /\ AxiMemTypeOK /\ dirty \subseteq RamWords

(* The three state machines of a line fill (npc_icache.v, npc_axi_master.v *)
(* and the burst of rtl_iss.cpp) never lose step: the cache waits for      *)
(* beats exactly while a burst is active, the beats still to come are the  *)
(* words the cache has not got, at their addresses, and no burst is left   *)
(* over that a later load or fill could mistake for its own answer.        *)
BurstInStep ==
    \/ /\ ic_state = "IDLE" /\ axi_state = "IDLE" /\ ~read_active
    \/ /\ ic_state = "REQ" /\ axi_state = "IDLE" /\ ~read_active /\ fill_beat = 0
    \/ /\ ic_state = "REQ" /\ axi_state = "IF_AR" /\ ~read_active /\ fill_beat = 0
       /\ addr_reg = LineBase(miss_addr)
    \/ /\ ic_state = "DATA" /\ axi_state = "IF_R" /\ read_active
       /\ read_beats_left = 4 - fill_beat
       /\ read_addr = LineBase(miss_addr) + 4 * fill_beat

(* A word of a valid line is the word of RAM at its address, unless that   *)
(* word was stored to since the last flush that met no burst (fence.i is   *)
(* how software says it has done so).  In particular a line of which any   *)
(* word is outside RAM, whose burst faulted, is never valid.               *)
LinesCoherent ==
    \A i \in 0..1, w \in 0..3 :
        line_valid[i] =>
            LET a == LineWordAddr(line_tag[i], i, w)
            IN a \in RamWords /\ (a \in dirty \/ line_data[i][w] = mem[a])

(* The words collected so far are those of RAM likewise, until one faults. *)
FillCoherent ==
    ic_state = "DATA" /\ ~fill_fault_seen =>
        \A w \in 0..3 : w < fill_beat =>
            LET a == LineBase(miss_addr) + 4 * w
            IN a \in RamWords /\ (a \in dirty \/ fill_word[w] = mem[a])

(* The inductive strengthening of LinesCoherent. *)
FetchInv == TypeOK /\ BurstInStep /\ LinesCoherent /\ FillCoherent

(* A fault is reported only for a line that is really not all RAM. *)
FaultIsReal ==
    fault_resp_valid =>
        \E w \in 0..3 : LineBase(miss_addr) + 4 * w \notin RamWords
=============================================================================
