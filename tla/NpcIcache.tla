----------------------------- MODULE NpcIcache -----------------------------
(***************************************************************************)
(* The instruction cache, core/rtl/npc_icache.v: two direct-mapped lines   *)
(* of four words, filled by a four-beat burst.  Hits answer in the cycle   *)
(* of the lookup; a miss goes IDLE -> REQ -> DATA -> IDLE and the lookup   *)
(* that is still pending then hits, or, when the burst faulted, is         *)
(* answered by one cycle of fault_resp_valid.                              *)
(*                                                                         *)
(* The registers miss_tag, miss_index and miss_word are always those of    *)
(* miss_addr, and are written so here.  The four performance counters feed *)
(* nothing and are left out.                                               *)
(***************************************************************************)
EXTENDS NpcDefs

VARIABLES ic_state,           \* STATE_IDLE, STATE_REQ or STATE_DATA
          line_valid,         \* valid0, valid1
          line_tag,           \* tag0, tag1
          line_data,          \* data<i>_word<w>
          miss_addr,          \* the address whose line is being filled
          fill_beat,          \* beats of the burst received so far
          fill_fault_seen,    \* one of them faulted
          fill_word,          \* their data
          fault_resp_valid    \* the last burst faulted: answer the lookup

icVars == <<ic_state, line_valid, line_tag, line_data, miss_addr, fill_beat,
            fill_fault_seen, fill_word, fault_resp_valid>>

Tag(a)      == a \div 32
Index(a)    == (a \div 16) % 2
WordIn(a)   == (a \div 4) % 4
LineBase(a) == a - (a % 16)

(* Address of word w of the line with tag t at index i. *)
LineWordAddr(t, i, w) == 32 * t + 16 * i + 4 * w

NoWords == [w \in 0..3 |-> 0]

IcacheInit ==
    /\ ic_state = "IDLE"
    /\ line_valid = [i \in 0..1 |-> FALSE]
    /\ line_tag = [i \in 0..1 |-> 0]
    /\ line_data = [i \in 0..1 |-> NoWords]
    /\ miss_addr = 0
    /\ fill_beat = 0
    /\ fill_fault_seen = FALSE
    /\ fill_word = NoWords
    /\ fault_resp_valid = FALSE

----------------------------------------------------------------------------
(* Combinational answers to a lookup (lv, la). *)

Hit(lv, la) == /\ lv
               /\ Aligned(la, 4)
               /\ ic_state = "IDLE"
               /\ line_valid[Index(la)]
               /\ line_tag[Index(la)] = Tag(la)

RespMisaligned(lv, la) == lv /\ ~Aligned(la, 4) /\ ic_state = "IDLE"

(* What the pipeline sees: resp_inst is the word of the line on a hit and  *)
(* otherwise whatever the fill buffer holds for the missed word, and       *)
(* resp_fault depends on fault_resp_valid alone, not on the address looked *)
(* up in this cycle.                                                       *)
IcacheResp(lv, la) ==
    [valid      |-> RespMisaligned(lv, la) \/ Hit(lv, la) \/ fault_resp_valid,
     inst       |-> IF Hit(lv, la) THEN line_data[Index(la)][WordIn(la)]
                                   ELSE fill_word[WordIn(miss_addr)],
     fault      |-> fault_resp_valid,
     misaligned |-> RespMisaligned(lv, la)]

FillReqValid == ic_state = "REQ"
FillReqAddr  == LineBase(miss_addr)

----------------------------------------------------------------------------
(* The clock edge, by state.  flush is fence_i_commit; beat is the answer  *)
(* of the AXI master, a record with fields valid, data, last and fault.    *)

FlushedValid(flush) == IF flush THEN [i \in 0..1 |-> FALSE] ELSE line_valid

(* Mutant: a new miss does not clear the fault of the last one. *)
IcacheIdleKeepFault(flush, lv, la) ==
    /\ ic_state = "IDLE"
    /\ fault_resp_valid' = FALSE
    /\ line_valid' = FlushedValid(flush)
    /\ UNCHANGED <<line_tag, line_data, fill_fault_seen>>
    /\ IF lv /\ ~fault_resp_valid /\ Aligned(la, 4) /\ ~Hit(lv, la)
       THEN ic_state' = "REQ" /\ miss_addr' = la /\ fill_beat' = 0 /\ fill_word' = NoWords
       ELSE UNCHANGED <<ic_state, miss_addr, fill_beat, fill_word>>

IcacheIdle(flush, lv, la) ==
    /\ ic_state = "IDLE"
    /\ fault_resp_valid' = FALSE
    /\ line_valid' = FlushedValid(flush)
    /\ UNCHANGED <<line_tag, line_data>>
    /\ IF lv /\ ~fault_resp_valid /\ Aligned(la, 4) /\ ~Hit(lv, la)
       THEN /\ ic_state' = "REQ"
            /\ miss_addr' = la
            /\ fill_beat' = 0
            /\ fill_fault_seen' = FALSE
            /\ fill_word' = NoWords
       ELSE UNCHANGED <<ic_state, miss_addr, fill_beat, fill_fault_seen, fill_word>>

IcacheReq(flush, ready) ==
    /\ ic_state = "REQ"
    /\ fault_resp_valid' = FALSE
    /\ line_valid' = FlushedValid(flush)
    /\ ic_state' = IF ready THEN "DATA" ELSE "REQ"
    /\ UNCHANGED <<line_tag, line_data, miss_addr, fill_beat, fill_fault_seen, fill_word>>

(* Mutant: the last beat does not reach the line. *)
InstallLineShort(flush, beat) ==
    LET i == Index(miss_addr)
    IN /\ line_valid' = [FlushedValid(flush) EXCEPT ![i] = TRUE]
       /\ line_tag' = [line_tag EXCEPT ![i] = Tag(miss_addr)]
       /\ line_data' = [line_data EXCEPT ![i] = fill_word]
       /\ fault_resp_valid' = FALSE

(* A burst that ends well installs its line even in the cycle of a flush.  *)
InstallLine(flush, beat) ==
    LET i == Index(miss_addr)
    IN /\ line_valid' = [FlushedValid(flush) EXCEPT ![i] = TRUE]
       /\ line_tag' = [line_tag EXCEPT ![i] = Tag(miss_addr)]
       /\ line_data' = [line_data EXCEPT
                            ![i] = [fill_word EXCEPT ![fill_beat] = beat.data]]
       /\ fault_resp_valid' = FALSE

IcacheData(flush, beat) ==
    /\ ic_state = "DATA"
    /\ UNCHANGED miss_addr
    /\ \/ /\ ~beat.valid
          /\ fault_resp_valid' = FALSE
          /\ line_valid' = FlushedValid(flush)
          /\ UNCHANGED <<ic_state, line_tag, line_data, fill_beat, fill_fault_seen, fill_word>>
       \/ /\ beat.valid
          /\ fill_word' = [fill_word EXCEPT ![fill_beat] = beat.data]
          /\ fill_fault_seen' = (fill_fault_seen \/ beat.fault)
          /\ ic_state' = IF beat.last THEN "IDLE" ELSE "DATA"
          /\ fill_beat' = IF beat.last THEN fill_beat ELSE (fill_beat + 1) % 4
          /\ IF beat.last /\ ~(fill_fault_seen \/ beat.fault)
             THEN InstallLine(flush, beat)
             ELSE /\ fault_resp_valid' = beat.last
                  /\ line_valid' = FlushedValid(flush)
                  /\ UNCHANGED <<line_tag, line_data>>

IcacheClock(flush, lv, la, ready, beat) ==
    \/ IcacheIdle(flush, lv, la)
    \/ IcacheReq(flush, ready)
    \/ IcacheData(flush, beat)

IcacheTypeOK ==
    /\ ic_state \in {"IDLE", "REQ", "DATA"}
    /\ line_valid \in [0..1 -> BOOLEAN]
    /\ line_tag \in [0..1 -> Nat]
    /\ line_data \in [0..1 -> [0..3 -> Word]]
    /\ miss_addr \in Addr
    /\ fill_beat \in 0..3
    /\ fill_fault_seen \in BOOLEAN
    /\ fill_word \in [0..3 -> Word]
    /\ fault_resp_valid \in BOOLEAN
=============================================================================
