----------------------------- MODULE AxiMemory -----------------------------
(***************************************************************************)
(* The memory behind the AXI port as the Verilator wrapper drives it,      *)
(* emulator/src/rtl_iss.cpp.  Reads with id 1 (loads) and writes are       *)
(* answered in the cycle they are driven; a burst with id 0 (a line fill)  *)
(* is latched and its first beat follows after ReadWait cycles.            *)
(*                                                                         *)
(* drive_axi_memory runs after every evaluation of the model, so a store   *)
(* that has reached the MEM stage is in memory before the fill beat of the *)
(* same cycle is read: beats read the memory the store leaves.             *)
(***************************************************************************)
EXTENDS NpcDefs

VARIABLES mem,               \* memory_
          read_active,       \* read_active_
          read_wait,         \* read_wait_cycles_
          read_addr,         \* read_addr_
          read_beats_left    \* read_beats_left_

axiMemVars == <<mem, read_active, read_wait, read_addr, read_beats_left>>

ReadWait == 2

AxiMemInit(image) ==
    /\ mem = image
    /\ read_active = FALSE
    /\ read_wait = 0
    /\ read_addr = 0
    /\ read_beats_left = 0

ArReady == TRUE

(* toggle_clock counts the wait down before it evaluates the cycle. *)
WaitNow == IF read_wait = 0 THEN 0 ELSE read_wait - 1

(* Mutant: the byte lane is not shifted down. *)
ExtractNarrowUnshifted(a, s, wdata) == wdata % SizeMod(s)

(* extract_narrow_write_data *)
ExtractNarrow(a, s, wdata) ==
    IF s = 4 THEN wdata ELSE (wdata \div Shift(a % 4)) % SizeMod(s)

(* The memory once this cycle's write is in it, and the write response. *)
MemAfter(w) ==
    IF w.valid THEN MemStore(mem, w.addr, w.size, ExtractNarrow(w.addr, w.size, w.data))
               ELSE mem

BChannel(w) ==
    [valid |-> w.valid, id |-> 1,
     fault |-> w.valid /\ MemStoreResult(w.addr, w.size) # "OK"]

(* The read data channel: a load is answered first, then the burst. *)
RChannel(ar, m) ==
    LET load == MemLoad(m, ar.addr, ar.size)
        word == MemFetch(m, read_addr)
    IN IF ar.valid /\ ar.id = 1
       THEN [valid |-> TRUE, id |-> 1, last |-> TRUE, data |-> load.data,
             fault |-> load.result # "OK"]
       ELSE IF read_active /\ WaitNow = 0
       THEN [valid |-> TRUE, id |-> 0, last |-> read_beats_left = 1, data |-> word.data,
             fault |-> word.result # "OK"]
       ELSE [valid |-> FALSE, id |-> 0, last |-> FALSE, data |-> 0, fault |-> FALSE]

(* The clock edge: a beat taken by the master advances the burst, an       *)
(* accepted burst address starts a new one.                                *)
AxiMemClock(ar, rready, w) ==
    LET taken    == RChannel(ar, MemAfter(w)).valid /\ rready /\ read_active
        accepted == ar.valid /\ ArReady /\ ar.id = 0
    IN /\ mem' = MemAfter(w)
       /\ IF accepted
          THEN /\ read_active' = TRUE
               /\ read_wait' = ReadWait
               /\ read_addr' = ar.addr
               /\ read_beats_left' = ar.beats
          ELSE /\ read_wait' = WaitNow
               /\ read_active' = (read_active /\ ~(taken /\ read_beats_left = 1))
               /\ read_beats_left' = IF taken THEN read_beats_left - 1 ELSE read_beats_left
               /\ read_addr' = IF taken /\ read_beats_left # 1 THEN read_addr + 4 ELSE read_addr

AxiMemTypeOK ==
    /\ mem \in [RamWords -> Word]
    /\ read_active \in BOOLEAN
    /\ read_wait \in 0..ReadWait
    /\ read_addr \in Addr
    /\ read_beats_left \in 0..4
=============================================================================
