-------------------------- MODULE FetchPathProofs --------------------------
(***************************************************************************)
(* Proofs about FetchPath, for every memory map, byte width, memory        *)
(* contents and sequence of requests: the bursts stay in step and valid    *)
(* lines hold what RAM holds.                                              *)
(***************************************************************************)
EXTENDS FetchPath, TLAPS

(* The type of a request. *)
ReqType == [load : BOOLEAN, store : BOOLEAN, addr : Addr, size : Size, data : Word]

(* Arithmetic of lines: a line base is a multiple of 16, and a line is     *)
(* determined by its tag and index.                                        *)
LEMMA LineArithmetic ==
    ASSUME NEW a \in Addr
    PROVE  /\ LineBase(a) \in Addr
           /\ LineBase(a) % 4 = 0
           /\ LineBase(a) = LineWordAddr(Tag(a), Index(a), 0)
           /\ LineBase(a) + 12 \in Addr
           /\ Tag(a) \in Nat
           /\ Index(a) \in 0..1
           /\ WordIn(a) \in 0..3
<1>1. PICK q \in Int : WordMod = 32 * q
  BY MemoryMapAssumption
<1>2. /\ a \in Int /\ 0 <= a /\ a < WordMod /\ WordMod \in Int
  BY MemoryMapAssumption DEF Addr, Word
<1> QED
  BY <1>1, <1>2 DEF LineBase, LineWordAddr, Tag, Index, WordIn, Addr, Word

(* The words RAM holds are the aligned addresses whose four bytes are in   *)
(* range, which is what the fetch of a burst tests.                        *)
LEMMA RamWordsFetch ==
    ASSUME NEW a \in Addr, a % 4 = 0
    PROVE  InRam(a, 4) <=> a \in RamWords
<1>1. /\ RamBase \in Int /\ RamSize \in Int /\ RamBase % 4 = 0 /\ RamSize % 4 = 0
      /\ a \in Int /\ WordMod \in Int
  BY MemoryMapAssumption DEF Addr, Word
<1> QED
  BY <1>1 DEF InRam, RamWords

(* Widths and lane weights are positive whatever the byte width. *)
LEMMA ConstantTypes ==
    /\ 0 \in Word
    /\ WordMod \in Nat /\ WordMod > 0
    /\ ByteMod \in Nat \ {0} /\ HalfMod \in Nat \ {0}
    /\ \A o \in Int : Shift(o) \in Nat \ {0}
    /\ \A s \in Size : SizeMod(s) \in Nat \ {0}
<1>1. ByteMod \in Nat \ {0} /\ HalfMod \in Nat \ {0}
  BY MemoryMapAssumption DEF HalfMod
<1>2. WordMod \in Nat /\ WordMod > 0
  BY <1>1, MemoryMapAssumption DEF WordMod
<1>3. HalfMod * ByteMod \in Nat \ {0}
  BY <1>1
<1> QED
  BY <1>1, <1>2, <1>3 DEF Shift, SizeMod, Word, Size

(* The reset values of the registers have their types. *)
LEMMA ZeroTyped == 0 \in Word /\ 0 \in Addr /\ NoWords \in [0..3 -> Word]
BY ConstantTypes DEF NoWords, Addr

(* The requests Next enumerates are requests of the load/store unit, and   *)
(* never a load and a store at once.                                       *)
LEMMA ReqsTyped ==
    ASSUME NEW req \in Reqs
    PROVE  req \in ReqType /\ ~(req.load /\ req.store)
<1> USE FetchPathAssumption, ConstantTypes DEF ReqType, Addr, Size
<1>1. CASE req = NoReq
  BY <1>1 DEF NoReq
<1>2. CASE req \in [load : {TRUE}, store : {FALSE}, addr : DataAddrs, size : {4}, data : {0}]
  BY <1>2
<1>3. CASE req \in [load : {FALSE}, store : {TRUE}, addr : DataAddrs, size : StoreSizes,
                    data : StoreData]
  BY <1>3
<1> QED
  BY <1>1, <1>2, <1>3 DEF Reqs

(* A store changes RAM at most at the word that StoredWords names. *)
LEMMA StoreEffect ==
    ASSUME NEW req \in Reqs, mem \in [RamWords -> Word]
    PROVE  /\ MemAfter(WChannel(req)) \in [RamWords -> Word]
           /\ StoredWords(req) \subseteq RamWords
           /\ \A a \in RamWords : a \notin StoredWords(req) =>
                                      MemAfter(WChannel(req))[a] = mem[a]
<1> DEFINE w == WChannel(req)
           d == ExtractNarrow(w.addr, w.size, w.data)
<1>1. /\ w.valid = DataStoreActive(req) /\ w.addr = req.addr /\ w.size = req.size
  BY DEF WChannel
<1>2. /\ req.addr \in Int /\ req.addr >= 0 /\ req.size \in Size
  BY ReqsTyped, ConstantTypes DEF ReqType, Addr, Word
<1>3. ASSUME Aligned(req.addr, req.size), InRam(req.addr, req.size)
      PROVE  WordAddr(req.addr) \in RamWords
  BY <1>2, <1>3, MemoryMapAssumption DEF Aligned, InRam, WordAddr, RamWords, Size
<1>4. ASSUME NEW old \in Word
      PROVE  MergeField(old, req.addr, req.size, d) \in Word
  <2>1. w.data \in Int
    <3>1. req.data \in Int
      BY ReqsTyped, ConstantTypes DEF ReqType, Word
    <3> QED
      BY <3>1, <1>2, ConstantTypes DEF WChannel, StoreWdataShifted, Size
  <2>2. d \in Int
    BY <2>1, <1>1, <1>2, ConstantTypes DEF ExtractNarrow
  <2>3. MergeField(old, req.addr, req.size, d) = 
            (old + ((d % SizeMod(req.size))
                      - ((old \div Shift(req.addr % 4)) % SizeMod(req.size)))
                     * Shift(req.addr % 4)) % WordMod
    BY DEF MergeField
  <2> QED
    BY <2>2, <2>3, <1>2, ConstantTypes, SMTT(20) DEF Word
<1> QED
  BY <1>1, <1>3, <1>4 DEF MemAfter, MemStore, StoredWords

(* The read address channel in each state. *)
LEMMA ArFields ==
    ASSUME NEW req
    PROVE  /\ axi_state = "IDLE" /\ ~req.load => ~ArChannel(req).valid
           /\ axi_state = "IDLE" /\ req.load => ArChannel(req).id = 1
           /\ axi_state = "IF_R" => ~ArChannel(req).valid
           /\ axi_state = "IF_AR" => /\ ArChannel(req).valid /\ ArChannel(req).id = 0
                                     /\ ArChannel(req).addr = addr_reg
                                     /\ ArChannel(req).beats = 4
BY DEF ArChannel, DataLoadActive

(* The fields of a fill beat. *)
LEMMA FillBeatFields ==
    ASSUME NEW r
    PROVE  /\ FillBeat(r).valid <=> (axi_state = "IF_R" /\ r.valid /\ r.id = 0)
           /\ FillBeat(r).data = r.data
           /\ FillBeat(r).last = r.last
           /\ FillBeat(r).fault <=> (axi_state = "IF_R" /\ r.valid /\ r.id = 0 /\ r.fault)
BY DEF FillBeat

(* While the cache collects a burst, a beat is the next word of the line:  *)
(* its data is RAM as this cycle's store leaves it, it faults when there   *)
(* is no such word, and it is the last one when three came before.         *)
LEMMA BeatOfBurst ==
    ASSUME FetchInv, NEW req \in Reqs, ic_state = "DATA"
    PROVE  LET beat == FillBeat(RData(req))
           IN /\ read_addr = LineBase(miss_addr) + 4 * fill_beat
              /\ read_addr \in Addr
              /\ beat.valid <=> RData(req).valid
              /\ beat.valid <=> WaitNow = 0
              /\ beat.valid => /\ (beat.last <=> fill_beat = 3)
                               /\ (beat.last <=> RData(req).last)
                               /\ (beat.fault <=> read_addr \notin RamWords)
                               /\ beat.data \in Word
                               /\ ~beat.fault => beat.data = MemAfter(WChannel(req))[read_addr]
<1> DEFINE m == MemAfter(WChannel(req))
<1>1. /\ axi_state = "IF_R" /\ read_active
      /\ read_beats_left = 4 - fill_beat /\ fill_beat \in 0..3
      /\ read_addr = LineBase(miss_addr) + 4 * fill_beat
      /\ miss_addr \in Addr
  BY DEF FetchInv, TypeOK, IcacheTypeOK, BurstInStep
<1>2. read_addr \in Addr /\ read_addr % 4 = 0
  BY <1>1, LineArithmetic, ConstantTypes DEF Addr, Word
<1>3. m \in [RamWords -> Word]
  BY StoreEffect DEF FetchInv, TypeOK, AxiMemTypeOK
<1>4. ~ArChannel(req).valid /\ ~DataLoadActive(req)
  BY <1>1, ArFields DEF DataLoadActive
<1>5. MemFetch(m, read_addr) =
          IF read_addr \in RamWords THEN [result |-> "OK", data |-> m[read_addr]]
                                    ELSE [result |-> "ACCESS_FAULT", data |-> 0]
  BY <1>2, RamWordsFetch DEF MemFetch
<1>6. RData(req) =
          IF WaitNow = 0
          THEN [valid |-> TRUE, id |-> 0, last |-> read_beats_left = 1,
                data |-> MemFetch(m, read_addr).data,
                fault |-> MemFetch(m, read_addr).result # "OK"]
          ELSE [valid |-> FALSE, id |-> 0, last |-> FALSE, data |-> 0, fault |-> FALSE]
  BY <1>1, <1>4 DEF RData, RChannel
<1>8. CASE WaitNow = 0
  <2> DEFINE f == MemFetch(m, read_addr)
             r == RData(req)
  <2>1. r = [valid |-> TRUE, id |-> 0, last |-> read_beats_left = 1,
             data |-> f.data, fault |-> f.result # "OK"]
    BY <1>6, <1>8
  <2>2. /\ (f.result # "OK") <=> (read_addr \notin RamWords)
        /\ f.data \in Word
        /\ read_addr \in RamWords => f.data = m[read_addr]
    BY <1>3, <1>5, ConstantTypes
  <2> HIDE DEF f, r
  <2>3. /\ r.valid /\ r.id = 0 /\ (r.last <=> read_beats_left = 1)
        /\ r.data = f.data /\ (r.fault <=> f.result # "OK")
    BY <2>1
  <2>4. read_beats_left = 1 <=> fill_beat = 3
    BY <1>1
  <2>5. /\ FillBeat(r).valid /\ (FillBeat(r).last <=> r.last) /\ FillBeat(r).data = r.data
        /\ (FillBeat(r).fault <=> r.fault)
    BY <1>1, <2>3, FillBeatFields
  <2> QED
    BY <1>1, <1>2, <1>8, <2>2, <2>3, <2>4, <2>5 DEF r
<1>9. CASE WaitNow # 0
  <2> DEFINE r == RData(req)
  <2>1. r = [valid |-> FALSE, id |-> 0, last |-> FALSE, data |-> 0, fault |-> FALSE]
    BY <1>6, <1>9
  <2> HIDE DEF r
  <2>2. ~r.valid
    BY <2>1
  <2>3. ~FillBeat(r).valid
    BY <2>2, FillBeatFields
  <2> QED
    BY <1>1, <1>2, <1>9, <2>2, <2>3 DEF r
<1> QED
  BY <1>8, <1>9

(* The flags of the beat the AXI master hands to the cache are Boolean. *)
LEMMA BeatLastBoolean ==
    ASSUME FetchInv, NEW req \in Reqs, axi_state = "IF_R"
    PROVE  FillBeat(RData(req)).last \in BOOLEAN
<1>1. ~ArChannel(req).valid
  BY ArFields
<1>2. RData(req).last \in BOOLEAN
  BY <1>1 DEF RData, RChannel
<1> QED
  BY <1>2, FillBeatFields

----------------------------------------------------------------------------
(* The reset state satisfies the invariant: no line is valid, no burst on. *)
LEMMA FetchInvInit == Init => FetchInv
<1> SUFFICES ASSUME Init PROVE FetchInv
  OBVIOUS
<1>1. PICK image \in Images : AxiMemInit(image)
  BY DEF Init
<1>2. image \in [RamWords -> Word]
  BY FetchPathAssumption
<1>3. TypeOK
  <2>1. IcacheTypeOK
    <3>1. fill_fault_seen \in BOOLEAN /\ fault_resp_valid \in BOOLEAN
      BY Zenon DEF Init, IcacheInit
    <3>2. line_valid \in [0..1 -> BOOLEAN]
      BY DEF Init, IcacheInit
    <3>3. line_data \in [0..1 -> [0..3 -> Word]] /\ fill_word \in [0..3 -> Word]
      BY ZeroTyped DEF Init, IcacheInit
    <3> QED
      BY <3>1, <3>2, <3>3, ZeroTyped DEF Init, IcacheInit, IcacheTypeOK
  <2>2. AxiTypeOK
    BY ZeroTyped DEF Init, AxiInit, AxiTypeOK
  <2>3. AxiMemTypeOK
    <3>1. read_active \in BOOLEAN
      BY <1>1, Zenon DEF AxiMemInit
    <3> QED
      BY <1>1, <1>2, <3>1, ZeroTyped DEF AxiMemInit, AxiMemTypeOK, ReadWait
  <2> QED
    BY <2>1, <2>2, <2>3 DEF TypeOK, Init
<1> QED
  BY <1>1, <1>3
  DEF Init, IcacheInit, AxiInit, AxiMemInit, FetchInv, BurstInStep, LinesCoherent, FillCoherent

(* What one clock does to memory and to the history variable, whatever the *)
(* state: RAM changes only at a word that becomes dirty, or at a flush     *)
(* that leaves no line valid and meets no burst.                           *)
LEMMA MemoryStep ==
    ASSUME FetchInv,
           NEW flush \in BOOLEAN, NEW lv \in BOOLEAN, NEW la \in FetchAddrs, NEW req \in Reqs,
           Clock(flush, lv, la, req)
    PROVE  /\ mem' = MemAfter(WChannel(req))
           /\ mem' \in [RamWords -> Word]
           /\ dirty' \subseteq RamWords
           /\ ~flush \/ ic_state = "DATA" =>
                 /\ dirty \subseteq dirty'
                 /\ \A a \in RamWords : a \notin dirty' => mem'[a] = mem[a]
           /\ WaitNow \in 0..ReadWait
<1>1. mem' = MemAfter(WChannel(req))
  BY DEF Clock, FetchPathClock, AxiMemClock
<1>2. mem \in [RamWords -> Word] /\ dirty \subseteq RamWords /\ read_wait \in 0..ReadWait
  BY DEF FetchInv, TypeOK, AxiMemTypeOK
<1>3. /\ mem' \in [RamWords -> Word]
      /\ StoredWords(req) \subseteq RamWords
      /\ \A a \in RamWords : a \notin StoredWords(req) => mem'[a] = mem[a]
  BY <1>1, <1>2, StoreEffect
<1>4. dirty' = IF flush /\ ic_state # "DATA" THEN {} ELSE dirty \cup StoredWords(req)
  BY DEF Clock
<1>5. WaitNow \in 0..ReadWait
  BY <1>2 DEF WaitNow, ReadWait
<1> QED
  BY <1>1, <1>2, <1>3, <1>4, <1>5

(* The lines that were valid and stay valid stay coherent. *)
LEMMA OldLinesCoherent ==
    ASSUME FetchInv,
           NEW flush \in BOOLEAN, NEW lv \in BOOLEAN, NEW la \in FetchAddrs, NEW req \in Reqs,
           Clock(flush, lv, la, req),
           NEW i \in 0..1, FlushedValid(flush)[i], NEW w \in 0..3
    PROVE  LET a == LineWordAddr(line_tag[i], i, w)
           IN a \in RamWords /\ (a \in dirty' \/ line_data[i][w] = mem'[a])
<1>1. ~flush /\ line_valid[i]
  BY DEF FlushedValid
<1>2. LET a == LineWordAddr(line_tag[i], i, w)
      IN a \in RamWords /\ (a \in dirty \/ line_data[i][w] = mem[a])
  BY <1>1 DEF FetchInv, LinesCoherent
<1> QED
  BY <1>1, <1>2, MemoryStep

(* A clock with the cache idle: nothing is on the way and the lookup hits, *)
(* is misaligned, or starts a fill.                                        *)
LEMMA IdleStep ==
    ASSUME FetchInv,
           NEW flush \in BOOLEAN, NEW lv \in BOOLEAN, NEW la \in FetchAddrs, NEW req \in Reqs,
           Clock(flush, lv, la, req), ic_state = "IDLE"
    PROVE  FetchInv'
<1>1. /\ axi_state = "IDLE" /\ ~read_active
  BY DEF FetchInv, BurstInStep
<1>2. IcacheIdle(flush, lv, la)
  BY DEF Clock, FetchPathClock, IcacheClock, IcacheReq, IcacheData
<1>3. UNCHANGED axiVars
  BY <1>1 DEF Clock, FetchPathClock, AxiClock, AxiIdle, AxiFetchAddr, AxiFetchData,
              StartFetch, FillReqValid
<1>4. ~(ArChannel(req).valid /\ ArChannel(req).id = 0)
  BY <1>1, ArFields
<1>5. /\ read_wait' = WaitNow /\ ~read_active'
      /\ read_active' \in BOOLEAN
      /\ read_beats_left' = read_beats_left /\ read_addr' = read_addr
  BY <1>1, <1>4 DEF Clock, FetchPathClock, AxiMemClock, ArReady
<1>6. la \in Addr
  BY FetchPathAssumption
<1>7. TypeOK'
  <2>1. IcacheTypeOK'
    <3>1. fault_resp_valid' \in BOOLEAN
      BY <1>2, Zenon DEF IcacheIdle
    <3>2. fill_fault_seen' \in BOOLEAN
      BY <1>2, Zenon DEF IcacheIdle, FetchInv, TypeOK, IcacheTypeOK
    <3>3. line_valid' \in [0..1 -> BOOLEAN]
      BY <1>2 DEF IcacheIdle, FlushedValid, FetchInv, TypeOK, IcacheTypeOK
    <3> QED
      BY <1>2, <1>6, <3>1, <3>2, <3>3, ZeroTyped
      DEF FetchInv, TypeOK, IcacheTypeOK, IcacheIdle
  <2>2. AxiTypeOK'
    BY <1>3 DEF FetchInv, TypeOK, AxiTypeOK, axiVars
  <2>3. AxiMemTypeOK'
    BY <1>5, MemoryStep DEF FetchInv, TypeOK, AxiMemTypeOK
  <2> QED
    BY <2>1, <2>2, <2>3, MemoryStep DEF TypeOK
<1>8. BurstInStep'
  BY <1>1, <1>2, <1>3, <1>5 DEF BurstInStep, IcacheIdle, axiVars
<1>9. LinesCoherent'
  BY <1>2, OldLinesCoherent DEF LinesCoherent, IcacheIdle
<1>10. FillCoherent'
  BY <1>2 DEF FillCoherent, IcacheIdle
<1> QED
  BY <1>7, <1>8, <1>9, <1>10 DEF FetchInv

(* A clock while the line is asked for: the master is idle and may start   *)
(* the fill, or drives its address and the burst begins.                   *)
LEMMA ReqStep ==
    ASSUME FetchInv,
           NEW flush \in BOOLEAN, NEW lv \in BOOLEAN, NEW la \in FetchAddrs, NEW req \in Reqs,
           Clock(flush, lv, la, req), ic_state = "REQ"
    PROVE  FetchInv'
<1>1. /\ axi_state \in {"IDLE", "IF_AR"} /\ ~read_active /\ fill_beat = 0
      /\ axi_state = "IF_AR" => addr_reg = LineBase(miss_addr)
  BY DEF FetchInv, BurstInStep
<1>2. IcacheReq(flush, ReqFetchReady(ArReady))
  BY DEF Clock, FetchPathClock, IcacheClock, IcacheIdle, IcacheData
<1>3. LineBase(miss_addr) \in Addr
  BY LineArithmetic DEF FetchInv, TypeOK, IcacheTypeOK
<1>4. LinesCoherent'
  BY <1>2, OldLinesCoherent DEF LinesCoherent, IcacheReq
<1>5. FillCoherent'
  BY <1>1, <1>2 DEF FillCoherent, IcacheReq
<1>8. IcacheTypeOK'
  BY <1>2 DEF FetchInv, TypeOK, IcacheTypeOK, IcacheReq, FlushedValid
<1>6. CASE axi_state = "IDLE"
  <2>1. ic_state' = "REQ"
    BY <1>2, <1>6 DEF IcacheReq, ReqFetchReady
  <2>2. \/ axi_state' = "IF_AR" /\ addr_reg' = LineBase(miss_addr)
        \/ UNCHANGED axiVars
    BY <1>6 DEF Clock, FetchPathClock, AxiClock, AxiIdle, AxiFetchAddr, AxiFetchData, FillReqAddr
  <2>3. ~(ArChannel(req).valid /\ ArChannel(req).id = 0)
    BY <1>6, ArFields
  <2>4. /\ read_wait' = WaitNow /\ ~read_active'
        /\ read_active' \in BOOLEAN
        /\ read_beats_left' = read_beats_left /\ read_addr' = read_addr
    BY <1>1, <2>3 DEF Clock, FetchPathClock, AxiMemClock, ArReady
  <2>5. TypeOK'
    <3>1. AxiTypeOK'
      BY <1>3, <2>2 DEF FetchInv, TypeOK, AxiTypeOK, axiVars
    <3>2. AxiMemTypeOK'
      BY <2>4, MemoryStep DEF FetchInv, TypeOK, AxiMemTypeOK
    <3> QED
      BY <1>8, <3>1, <3>2, MemoryStep DEF TypeOK
  <2>6. BurstInStep'
    BY <1>1, <1>2, <1>6, <2>1, <2>2, <2>4 DEF BurstInStep, IcacheReq, axiVars
  <2> QED
    BY <1>4, <1>5, <2>5, <2>6 DEF FetchInv
<1>7. CASE axi_state = "IF_AR"
  <2>1. ic_state' = "DATA"
    BY <1>2, <1>7 DEF IcacheReq, ReqFetchReady, ArReady
  <2>2. axi_state' = "IF_R" /\ addr_reg' = addr_reg
    BY <1>7 DEF Clock, FetchPathClock, AxiClock, AxiIdle, AxiFetchAddr, AxiFetchData, ArReady
  <2>3. /\ ArChannel(req).valid /\ ArChannel(req).id = 0
        /\ ArChannel(req).addr = LineBase(miss_addr) /\ ArChannel(req).beats = 4
    BY <1>1, <1>7, ArFields
  <2>4. /\ read_wait' = ReadWait /\ read_active' = TRUE
        /\ read_beats_left' = 4 /\ read_addr' = LineBase(miss_addr)
    BY <2>3 DEF Clock, FetchPathClock, AxiMemClock, ArReady
  <2>5. TypeOK'
    <3>1. AxiTypeOK'
      BY <2>2 DEF FetchInv, TypeOK, AxiTypeOK
    <3>2. AxiMemTypeOK'
      BY <1>3, <2>4, MemoryStep DEF FetchInv, TypeOK, AxiMemTypeOK, ReadWait
    <3> QED
      BY <1>8, <3>1, <3>2, MemoryStep DEF TypeOK
  <2>6. BurstInStep'
    BY <1>1, <1>2, <1>3, <2>1, <2>2, <2>4 DEF BurstInStep, IcacheReq, Addr, Word
  <2> QED
    BY <1>4, <1>5, <2>5, <2>6 DEF FetchInv
<1> QED
  BY <1>1, <1>6, <1>7

(* A clock while the burst comes in: no beat, a beat that is not the last, *)
(* or the last one, which installs the line or reports the fault.          *)
LEMMA DataStep ==
    ASSUME FetchInv,
           NEW flush \in BOOLEAN, NEW lv \in BOOLEAN, NEW la \in FetchAddrs, NEW req \in Reqs,
           Clock(flush, lv, la, req), ic_state = "DATA"
    PROVE  FetchInv'
<1> DEFINE beat == FillBeat(RData(req))
           base == LineBase(miss_addr)
           fi == Index(miss_addr)
           FillOK(w) == base + 4 * w \in RamWords /\
                        (base + 4 * w \in dirty' \/ fill_word[w] = mem'[base + 4 * w])
<1>1. /\ axi_state = "IF_R" /\ read_active
      /\ read_beats_left = 4 - fill_beat /\ fill_beat \in 0..3
      /\ miss_addr \in Addr /\ fill_word \in [0..3 -> Word]
      /\ line_valid \in [0..1 -> BOOLEAN] /\ line_tag \in [0..1 -> Nat]
      /\ line_data \in [0..1 -> [0..3 -> Word]]
      /\ addr_reg \in Addr
  BY DEF FetchInv, TypeOK, IcacheTypeOK, AxiTypeOK, BurstInStep
<1>2. IcacheData(flush, beat)
  BY DEF Clock, FetchPathClock, IcacheClock, IcacheIdle, IcacheReq
<1>3. /\ base \in Nat /\ base = 32 * Tag(miss_addr) + 16 * fi
      /\ base + 12 \in Addr
      /\ Tag(miss_addr) \in Nat /\ fi \in 0..1
  <2>1. /\ base \in Addr /\ base = LineWordAddr(Tag(miss_addr), fi, 0) /\ base + 12 \in Addr
        /\ Tag(miss_addr) \in Nat /\ fi \in 0..1
    BY <1>1, LineArithmetic
  <2> HIDE DEF base, fi
  <2>2. base \in Nat
    BY <2>1, MemoryMapAssumption DEF Addr, Word
  <2> QED
    BY <2>1, <2>2 DEF LineWordAddr
<1>4. /\ read_addr = base + 4 * fill_beat
      /\ beat.valid <=> RData(req).valid
      /\ beat.valid => /\ (beat.last <=> fill_beat = 3)
                       /\ (beat.last <=> RData(req).last)
                       /\ (beat.fault <=> read_addr \notin RamWords)
                       /\ beat.data \in Word
                       /\ ~beat.fault => beat.data = mem'[read_addr]
  BY BeatOfBurst, MemoryStep
<1>5. /\ mem' \in [RamWords -> Word] /\ dirty' \subseteq RamWords
      /\ dirty \subseteq dirty' /\ WaitNow \in 0..ReadWait
      /\ \A a \in RamWords : a \notin dirty' => mem'[a] = mem[a]
  BY MemoryStep
(* What was collected before this cycle stays coherent. *)
<1>6. ~fill_fault_seen => \A w \in 0..3 : w < fill_beat => FillOK(w)
  BY <1>5 DEF FetchInv, FillCoherent
<1>7. /\ axi_state' = IF beat.valid /\ RData(req).last THEN "IDLE" ELSE "IF_R"
      /\ addr_reg' = addr_reg
  BY <1>1 DEF Clock, FetchPathClock, AxiClock, AxiIdle, AxiFetchAddr, AxiFetchData
<1>8. ~ArChannel(req).valid /\ RReady(req)
  BY <1>1, ArFields DEF RReady
<1>9. /\ read_wait' = WaitNow
      /\ read_active' <=> ~(RData(req).valid /\ read_beats_left = 1)
      /\ read_active' \in BOOLEAN
      /\ read_beats_left' = IF RData(req).valid THEN read_beats_left - 1 ELSE read_beats_left
      /\ read_addr' = IF RData(req).valid /\ read_beats_left # 1 THEN read_addr + 4 ELSE read_addr
  BY <1>1, <1>8 DEF Clock, FetchPathClock, AxiMemClock, ArReady, RData
<1>10. read_beats_left \in 0..4 /\ read_addr \in Nat /\ read_addr' \in Addr
  BY <1>1, <1>3, <1>4, <1>9, ConstantTypes DEF Addr, Word
<1>11. AxiTypeOK' /\ AxiMemTypeOK'
  BY <1>1, <1>5, <1>7, <1>9, <1>10 DEF AxiTypeOK, AxiMemTypeOK
<1> HIDE DEF beat, base, fi
<1>12. CASE ~beat.valid
  <2>1. /\ line_valid' = FlushedValid(flush)
        /\ UNCHANGED <<ic_state, line_tag, line_data, miss_addr, fill_beat, fill_fault_seen, fill_word>>
        /\ fault_resp_valid' \in BOOLEAN
    BY <1>2, <1>12 DEF IcacheData
  <2>2. IcacheTypeOK'
    BY <1>1, <2>1 DEF IcacheTypeOK, FetchInv, TypeOK, FlushedValid
  <2>3. BurstInStep'
    BY <1>1, <1>4, <1>7, <1>9, <1>12, <2>1 DEF BurstInStep, base
  <2>4. LinesCoherent'
    BY <2>1, OldLinesCoherent DEF LinesCoherent
  <2>5. FillCoherent'
    BY <1>6, <2>1 DEF FillCoherent, base
  <2> QED
    BY <1>5, <1>11, <2>2, <2>3, <2>4, <2>5 DEF FetchInv, TypeOK
<1>13. CASE beat.valid /\ ~beat.last
  <2>1. /\ line_valid' = FlushedValid(flush)
        /\ ic_state' = "DATA"
        /\ fill_beat' = (fill_beat + 1) % 4
        /\ fill_word' = [fill_word EXCEPT ![fill_beat] = beat.data]
        /\ fill_fault_seen' = (fill_fault_seen \/ beat.fault)
        /\ UNCHANGED <<line_tag, line_data, miss_addr>>
    BY <1>2, <1>13 DEF IcacheData
  <2>7. /\ fill_beat # 3 /\ RData(req).valid /\ ~RData(req).last
        /\ beat.data \in Word /\ (~beat.fault => read_addr \in RamWords)
        /\ ~beat.fault => beat.data = mem'[read_addr]
    <3>1. (beat.last <=> fill_beat = 3) /\ (beat.last <=> RData(req).last)
      BY <1>4, <1>13
    <3>2. fill_beat # 3
      BY <3>1, <1>13
    <3>3. RData(req).valid
      BY <1>4, <1>13
    <3>4. ~RData(req).last
      BY <3>1, <1>13
    <3>5. beat.data \in Word /\ (beat.fault <=> read_addr \notin RamWords)
      BY <1>4, <1>13
    <3>6. ~beat.fault => beat.data = mem'[read_addr]
      BY <1>4, <1>13
    <3> QED
      BY <3>2, <3>3, <3>4, <3>5, <3>6
  <2>2. fill_beat' = fill_beat + 1 /\ fill_beat' \in 0..3
    BY <1>1, <2>7, <2>1
  <2>3. IcacheTypeOK'
    <3>1. fault_resp_valid' \in BOOLEAN
      <4>1. fault_resp_valid' = beat.last
        BY <1>2, <1>13 DEF IcacheData
      <4>2. beat.last \in BOOLEAN
        BY <1>1, BeatLastBoolean DEF beat
      <4> QED
        BY <4>1, <4>2
    <3>2. fill_fault_seen' \in BOOLEAN
      BY <2>1
    <3> QED
      BY <1>1, <2>7, <2>1, <2>2, <3>1, <3>2 DEF IcacheTypeOK, FlushedValid
  <2>4. BurstInStep'
    <3>1. axi_state' = "IF_R" /\ read_active' /\ read_beats_left' = read_beats_left - 1
          /\ read_addr' = read_addr + 4
      BY <1>1, <1>7, <1>9, <2>7
    <3>2. read_addr = base + 4 * fill_beat
      BY <1>4
    <3> QED
      BY <1>1, <1>3, <3>1, <3>2, <2>1, <2>2 DEF BurstInStep, base
  <2>5. LinesCoherent'
    BY <2>1, OldLinesCoherent DEF LinesCoherent
  <2>6. FillCoherent'
    <3> SUFFICES ASSUME ~fill_fault_seen', NEW w \in 0..3, w < fill_beat'
                 PROVE  base + 4 * w \in RamWords /\
                        (base + 4 * w \in dirty' \/ fill_word'[w] = mem'[base + 4 * w])
      BY <2>1 DEF FillCoherent, base
    <3>1. ~fill_fault_seen /\ ~beat.fault
      BY <2>1
    <3>2. CASE w < fill_beat
      BY <1>1, <1>6, <2>1, <3>1, <3>2
    <3>3. CASE w = fill_beat
      <4>1. read_addr = base + 4 * w
        BY <1>4, <3>3
      <4> QED
        BY <1>1, <2>1, <2>7, <3>1, <3>3, <4>1
    <3> QED
      BY <1>1, <2>2, <3>2, <3>3
  <2> QED
    BY <1>5, <1>11, <2>3, <2>4, <2>5, <2>6 DEF FetchInv, TypeOK
<1>14. CASE beat.valid /\ beat.last
  <2>1. /\ ic_state' = "IDLE"
        /\ fill_beat' = fill_beat
        /\ fill_word' = [fill_word EXCEPT ![fill_beat] = beat.data]
        /\ fill_fault_seen' = (fill_fault_seen \/ beat.fault)
        /\ miss_addr' = miss_addr
    BY <1>2, <1>14 DEF IcacheData
  <2>2. /\ fill_beat = 3 /\ RData(req).valid /\ RData(req).last
        /\ beat.data \in Word /\ (~beat.fault => read_addr \in RamWords)
        /\ ~beat.fault => beat.data = mem'[read_addr]
    BY <1>4, <1>14, Zenon
  <2>3. BurstInStep'
    <3>1. axi_state' = "IDLE" /\ ~read_active'
      BY <1>1, <1>7, <1>9, <1>14, <2>2
    <3> QED
      BY <2>1, <3>1 DEF BurstInStep
  <2>4. FillCoherent'
    BY <2>1 DEF FillCoherent
  <2>5. fill_fault_seen' \in BOOLEAN /\ fill_word' \in [0..3 -> Word]
    BY <1>1, <2>1, <2>2
  <2>6. CASE fill_fault_seen \/ beat.fault
    <3>1. /\ line_valid' = FlushedValid(flush)
          /\ UNCHANGED <<line_tag, line_data>>
      BY <1>2, <1>14, <2>6 DEF IcacheData
    <3>2. fault_resp_valid' = TRUE
      BY <1>2, <1>4, <1>14, <2>2, <2>6 DEF IcacheData
    <3>3. LinesCoherent'
      BY <3>1, OldLinesCoherent DEF LinesCoherent
    <3>4. IcacheTypeOK'
      BY <1>1, <2>1, <2>5, <3>1, <3>2 DEF IcacheTypeOK, FlushedValid
    <3> QED
      BY <1>5, <1>11, <2>3, <2>4, <3>3, <3>4 DEF FetchInv, TypeOK
  <2>7. CASE ~(fill_fault_seen \/ beat.fault)
    <3>1. /\ line_valid' = [FlushedValid(flush) EXCEPT ![fi] = TRUE]
          /\ line_tag' = [line_tag EXCEPT ![fi] = Tag(miss_addr)]
          /\ line_data' = [line_data EXCEPT ![fi] = [fill_word EXCEPT ![fill_beat] = beat.data]]
          /\ fault_resp_valid' \in BOOLEAN
      BY <1>2, <1>14, <2>7 DEF IcacheData, InstallLine, fi
    <3>2. FlushedValid(flush) \in [0..1 -> BOOLEAN]
      BY <1>1 DEF FlushedValid
    <3>3. IcacheTypeOK'
      <4>1. line_valid' \in [0..1 -> BOOLEAN]
        BY <3>1, <3>2
      <4> QED
        BY <1>1, <1>3, <1>4, <1>14, <2>1, <2>5, <3>1, <4>1 DEF IcacheTypeOK
    <3>4. ASSUME NEW i \in 0..1, NEW w \in 0..3, line_valid'[i]
          PROVE  LET a == LineWordAddr(line_tag'[i], i, w)
                 IN a \in RamWords /\ (a \in dirty' \/ line_data'[i][w] = mem'[a])
      <4>1. CASE i # fi
        <5>1. FlushedValid(flush)[i] /\ line_tag'[i] = line_tag[i] /\ line_data'[i] = line_data[i]
          BY <1>1, <1>3, <3>1, <3>2, <3>4, <4>1
        <5> QED
          BY <5>1, OldLinesCoherent
      <4>2. CASE i = fi
        <5>1. /\ line_tag'[i] = Tag(miss_addr)
              /\ line_data'[i] = [fill_word EXCEPT ![fill_beat] = beat.data]
          BY <1>1, <1>3, <3>1, <4>2
        <5>2. LineWordAddr(line_tag'[i], i, w) = base + 4 * w
          BY <1>3, <4>2, <5>1 DEF LineWordAddr
        <5>3. CASE w < fill_beat
          <6>1. FillOK(w)
            BY <1>6, <2>7, <5>3
          <6>2. line_data'[i][w] = fill_word[w]
            BY <1>1, <5>1, <5>3
          <6> QED
            BY <5>2, <6>1, <6>2
        <5>4. CASE w = fill_beat
          <6>1. line_data'[i][w] = beat.data
            BY <1>1, <5>1, <5>4
          <6> QED
            <7>1. read_addr = base + 4 * w
              BY <1>4, <5>4
            <7> QED
              BY <2>2, <2>7, <5>2, <6>1, <7>1
        <5> QED
          BY <2>2, <5>3, <5>4
      <4> QED
        BY <4>1, <4>2
    <3>5. LinesCoherent'
      BY <3>4 DEF LinesCoherent
    <3> QED
      BY <1>5, <1>11, <2>3, <2>4, <3>3, <3>5 DEF FetchInv, TypeOK
  <2> QED
    BY <2>6, <2>7
<1> QED
  BY <1>12, <1>13, <1>14

(* The invariant is preserved by every step. *)
LEMMA FetchInvStep == FetchInv /\ [Next]_vars => FetchInv'
<1> SUFFICES ASSUME FetchInv, [Next]_vars PROVE FetchInv'
  OBVIOUS
<1>1. CASE UNCHANGED vars
  BY <1>1 DEF vars, icVars, axiVars, axiMemVars, FetchInv, TypeOK, IcacheTypeOK, AxiTypeOK,
              AxiMemTypeOK, BurstInStep, LinesCoherent, FillCoherent
<1>2. CASE Next
  <2>1. PICK flush \in BOOLEAN, lv \in BOOLEAN, la \in FetchAddrs, req \in Reqs :
            Clock(flush, lv, la, req)
    BY <1>2 DEF Next
  <2>2. ic_state \in {"IDLE", "REQ", "DATA"}
    BY DEF FetchInv, TypeOK, IcacheTypeOK
  <2> QED
    BY <2>1, <2>2, IdleStep, ReqStep, DataStep
<1> QED
  BY <1>1, <1>2

(* Type correctness of the fetch path. *)
THEOREM FetchPathTypes == Spec => []TypeOK
<1>1. FetchInv => TypeOK
  BY DEF FetchInv
<1> QED
  BY <1>1, FetchInvInit, FetchInvStep, PTL DEF Spec

(* Cache, AXI master and memory never lose step over a burst, whatever the *)
(* pipeline looks up, loads and stores meanwhile.                          *)
THEOREM FetchPathInStep == Spec => []BurstInStep
<1>1. FetchInv => BurstInStep
  BY DEF FetchInv
<1> QED
  BY <1>1, FetchInvInit, FetchInvStep, PTL DEF Spec

(* A valid line holds the words of RAM at its addresses, except where RAM  *)
(* was stored to since the last flush that met no burst.                   *)
THEOREM FetchPathCoherent == Spec => []LinesCoherent
<1>1. FetchInv => LinesCoherent
  BY DEF FetchInv
<1> QED
  BY <1>1, FetchInvInit, FetchInvStep, PTL DEF Spec

----------------------------------------------------------------------------
(* While a fill is on its way, fill_fault_seen tells of a word of its line *)
(* that is not in RAM: the flag of an earlier fill is gone.                *)
FaultSeenIsReal ==
    ic_state # "IDLE" /\ fill_fault_seen =>
        \E w \in 0..3 : LineBase(miss_addr) + 4 * w \notin RamWords

FaultInv == FaultIsReal /\ FaultSeenIsReal

(* A fault flag of the cache, once set, names the line being filled.       *)
LEMMA FaultInvStep ==
    ASSUME FetchInv, FaultInv,
           NEW flush \in BOOLEAN, NEW lv \in BOOLEAN, NEW la \in FetchAddrs, NEW req \in Reqs,
           Clock(flush, lv, la, req)
    PROVE  FaultInv'
<1>1. ic_state \in {"IDLE", "REQ", "DATA"} /\ fill_beat \in 0..3
  BY DEF FetchInv, TypeOK, IcacheTypeOK
<1>2. CASE ic_state = "IDLE"
  <2>1. IcacheIdle(flush, lv, la)
    BY <1>2 DEF Clock, FetchPathClock, IcacheClock, IcacheReq, IcacheData
  <2> QED
    BY <1>2, <2>1 DEF IcacheIdle, FaultInv, FaultIsReal, FaultSeenIsReal
<1>3. CASE ic_state = "REQ"
  <2>1. IcacheReq(flush, ReqFetchReady(ArReady))
    BY <1>3 DEF Clock, FetchPathClock, IcacheClock, IcacheIdle, IcacheData
  <2> QED
    BY <1>3, <2>1 DEF IcacheReq, FaultInv, FaultIsReal, FaultSeenIsReal
<1>4. CASE ic_state = "DATA"
  <2> DEFINE beat == FillBeat(RData(req))
             Hole == \E w \in 0..3 : LineBase(miss_addr) + 4 * w \notin RamWords
  <2>1. IcacheData(flush, beat)
    BY <1>4 DEF Clock, FetchPathClock, IcacheClock, IcacheIdle, IcacheReq
  <2>2. beat.valid /\ beat.fault => Hole
    BY <1>1, <1>4, BeatOfBurst
  <2>3. fill_fault_seen => Hole
    BY <1>4 DEF FaultInv, FaultSeenIsReal
  <2> HIDE DEF beat
  <2>4. miss_addr' = miss_addr
    BY <2>1 DEF IcacheData
  <2>5. fill_fault_seen' => Hole
    BY <2>1, <2>2, <2>3 DEF IcacheData
  <2>6. fault_resp_valid' => beat.valid /\ (fill_fault_seen \/ beat.fault)
    <3>1. CASE ~beat.valid
      BY <2>1, <3>1 DEF IcacheData
    <3>2. CASE beat.valid /\ beat.last /\ ~(fill_fault_seen \/ beat.fault)
      BY <2>1, <3>2 DEF IcacheData, InstallLine
    <3>3. CASE beat.valid /\ ~beat.last
      BY <2>1, <3>3 DEF IcacheData
    <3>4. CASE beat.valid /\ (fill_fault_seen \/ beat.fault)
      BY <3>4
    <3> QED
      BY <3>1, <3>2, <3>3, <3>4
  <2> QED
    BY <2>2, <2>3, <2>4, <2>5, <2>6 DEF FaultInv, FaultIsReal, FaultSeenIsReal
<1> QED
  BY <1>1, <1>2, <1>3, <1>4

(* A fetch is answered with an access fault only when a word of the line   *)
(* it missed on is really outside RAM, never by the fault of an earlier    *)
(* fill or by a beat of another burst.                                     *)
THEOREM FetchPathFaults == Spec => []FaultIsReal
<1>1. Init => FaultInv
  BY DEF Init, IcacheInit, FaultInv, FaultIsReal, FaultSeenIsReal
<1>2. FetchInv /\ FaultInv /\ [Next]_vars => FaultInv'
  <2> SUFFICES ASSUME FetchInv, FaultInv, [Next]_vars PROVE FaultInv'
    OBVIOUS
  <2>1. CASE UNCHANGED vars
    BY <2>1 DEF vars, icVars, FaultInv, FaultIsReal, FaultSeenIsReal
  <2>2. CASE Next
    BY <2>2, FaultInvStep DEF Next
  <2> QED
    BY <2>1, <2>2
<1>3. FaultInv => FaultIsReal
  BY DEF FaultInv
<1> QED
  BY <1>1, <1>2, <1>3, FetchInvInit, FetchInvStep, PTL DEF Spec
=============================================================================
