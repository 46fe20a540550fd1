------------------------------ MODULE AmTimer ------------------------------
(***************************************************************************)
(* __am_timer_uptime: the 64-bit mtime of the CLINT is read as two words   *)
(* while it goes on counting.  Width is the width of a word, 32 in the     *)
(* code.                                                                   *)
(***************************************************************************)
EXTENDS Integers, TLAPS

CONSTANTS Width, CyclesPerUs,
          Words,     \* 2^Width
          MaxMtime   \* bound: the clock stops there

TimerAssumption ==
    /\ Width \in Nat \ {0} /\ CyclesPerUs \in Nat \ {0}
    /\ Words = 2^Width /\ Words \in Nat \ {0}
    /\ MaxMtime \in Nat /\ MaxMtime < Words * Words

VARIABLES mtime, pc, hi, lo,
          uptime,     \* uptime->us of the last call
          since       \* history: mtime when the call began

uptimeVars == <<mtime, pc, hi, lo, uptime, since>>

UptimeInit ==
    /\ mtime \in 0..MaxMtime
    /\ pc = "idle" /\ hi = 0 /\ lo = 0 /\ uptime = 0 /\ since = 0

(* mtime counts in every cycle; any number of cycles pass between reads *)
Cycle ==
    /\ mtime < MaxMtime
    /\ mtime' = mtime + 1
    /\ UNCHANGED <<pc, hi, lo, uptime, since>>

MTIME_HI == mtime \div Words
MTIME_LO == mtime % Words

Call ==
    /\ pc \in {"idle", "done"}
    /\ pc' = "hi" /\ since' = mtime
    /\ UNCHANGED <<mtime, hi, lo, uptime>>

ReadHi ==
    /\ pc = "hi"
    /\ hi' = MTIME_HI /\ pc' = "lo"
    /\ UNCHANGED <<mtime, lo, uptime, since>>

ReadLo ==
    /\ pc = "lo"
    /\ lo' = MTIME_LO /\ pc' = "again"
    /\ UNCHANGED <<mtime, hi, uptime, since>>

(* Mutant: the high word is not looked at again. *)
NoSecondLook ==
    /\ pc = "again"
    /\ pc' = "done" /\ uptime' = (hi * Words + lo) \div CyclesPerUs
    /\ UNCHANGED <<mtime, hi, lo, since>>

ReadHiAgain ==
    /\ pc = "again"
    /\ IF hi # MTIME_HI THEN pc' = "hi" /\ UNCHANGED uptime
       ELSE pc' = "done" /\ uptime' = (hi * Words + lo) \div CyclesPerUs
    /\ UNCHANGED <<mtime, hi, lo, since>>

UptimeNext == Cycle \/ Call \/ ReadHi \/ ReadLo \/ ReadHiAgain

UptimeSpec == UptimeInit /\ [][UptimeNext]_uptimeVars
----------------------------------------------------------------------------
(* The uptime is that of some moment during the call, however often the    *)
(* low word overflowed between the reads, so it never runs backwards from  *)
(* one call to the next.                                                   *)
UptimeDuringCall ==
    pc = "done" => since \div CyclesPerUs <= uptime /\ uptime <= mtime \div CyclesPerUs

----------------------------------------------------------------------------
(* What the reads in progress have seen: hi is the high word of a moment   *)
(* of this call, and lo the low word of a moment no earlier than that one. *)
HiSeen(i) == i \in since..mtime /\ hi = i \div Words
LoSeen(i) == i \in since..mtime /\ hi <= i \div Words /\ lo = i % Words

TimerInv ==
    /\ mtime \in Nat /\ since \in Nat /\ since <= mtime
    /\ hi \in Nat /\ lo \in Nat /\ uptime \in Nat
    /\ pc \in {"idle", "hi", "lo", "again", "done"}
    /\ pc = "lo" => \E i \in Nat : HiSeen(i)
    /\ pc = "again" => \E i \in Nat : LoSeen(i)
    /\ UptimeDuringCall

(* A natural number is made of its quotient and its remainder, and         *)
(* division keeps the order.                                               *)
LEMMA DivMod ==
    ASSUME NEW n \in Nat \ {0}, NEW a \in Nat
    PROVE  /\ a \div n \in Nat /\ a % n \in 0..(n - 1)
           /\ a = n * (a \div n) + (a % n)
OBVIOUS

LEMMA DivMono ==
    ASSUME NEW n \in Nat \ {0}, NEW a \in Nat, NEW b \in Nat, a <= b
    PROVE  a \div n <= b \div n
<1> DEFINE qa == a \div n
           qb == b \div n
<1>1. /\ qa \in Nat /\ a = n * qa + (a % n) /\ a % n \in 0..(n - 1)
      /\ qb \in Nat /\ b = n * qb + (b % n) /\ b % n \in 0..(n - 1)
  BY DivMod
<1> HIDE DEF qa, qb
<1>2. ASSUME qb + 1 <= qa PROVE FALSE
  <2>1. n * (qb + 1) <= n * qa
    BY <1>1, <1>2
  <2>2. n * (qb + 1) = n * qb + n
    BY <1>1
  <2> QED
    BY <1>1, <2>1, <2>2
<1> QED
  BY <1>1, <1>2 DEF qa, qb

(* Every read of the loop keeps what the reads before it have seen.        *)
LEMMA TimerInvStep ==
    ASSUME TimerAssumption, TimerInv, [UptimeNext]_uptimeVars
    PROVE  TimerInv'
<1>1. /\ Words \in Nat \ {0} /\ CyclesPerUs \in Nat \ {0} /\ MaxMtime \in Nat
      /\ mtime \in Nat /\ since \in Nat /\ since <= mtime
      /\ hi \in Nat /\ lo \in Nat /\ uptime \in Nat
  BY DEF TimerAssumption, TimerInv
<1>2. CASE UNCHANGED uptimeVars
  BY <1>2 DEF uptimeVars, TimerInv, HiSeen, LoSeen, UptimeDuringCall
<1>3. CASE Cycle
  <2>1. mtime' = mtime + 1 /\ UNCHANGED <<pc, hi, lo, uptime, since>>
    BY <1>3 DEF Cycle
  <2>2. mtime \div CyclesPerUs \in Int /\ mtime' \div CyclesPerUs \in Int
        /\ mtime \div CyclesPerUs <= mtime' \div CyclesPerUs
    BY <1>1, <2>1, DivMono, DivMod
  <2>3. pc = "done" => (since \div CyclesPerUs <= uptime /\ uptime <= mtime \div CyclesPerUs)
    BY DEF TimerInv, UptimeDuringCall
  <2>4. UptimeDuringCall'
    <3>1. since \div CyclesPerUs \in Nat
      BY <1>1, DivMod
    <3> QED
      BY <1>1, <2>1, <2>2, <2>3, <3>1 DEF UptimeDuringCall
  <2>5. \A i \in Nat : (HiSeen(i) => HiSeen(i)') /\ (LoSeen(i) => LoSeen(i)')
    <3>1. \A i \in Nat : i \in since..mtime => i \in since'..mtime'
      BY <1>1, <2>1
    <3> QED
      BY <2>1, <3>1, Zenon DEF HiSeen, LoSeen
  <2> QED
    BY <1>1, <2>1, <2>4, <2>5 DEF TimerInv
<1>4. CASE Call
  BY <1>1, <1>4 DEF Call, TimerInv, UptimeDuringCall
<1>5. CASE ReadHi
  <2>1. HiSeen(mtime)'
    BY <1>1, <1>5 DEF ReadHi, HiSeen, MTIME_HI
  <2> QED
    BY <1>1, <1>5, <2>1, DivMod DEF MTIME_HI, ReadHi, TimerInv, UptimeDuringCall
<1>6. CASE ReadLo
  <2>1. PICK i \in Nat : HiSeen(i)
    BY <1>6 DEF ReadLo, TimerInv
  <2>2. hi <= mtime \div Words
    BY <1>1, <2>1, DivMono DEF HiSeen
  <2>3. LoSeen(mtime)'
    BY <1>1, <1>6, <2>2 DEF ReadLo, LoSeen, MTIME_LO
  <2> QED
    BY <1>1, <1>6, <2>3, DivMod DEF MTIME_LO, ReadLo, TimerInv, UptimeDuringCall
<1>7. CASE ReadHiAgain
  <2>1. CASE hi # MTIME_HI
    BY <1>1, <1>7, <2>1 DEF ReadHiAgain, TimerInv, UptimeDuringCall
  <2>2. CASE hi = MTIME_HI
    <3>1. PICK i \in Nat : LoSeen(i)
      BY <1>7 DEF ReadHiAgain, TimerInv
    <3>2. i \div Words = hi
      <4>1. i \div Words <= mtime \div Words /\ i \div Words \in Nat
        BY <1>1, <3>1, DivMono, DivMod DEF LoSeen
      <4> QED
        BY <1>1, <2>2, <3>1, <4>1 DEF LoSeen, MTIME_HI
    <3>3. hi * Words + lo = i
      <4>1. i = Words * hi + lo
        BY <1>1, <3>1, <3>2, DivMod DEF LoSeen
      <4> QED
        BY <1>1, <4>1
    <3>6. i \div CyclesPerUs \in Nat
      BY <1>1, DivMod
    <3>4. uptime' = i \div CyclesPerUs /\ pc' = "done" /\ UNCHANGED <<mtime, since>>
      BY <1>7, <2>2, <3>3 DEF ReadHiAgain
    <3>5. /\ since \div CyclesPerUs <= i \div CyclesPerUs
          /\ i \div CyclesPerUs <= mtime \div CyclesPerUs
      BY <1>1, <3>1, DivMono DEF LoSeen
    <3> QED
      BY <1>1, <1>7, <3>4, <3>5, <3>6 DEF ReadHiAgain, TimerInv, UptimeDuringCall
  <2> QED
    BY <2>1, <2>2
<1> QED
  BY <1>2, <1>3, <1>4, <1>5, <1>6, <1>7 DEF UptimeNext

(* __am_timer_uptime answers with the time of a moment during the call,    *)
(* for every width of a word, every clock rate and any number of cycles    *)
(* between the reads.                                                      *)
THEOREM UptimeIsOfTheCall ==
    ASSUME TimerAssumption
    PROVE  UptimeSpec => []UptimeDuringCall
<1>1. UptimeInit => TimerInv
  BY DEF UptimeInit, TimerInv, TimerAssumption, UptimeDuringCall
<1>2. TimerInv /\ [UptimeNext]_uptimeVars => TimerInv'
  BY TimerInvStep
<1>3. TimerInv => UptimeDuringCall
  BY DEF TimerInv
<1> QED
  BY <1>1, <1>2, <1>3, PTL DEF UptimeSpec
=============================================================================
