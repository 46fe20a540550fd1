------------------------------ MODULE NpcDefs ------------------------------
(***************************************************************************)
(* Words, addresses and the memory map shared by the RTL core and the      *)
(* reference emulator.                                                     *)
(*                                                                         *)
(* A byte has ByteMod values instead of 256, so a word of four bytes has   *)
(* WordMod = ByteMod^4 values; every sum is taken modulo WordMod, as the   *)
(* 32-bit registers of the code do.  Everything else keeps its size: four  *)
(* bytes to a word, four words to a cache line, two lines.                 *)
(***************************************************************************)
EXTENDS Integers

CONSTANTS ByteMod,      \* number of values of a byte (256 in the code)
          RamBase,      \* Config::ram_base
          RamSize,      \* Config::ram_size, in bytes
          StrictMem     \* Config::strict_mem

HalfMod == ByteMod * ByteMod
WordMod == HalfMod * HalfMod

Word == 0..(WordMod - 1)
Addr == Word

(* The address space is a whole number of pairs of cache lines, and RAM is *)
(* a whole number of words that ends before the address space does.        *)
ASSUME MemoryMapAssumption ==
    /\ ByteMod \in Nat /\ ByteMod > 1
    /\ WordMod \in Nat /\ WordMod % 32 = 0
    /\ RamBase \in Nat /\ RamSize \in Nat
    /\ RamBase % 4 = 0 /\ RamSize % 4 = 0
    /\ RamBase + RamSize < WordMod
    /\ StrictMem \in BOOLEAN

Size == {1, 2, 4}

(* Weight of the byte at offset o of a word, and number of values of a     *)
(* field of s bytes.                                                       *)
Shift(o) == CASE o = 0 -> 1
              [] o = 1 -> ByteMod
              [] o = 2 -> HalfMod
              [] OTHER -> HalfMod * ByteMod
SizeMod(s) == CASE s = 1 -> ByteMod [] s = 2 -> HalfMod [] OTHER -> WordMod

Aligned(a, s) == a % s = 0
WordAddr(a) == a - (a % 4)

(***************************************************************************)
(* Memory (emulator/src/memory.cpp): RAM as a function of word addresses.  *)
(* An access that is aligned never crosses a word.                         *)
(***************************************************************************)
RamWords == {a \in RamBase..(RamBase + RamSize - 1) : a % 4 = 0}

InRam(a, s) == RamBase <= a /\ a + s <= RamBase + RamSize

(* The field of size s at address a of memory m, and the word that holds   *)
(* it once data is stored there.                                           *)
ReadField(m, a, s) == (m[WordAddr(a)] \div Shift(a % 4)) % SizeMod(s)

MergeField(old, a, s, data) ==
    LET lane == (old \div Shift(a % 4)) % SizeMod(s)
    IN (old + ((data % SizeMod(s)) - lane) * Shift(a % 4)) % WordMod

MemLoad(m, a, s) ==
    IF ~Aligned(a, s)         THEN [result |-> "MISALIGNED", data |-> 0]
    ELSE IF InRam(a, s)       THEN [result |-> "OK", data |-> ReadField(m, a, s)]
    ELSE IF StrictMem         THEN [result |-> "ACCESS_FAULT", data |-> 0]
    ELSE                           [result |-> "OK", data |-> 0]

(* The result of a store, and the memory it leaves.  Outside RAM nothing   *)
(* is written, whether or not the store faults.                            *)
MemStoreResult(a, s) ==
    IF ~Aligned(a, s)         THEN "MISALIGNED"
    ELSE IF InRam(a, s) \/ ~StrictMem THEN "OK"
    ELSE                           "ACCESS_FAULT"

MemStore(m, a, s, data) ==
    IF Aligned(a, s) /\ InRam(a, s)
    THEN [m EXCEPT ![WordAddr(a)] = MergeField(@, a, s, data)]
    ELSE m

MemFetch(m, a) ==
    IF a % 4 # 0         THEN [result |-> "MISALIGNED", data |-> 0]
    ELSE IF ~InRam(a, 4) THEN [result |-> "ACCESS_FAULT", data |-> 0]
    ELSE                      [result |-> "OK", data |-> m[a]]
=============================================================================
