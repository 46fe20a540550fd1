\* Bytes have two bits, so addresses are 0..255.  RAM is 64..119: three whole
\* lines, two of which (64 and 96) share index 0, and half of a fourth, whose
\* bursts fault half way.
SPECIFICATION Spec
CONSTANTS
    ByteMod = 4
    RamBase = 64
    RamSize = 56
    StrictMem = FALSE
    FetchAddrs = {68, 100, 116, 84, 66}
    DataAddrs = {68, 108}
    StoreSizes = {1}
    StoreData = {2}
    Images <- DistinctWords
INVARIANTS BurstInStep LinesCoherent FaultIsReal
