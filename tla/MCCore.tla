------------------------------ MODULE MCCore -------------------------------
(***************************************************************************)
(* The core alone, and the programs for it.  Bytes have two bits, so words *)
(* and addresses are 0..255 and registers are x0..x3.  RAM starts at 64.   *)
(* A word of memory that is not listed in MCEncoding is data, or an        *)
(* illegal instruction.                                                    *)
(***************************************************************************)
EXTENDS NpcCore, Sequences, TLC

I(op, rd, rs1, rs2, imm) ==
    [op |-> op, rd |-> rd, rs1 |-> rs1, rs2 |-> rs2, imm |-> imm % 256, csr |-> "none"]
C(op, rd, rs1, c) ==
    [op |-> op, rd |-> rd, rs1 |-> rs1, rs2 |-> 0, imm |-> rs1, csr |-> c]

Nop == 5
Ebreak == 4

MCEncoding ==
    \* set-up and end
    (2 :> I("ADDI", 3, 0, 0, 128)) @@ (3 :> C("CSRRW", 0, 3, "mtvec")) @@
    (4 :> I("EBREAK", 0, 0, 0, 0)) @@ (5 :> I("ADDI", 0, 0, 0, 0)) @@
    \* data hazards: x3 + 32 is the address of the data
    (10 :> I("ADDI", 1, 1, 0, 3)) @@ (11 :> I("ADD", 2, 1, 2, 0)) @@
    (12 :> I("LW", 1, 3, 0, 32))  @@ (13 :> I("SW", 0, 3, 1, 32)) @@
    (14 :> I("LB", 2, 3, 0, 33))  @@ (15 :> I("SB", 0, 3, 2, 34)) @@
    (16 :> I("BEQ", 0, 1, 2, 8))  @@
    \* jumps, exceptions and CSRs
    (17 :> I("JAL", 1, 0, 0, 8))  @@ (18 :> I("JALR", 1, 3, 0, 212)) @@
    (19 :> I("JALR", 1, 3, 0, 226)) @@ (20 :> I("ECALL", 0, 0, 0, 0)) @@
    (21 :> C("CSRRW", 1, 3, "mepc")) @@ (22 :> C("CSRRS", 2, 1, "mcause")) @@
    (23 :> I("LW", 1, 3, 0, 33))  @@ (24 :> I("SW", 0, 0, 1, 0)) @@
    (25 :> I("ADD", 17, 1, 2, 0)) @@ (26 :> I("BNE", 0, 3, 0, 6)) @@
    (27 :> I("FENCE_I", 0, 0, 0, 0)) @@
    \* the exception handler
    (30 :> C("CSRRS", 2, 0, "mepc")) @@ (31 :> I("ADDI", 2, 2, 0, 4)) @@
    (32 :> C("CSRRW", 0, 2, "mepc")) @@ (33 :> I("MRET", 0, 0, 0, 0)) @@
    \* self-modifying code, CLINT, a reserved source register, far jumps, mtime
    (40 :> I("ADDI", 1, 0, 0, 11)) @@ (41 :> I("SW", 0, 3, 1, 216)) @@
    (42 :> I("SW", 0, 0, 1, 28))   @@ (43 :> I("ADD", 1, 17, 2, 0)) @@
    (44 :> I("JAL", 0, 0, 0, 28))  @@ (45 :> I("JAL", 0, 0, 0, 232)) @@
    (46 :> I("LW", 1, 0, 0, 24))   @@ (47 :> I("JALR", 1, 3, 0, 48))

(* x3 = 128 and mtvec = x3, then prog from 72 on and ebreak; the handler   *)
(* at 128 skips the instruction that trapped; data from 160 on.            *)
Image(prog, handler) ==
    LET end == 72 + 4 * Len(prog)
    IN [a \in RamWords |->
          CASE a = 64 -> 2
            [] a = 68 -> 3
            [] a \in 72..(end - 4) -> prog[(a - 68) \div 4]
            [] a \in end..(end + 8) -> Ebreak
            [] a \in 128..(124 + 4 * Len(handler)) -> handler[(a - 124) \div 4]
            [] a = 160 -> 149
            [] OTHER -> Nop]

Return   == <<30, 31, 32, 33>>
Handler  == <<Nop>> \o Return

(* Programs of n instructions of an alphabet and a last one of another. *)
Programs(alphabet, n, last) ==
    {Image(Append(p, i), Handler) : p \in [1..n -> alphabet], i \in last}
(* The same from 80 on: a cache line of four instructions, which therefore *)
(* follow one another through the stages without a gap.                    *)
LinePrograms(alphabet, last) ==
    {Image(<<Nop, Nop>> \o Append(p, i), Handler) : p \in [1..3 -> alphabet], i \in last}

(* Passing runs.  The last instruction of the longer ones is a consumer of *)
(* the others, or one kind of redirect, trap and CSR access.               *)
HazardImages   == LinePrograms({10, 11, 12, 13, 14, 15, 16}, {11, 12, 15, 16})
ControlImages  == Programs({12, 17, 18, 19, 20, 21, 22, 23, 24, 25, 26, 27}, 2,
                           {12, 17, 20, 22, 24})
DifftestImages == HazardImages \cup ControlImages
ProgressImages == LET all == {11, 12, 13, 16, 17, 18, 20, 22, 23, 24, 27}
                  IN Programs(all, 1, all)

(* The handler starts with a CSR read and its line is in the cache. *)
StaleCsrImages == {Image(<<Nop, Nop, 20, Nop, 20>>, Return)}
(* The last word of RAM is ebreak, or a jump back to one. *)
TailImages == {[a \in RamWords |-> IF a = RamBase + RamSize - 4 THEN Ebreak ELSE Nop]}
LastJumpImages ==
    {[a \in RamWords |-> CASE a = 64 -> 44
                           [] a = 92 -> 45
                           [] a = 76 -> Ebreak
                           [] OTHER -> Nop]}
(* A store overwrites the instruction behind fence.i. *)
FenceIImages == {Image(<<40, Nop, 41, 27, Nop>>, Handler)}
(* A store of 5 to mtimeh; a reserved source register. *)
ClintImages == {Image(<<10, 42, Nop>>, Handler)}
ReservedImages == {Image(<<10, 43, Nop>>, Handler)}
(* Two loads of mtime; a jump to the end of RAM. *)
TimerImages == {Image(<<Nop, 46, 46>>, Handler)}
FarImages   == {Image(<<Nop, 47>>, Handler)}
=============================================================================
