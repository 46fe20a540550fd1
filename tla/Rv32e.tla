------------------------------- MODULE Rv32e -------------------------------
(***************************************************************************)
(* The instruction set both models execute: what an instruction word       *)
(* means, and arithmetic on words.                                         *)
(*                                                                         *)
(* The bit layout of an instruction is abstracted: Encoding gives, for a   *)
(* word, the fields the two decoders extract from it (InstType of          *)
(* emulator/src/decoder.cpp; rd, rs1, rs2 as five-bit numbers; the         *)
(* immediate already extended; the CSR by name).  A word outside its       *)
(* domain is an illegal instruction.  Memory holds plain words, so a       *)
(* program can load, store and overwrite its own instructions.             *)
(***************************************************************************)
EXTENDS NpcDefs

CONSTANTS Encoding,     \* instruction word -> fields
          GprCount,     \* number of registers, GPR_COUNT (16)
          ResetVector,  \* Config::reset_vector and `RESET_VECTOR
          ClintBase, ClintSize, MtimeOffset, MtimehOffset,
          UartBase      \* Config::uart_base

OpImm    == {"ADDI", "SLTI", "SLTIU", "XORI", "ORI", "ANDI", "SLLI", "SRLI", "SRAI"}
OpReg    == {"ADD", "SUB", "SLL", "SLT", "SLTU", "XOR", "SRL", "SRA", "OR", "AND"}
Branches == {"BEQ", "BNE", "BLT", "BGE", "BLTU", "BGEU"}
Loads    == {"LB", "LH", "LW", "LBU", "LHU"}
Stores   == {"SB", "SH", "SW"}
CsrReg   == {"CSRRW", "CSRRS", "CSRRC"}
CsrImm   == {"CSRRWI", "CSRRSI", "CSRRCI"}
CsrOps   == CsrReg \cup CsrImm
InstType == OpImm \cup OpReg \cup Branches \cup Loads \cup Stores \cup CsrOps
              \cup {"LUI", "AUIPC", "JAL", "JALR", "FENCE", "FENCE_I", "ECALL",
                    "EBREAK", "MRET", "WFI", "UNKNOWN"}

CsrNames == {"mvendorid", "marchid", "mstatus", "mtvec", "mepc", "mcause"}

(* The fields of an instruction word. *)
Unknown == [op |-> "UNKNOWN", rd |-> 0, rs1 |-> 0, rs2 |-> 0, imm |-> 0, csr |-> "none"]
InstOf(w) == IF w \in DOMAIN Encoding THEN Encoding[w] ELSE Unknown

CauseInstMisaligned == 0
CauseInstFault      == 1
CauseIllegal        == 2
CauseBreakpoint     == 3
CauseLoadMisaligned == 4
CauseLoadFault      == 5
CauseStoreMisaligned == 6
CauseStoreFault     == 7
CauseEcallM         == 11

(* mstatus is hardwired: MPP = M, 0x00001800 in the code. *)
MstatusReset == 24
CsrReset == [c \in CsrNames |-> IF c = "mstatus" THEN MstatusReset ELSE 0]

(* Hart::write_csr and the write port of npc_csr_file.v.  Unimplemented    *)
(* CSRs are filtered before.                                               *)
CsrWrite(file, c, v) ==
    CASE c \in {"mtvec", "mepc"} -> [file EXCEPT ![c] = v - (v % 4)]
      [] c = "mcause" -> [file EXCEPT ![c] = v]
      [] c = "mstatus" -> [file EXCEPT ![c] = MstatusReset]
      [] OTHER -> file

InClint(a) == ClintBase <= a /\ a < ClintBase + ClintSize
InUart(a)  == a = UartBase

----------------------------------------------------------------------------
(* Word arithmetic. *)
XLEN == CHOOSE n \in 1..32 : 2^n = WordMod

Plus(a, b)  == (a + b) % WordMod
Minus(a, b) == (a - b) % WordMod
Signed(a)   == IF 2 * a >= WordMod THEN a - WordMod ELSE a
Bit(a, i)   == (a \div 2^i) % 2
Truth(b)    == IF b THEN 1 ELSE 0

(* The word whose bit i is F applied to bits i of a and b. *)
Bitwise2(F(_, _), a, b) ==
    LET low[i \in 0..XLEN] ==
          IF i = 0 THEN 0 ELSE low[i - 1] + F(Bit(a, i - 1), Bit(b, i - 1)) * 2^(i - 1)
    IN low[XLEN]
BitXor(a, b)    == LET f(x, y) == (x + y) % 2 IN Bitwise2(f, a, b)
BitOr(a, b)     == LET f(x, y) == x + y - x * y IN Bitwise2(f, a, b)
BitAnd(a, b)    == LET f(x, y) == x * y IN Bitwise2(f, a, b)
BitAndNot(a, b) == LET f(x, y) == x * (1 - y) IN Bitwise2(f, a, b)

ShiftLeft(a, n)       == (a * 2^(n % XLEN)) % WordMod
ShiftRight(a, n)      == a \div 2^(n % XLEN)
ShiftRightArith(a, n) == (Signed(a) \div 2^(n % XLEN)) % WordMod

(* Sign extension of a field of s bytes. *)
SignExtend(v, s) ==
    LET m == SizeMod(s)
    IN (IF 2 * (v % m) >= m THEN (v % m) - m ELSE v % m) % WordMod
=============================================================================
