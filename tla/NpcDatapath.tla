---------------------------- MODULE NpcDatapath ----------------------------
(***************************************************************************)
(* The combinational units of the core: npc_decoder.v, npc_alu.v,          *)
(* npc_branch.v, npc_load_store_unit.v and the CSR operation of the EX     *)
(* stage.  A decoded instruction is the record of its fields; the control  *)
(* signals of the decoder are predicates of it.                            *)
(***************************************************************************)
EXTENDS Rv32e

(* Control signals. *)
HasRd(d)    == d.op \in OpImm \cup OpReg \cup {"LUI", "AUIPC", "JAL", "JALR"} \cup Loads \cup CsrOps
HasRs1(d)   == d.op \in OpImm \cup OpReg \cup {"JALR"} \cup Branches \cup Loads \cup Stores \cup CsrReg
HasRs2(d)   == d.op \in OpReg \cup Branches \cup Stores
RegWrite(d) == HasRd(d)
MemRead(d)  == d.op \in Loads
MemWrite(d) == d.op \in Stores
IsCsr(d)    == d.op \in CsrOps
IsJump(d)   == d.op \in {"JAL", "JALR"}

MemSize(d) == CASE d.op \in {"LH", "LHU", "SH"} -> 2
                [] d.op \in {"LW", "SW"} -> 4
                [] OTHER -> 1

(* The four-bit register numbers, and the RV32E check of the fifth bit. *)
Rd(d)  == d.rd % GprCount
Rs1(d) == d.rs1 % GprCount
Rs2(d) == d.rs2 % GprCount
Reserved(d) == \/ HasRd(d) /\ d.rd >= GprCount
               \/ HasRs1(d) /\ d.rs1 >= GprCount
               \/ HasRs2(d) /\ d.rs2 >= GprCount

----------------------------------------------------------------------------
(* The comparison of the SLT and SLTU operations. *)
AluLess(d, a, b) == IF d.op \in {"SLT", "SLTI"} THEN Signed(a) < Signed(b) ELSE a < b

(* npc_alu: operand selection and the operation of the decoder. *)
AluResult(d, pc, v1, v2) ==
    LET a == CASE d.op = "LUI" -> 0
               [] d.op \in {"AUIPC", "JAL"} -> pc
               [] OTHER -> v1
        b == IF d.op \in OpReg \cup Branches THEN v2 ELSE d.imm
    IN CASE d.op = "SUB" -> Minus(a, b)
         [] d.op \in {"SLT", "SLTI", "SLTU", "SLTIU"} -> Truth(AluLess(d, a, b))
         [] d.op \in {"XOR", "XORI"}   -> BitXor(a, b)
         [] d.op \in {"OR", "ORI"}     -> BitOr(a, b)
         [] d.op \in {"AND", "ANDI"}   -> BitAnd(a, b)
         [] d.op \in {"SLL", "SLLI"}   -> ShiftLeft(a, b)
         [] d.op \in {"SRL", "SRLI"}   -> ShiftRight(a, b)
         [] d.op \in {"SRA", "SRAI"}   -> ShiftRightArith(a, b)
         [] OTHER -> Plus(a, b)

(* Mutant: >= decided as >. *)
BranchTakenStrict(d, v1, v2) ==
    CASE d.op = "BEQ"  -> v1 = v2
      [] d.op = "BNE"  -> v1 # v2
      [] d.op = "BLT"  -> Signed(v1) < Signed(v2)
      [] d.op = "BGE"  -> Signed(v1) > Signed(v2)
      [] d.op = "BLTU" -> v1 < v2
      [] d.op = "BGEU" -> v1 > v2
      [] OTHER -> FALSE

(* npc_branch *)
BranchTaken(d, v1, v2) ==
    CASE d.op = "BEQ"  -> v1 = v2
      [] d.op = "BNE"  -> v1 # v2
      [] d.op = "BLT"  -> Signed(v1) < Signed(v2)
      [] d.op = "BGE"  -> Signed(v1) >= Signed(v2)
      [] d.op = "BLTU" -> v1 < v2
      [] d.op = "BGEU" -> v1 >= v2
      [] OTHER -> FALSE

BranchTarget(d, pc) == Plus(pc, d.imm)
JumpTarget(d, pc, v1) ==
    IF d.op = "JALR" THEN LET t == Plus(v1, d.imm) IN t - (t % 2) ELSE Plus(pc, d.imm)

(* The CSR operation: the new value, and whether it is written. *)
CsrOperand(d, v1) == IF d.op \in CsrImm THEN d.imm ELSE v1
CsrNewValue(d, v1, old) ==
    CASE d.op \in {"CSRRW", "CSRRWI"} -> CsrOperand(d, v1)
      [] d.op \in {"CSRRS", "CSRRSI"} -> BitOr(old, CsrOperand(d, v1))
      [] d.op \in {"CSRRC", "CSRRCI"} -> BitAndNot(old, CsrOperand(d, v1))
      [] OTHER -> old
CsrDoWrite(d) ==
    \/ d.op \in {"CSRRW", "CSRRWI"}
    \/ d.op \in {"CSRRS", "CSRRC"} /\ Rs1(d) # 0
    \/ d.op \in {"CSRRSI", "CSRRCI"} /\ d.imm # 0

(* The read port of npc_csr_file. *)
CsrReadFault(c)      == c \notin CsrNames
CsrReadData(file, c) == IF c \in CsrNames THEN file[c] ELSE 0

----------------------------------------------------------------------------
(* npc_load_store_unit: alignment, and the shape of loaded data. *)
LsuMisaligned(d, a) == ~Aligned(a, MemSize(d))

(* Mutant: no load is sign-extended. *)
LoadFormatUnsigned(d, data) == data % SizeMod(MemSize(d))

LoadFormat(d, data) ==
    CASE d.op \in {"LB", "LH"}   -> SignExtend(data, MemSize(d))
      [] d.op \in {"LBU", "LHU"} -> data % SizeMod(MemSize(d))
      [] OTHER -> data
=============================================================================
