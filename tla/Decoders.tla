------------------------------ MODULE Decoders ------------------------------
(***************************************************************************)
(* The two instruction decoders, bit field by bit field: npc_decoder.v     *)
(* with npc_imm.v, whose control signals drive the pipeline, and decode()  *)
(* of emulator/src/decoder.cpp, whose InstType drives the reference.       *)
(*                                                                         *)
(* Everywhere else an instruction is the record of its fields (Rv32e), and *)
(* both models see the same record.  Here the record is earned: for every  *)
(* word the control signals are those NpcDatapath gives to the InstType of *)
(* the reference, with the same immediate.                                 *)
(*                                                                         *)
(* A word is the record of its bit fields; immediates are signed numbers.  *)
(***************************************************************************)
EXTENDS NpcDatapath, FiniteSets

CONSTANTS Opcodes, Funct7s, RegFields    \* the values the fields take

DecodersAssumption ==
    Opcodes \subseteq 0..127 /\ Funct7s \subseteq 0..127 /\ RegFields \subseteq 0..31

VARIABLES w,      \* the instruction word
          rtl,    \* the outputs of npc_decoder and npc_imm for it
          ref     \* what decode() returns for it

decVars == <<w, rtl, ref>>

Ref == INSTANCE EmulatorISS WITH iss <- 0

Fields(op, f3, f7, rs1, rs2, rd) ==
    [op |-> op, f3 |-> f3, f7 |-> f7, rs1 |-> rs1, rs2 |-> rs2, rd |-> rd]

(* inst[31:20] and inst[31:12] *)
Funct12(v) == v.f7 * 32 + v.rs2
Upper20(v) == (Funct12(v) * 32 + v.rs1) * 8 + v.f3
----------------------------------------------------------------------------
(* npc_imm *)
(* Mutant: bit 11 of a branch offset taken from the wrong end. *)
NpcImmBranchBit(v, sel) ==
    LET s == v.f7 \div 64
    IN CASE sel = "I" -> Funct12(v) - s * 2^12
         [] sel = "S" -> v.f7 * 32 + v.rd - s * 2^12
         [] sel = "B" -> (v.rd \div 16) * 2^11 + (v.f7 % 64) * 32 + (v.rd % 16) * 2 - s * 2^12
         [] sel = "U" -> (Upper20(v) - s * 2^20) * 2^12
         [] sel = "J" -> (v.rs1 * 8 + v.f3) * 2^12 + (v.rs2 % 2) * 2^11
                           + ((v.f7 % 64) * 16 + v.rs2 \div 2) * 2 - s * 2^20
         [] sel = "Z" -> v.rs1

npc_imm(v, sel) ==
    LET s == v.f7 \div 64        \* inst[31], which fills the upper bits
    IN CASE sel = "I" -> Funct12(v) - s * 2^12
         [] sel = "S" -> v.f7 * 32 + v.rd - s * 2^12
         [] sel = "B" -> (v.rd % 2) * 2^11 + (v.f7 % 64) * 32 + (v.rd \div 2) * 2 - s * 2^12
         [] sel = "U" -> (Upper20(v) - s * 2^20) * 2^12
         [] sel = "J" -> (v.rs1 * 8 + v.f3) * 2^12 + (v.rs2 % 2) * 2^11
                           + ((v.f7 % 64) * 16 + v.rs2 \div 2) * 2 - s * 2^20
         [] sel = "Z" -> v.rs1

(* The control signals before the case statement. *)
NoControls ==
    [illegal |-> FALSE, sys |-> "none", alu |-> "ADD", a |-> "RS1", b |-> "IMM", imm |-> "I",
     reg_write |-> FALSE, mem |-> "none", size |-> 0, sext |-> FALSE, branch |-> "NONE",
     jump |-> "none", csr |-> "NONE", rd |-> FALSE, rs1 |-> FALSE, rs2 |-> FALSE]

AluOps(alt) == [i \in 0..7 |->
    <<IF alt THEN "SUB" ELSE "ADD", "SLL", "SLT", "SLTU", "XOR",
      IF alt THEN "SRA" ELSE "SRL", "OR", "AND">>[i + 1]]
BranchTypes == [i \in 0..7 |-> <<"BEQ", "BNE", "none", "none", "BLT", "BGE", "BLTU", "BGEU">>[i + 1]]
CsrTypes == [i \in 0..7 |->
    <<"none", "CSRRW", "CSRRS", "CSRRC", "none", "CSRRWI", "CSRRSI", "CSRRCI">>[i + 1]]
SystemOf(f12) == CASE f12 = 0   -> "ECALL"
                   [] f12 = 1   -> "EBREAK"
                   [] f12 = 770 -> "MRET"      \* 0x302
                   [] f12 = 261 -> "WFI"       \* 0x105
                   [] OTHER     -> "none"

(* one operator per arm of the case on the opcode *)

DecOpImm(v) ==
    [NoControls EXCEPT !.rd = TRUE, !.rs1 = TRUE, !.reg_write = TRUE,
        !.alu = AluOps(v.f3 = 5 /\ v.f7 = 32)[v.f3],
        !.illegal = (v.f3 = 1 /\ v.f7 # 0) \/ (v.f3 = 5 /\ v.f7 \notin {0, 32})]

DecOp(v) ==
    [NoControls EXCEPT !.rd = TRUE, !.rs1 = TRUE, !.rs2 = TRUE, !.reg_write = TRUE, !.b = "RS2",
        !.alu = AluOps(v.f7 = 32)[v.f3],
        !.illegal = v.f7 \notin (IF v.f3 \in {0, 5} THEN {0, 32} ELSE {0})]

DecUpper(a) == [NoControls EXCEPT !.rd = TRUE, !.reg_write = TRUE, !.a = a, !.imm = "U"]

DecJal == [NoControls EXCEPT !.rd = TRUE, !.reg_write = TRUE, !.a = "PC", !.imm = "J",
                             !.jump = "pc"]

DecJalr(v) ==
    IF v.f3 = 0
    THEN [NoControls EXCEPT !.rd = TRUE, !.rs1 = TRUE, !.reg_write = TRUE, !.jump = "reg"]
    ELSE [NoControls EXCEPT !.illegal = TRUE]

DecBranch(v) ==
    [NoControls EXCEPT !.rs1 = TRUE, !.rs2 = TRUE, !.b = "RS2", !.imm = "B",
        !.branch = BranchTypes[v.f3], !.illegal = BranchTypes[v.f3] = "none"]

DecLoad(v) ==
    [NoControls EXCEPT !.rd = TRUE, !.rs1 = TRUE, !.reg_write = TRUE, !.mem = "load",
        !.size = 2^(v.f3 % 4), !.sext = v.f3 < 4,
        !.illegal = v.f3 % 4 = 3 \/ v.f3 \in {6, 7}]

DecStore(v) ==
    [NoControls EXCEPT !.rs1 = TRUE, !.rs2 = TRUE, !.mem = "store", !.imm = "S",
        !.size = 2^(v.f3 % 4), !.illegal = v.f3 >= 4 \/ v.f3 % 4 = 3]

DecMiscMem(v) ==
    CASE v.f3 = 0 -> NoControls
      [] v.f3 = 1 /\ Funct12(v) = 0 /\ v.rs1 = 0 -> [NoControls EXCEPT !.sys = "FENCE_I"]
      [] OTHER -> [NoControls EXCEPT !.illegal = TRUE]

DecSystem(v) ==
    IF v.f3 = 0
    THEN [NoControls EXCEPT !.sys = SystemOf(Funct12(v)), !.illegal = SystemOf(Funct12(v)) = "none"]
    ELSE [NoControls EXCEPT !.rd = TRUE, !.reg_write = TRUE, !.rs1 = v.f3 \in {1, 2, 3},
             !.imm = IF v.f3 \in {5, 6, 7} THEN "Z" ELSE "I",
             !.csr = CsrTypes[v.f3], !.illegal = v.f3 = 4]

npc_decoder(v) ==
    CASE v.op = 19  -> DecOpImm(v)        \* 0010011
      [] v.op = 51  -> DecOp(v)           \* 0110011
      [] v.op = 55  -> DecUpper("ZERO")   \* 0110111 LUI
      [] v.op = 23  -> DecUpper("PC")     \* 0010111 AUIPC
      [] v.op = 111 -> DecJal             \* 1101111
      [] v.op = 103 -> DecJalr(v)         \* 1100111
      [] v.op = 99  -> DecBranch(v)       \* 1100011
      [] v.op = 3   -> DecLoad(v)         \* 0000011
      [] v.op = 35  -> DecStore(v)        \* 0100011
      [] v.op = 15  -> DecMiscMem(v)      \* 0001111
      [] v.op = 115 -> DecSystem(v)       \* 1110011
      [] OTHER -> [NoControls EXCEPT !.illegal = TRUE]
----------------------------------------------------------------------------
(***************************************************************************)
(* The decode table of decoder.cpp: per mask, the fields an entry fixes.   *)
(***************************************************************************)
ByOpcode == [LUI |-> 55, AUIPC |-> 23, JAL |-> 111]

(* opcode and funct3 *)
ByFunct3 ==
    [ADDI |-> <<19, 0>>, SLTI |-> <<19, 2>>, SLTIU |-> <<19, 3>>, XORI |-> <<19, 4>>,
     ORI |-> <<19, 6>>, ANDI |-> <<19, 7>>, JALR |-> <<103, 0>>,
     BEQ |-> <<99, 0>>, BNE |-> <<99, 1>>, BLT |-> <<99, 4>>, BGE |-> <<99, 5>>,
     BLTU |-> <<99, 6>>, BGEU |-> <<99, 7>>,
     LB |-> <<3, 0>>, LH |-> <<3, 1>>, LW |-> <<3, 2>>, LBU |-> <<3, 4>>, LHU |-> <<3, 5>>,
     SB |-> <<35, 0>>, SH |-> <<35, 1>>, SW |-> <<35, 2>>, FENCE |-> <<15, 0>>,
     CSRRW |-> <<115, 1>>, CSRRS |-> <<115, 2>>, CSRRC |-> <<115, 3>>,
     CSRRWI |-> <<115, 5>>, CSRRSI |-> <<115, 6>>, CSRRCI |-> <<115, 7>>]

(* opcode, funct3 and funct7 *)
ByFunct7 ==
    [SLLI |-> <<19, 1, 0>>, SRLI |-> <<19, 5, 0>>, SRAI |-> <<19, 5, 32>>,
     ADD |-> <<51, 0, 0>>, SUB |-> <<51, 0, 32>>, SLL |-> <<51, 1, 0>>, SLT |-> <<51, 2, 0>>,
     SLTU |-> <<51, 3, 0>>, XOR |-> <<51, 4, 0>>, SRL |-> <<51, 5, 0>>, SRA |-> <<51, 5, 32>>,
     OR |-> <<51, 6, 0>>, AND |-> <<51, 7, 0>>]

(* the four words compared as a whole: funct12, all else zero *)
Exact == [ECALL |-> 0, EBREAK |-> 1, MRET |-> 770, WFI |-> 261]

(* the types of the entries that match; the code takes the first *)
Matches(v) ==
    {t \in DOMAIN ByOpcode : ByOpcode[t] = v.op}
    \cup {t \in DOMAIN ByFunct3 : ByFunct3[t] = <<v.op, v.f3>>}
    \cup {t \in DOMAIN ByFunct7 : ByFunct7[t] = <<v.op, v.f3, v.f7>>}
    \cup {t \in {"FENCE_I"} : v.op = 15 /\ v.f3 = 1 /\ Funct12(v) = 0}
    \cup {t \in DOMAIN Exact : v = Fields(115, 0, Exact[t] \div 32, 0, Exact[t] % 32, 0)}

sign_extend(n, bits) == IF n >= 2^(bits - 1) THEN n - 2^bits ELSE n

DecodeImm(t, v) ==
    CASE t \in {"SLLI", "SRLI", "SRAI"} -> v.rs2
      [] t \in Stores -> sign_extend(v.f7 * 32 + v.rd, 12)
      [] t \in Branches -> sign_extend((v.f7 \div 64) * 2^12 + (v.rd % 2) * 2^11
                                         + (v.f7 % 64) * 2^5 + (v.rd \div 2) * 2, 13)
      [] t \in {"LUI", "AUIPC"} -> sign_extend(Upper20(v), 20) * 2^12
      [] t = "JAL" -> sign_extend((v.f7 \div 64) * 2^20 + (v.rs1 * 8 + v.f3) * 2^12
                                    + (v.rs2 % 2) * 2^11
                                    + ((v.f7 % 64) * 16 + v.rs2 \div 2) * 2, 21)
      [] t \in CsrImm -> v.rs1
      [] OTHER -> sign_extend(Funct12(v), 12)

decode(v) ==
    LET ts == Matches(v)
        t  == IF ts = {} THEN "UNKNOWN" ELSE CHOOSE x \in ts : TRUE
    IN [op |-> t, rd |-> v.rd, rs1 |-> v.rs1, rs2 |-> v.rs2, imm |-> DecodeImm(t, v)]
----------------------------------------------------------------------------
(* A word of some opcode is put to both decoders. *)
Init == /\ w \in {Fields(op, 0, 0, 0, 0, 0) : op \in Opcodes}
        /\ rtl = [ctrl |-> npc_decoder(w), imm |-> npc_imm(w, npc_decoder(w).imm)]
        /\ ref = decode(w)

Decode ==
    /\ w = Fields(w.op, 0, 0, 0, 0, 0)
    /\ \E f3 \in 0..7, f7 \in Funct7s, rs1, rs2, rd \in RegFields :
          w' = Fields(w.op, f3, f7, rs1, rs2, rd)
    /\ rtl' = [ctrl |-> npc_decoder(w'), imm |-> npc_imm(w', npc_decoder(w').imm)]
    /\ ref' = decode(w')

Spec == Init /\ [][Decode]_decVars
----------------------------------------------------------------------------
(* Words as the tables of notes/instruction-list.md have them: rd and rs1  *)
(* are zero where they are not used in MISC-MEM and SYSTEM, and rs1 of a   *)
(* register-register instruction exists.                                   *)
WellFormed ==
    /\ w.op = 15 \/ (w.op = 115 /\ w.f3 = 0) => w.rs1 = 0 /\ w.rd = 0
    /\ w.op = 51 => w.rs1 < GprCount

RtlTraps == \/ rtl.ctrl.illegal
            \/ rtl.ctrl.rd /\ w.rd >= GprCount
            \/ rtl.ctrl.rs1 /\ w.rs1 >= GprCount
            \/ rtl.ctrl.rs2 /\ w.rs2 >= GprCount
RefTraps == ref.op = "UNKNOWN" \/ Ref!ReservedReg(ref)

(* Core and reference take an illegal-instruction exception on the same    *)
(* well-formed words, and no word matches two entries of the decode table, *)
(* so its order does not matter.                                           *)
TrapsAgree ==
    /\ Cardinality(Matches(w)) <= 1
    /\ WellFormed => (RtlTraps <=> RefTraps)

AluOpOf(t) == CASE t = "ADDI" -> "ADD" [] t = "SLTI" -> "SLT" [] t = "SLTIU" -> "SLTU"
                [] t = "XORI" -> "XOR" [] t = "ORI" -> "OR"   [] t = "ANDI" -> "AND"
                [] t = "SLLI" -> "SLL" [] t = "SRLI" -> "SRL" [] t = "SRAI" -> "SRA"
                [] t \in OpReg -> t    [] OTHER -> "ADD"

(* Where the word does not trap, every control signal of the RTL decoder   *)
(* is what NpcDatapath makes of the InstType of the reference: the same    *)
(* operation, operands, access, branch, jump and CSR access on both sides. *)
ControlsAgree ==
    WellFormed /\ ~RtlTraps =>
        LET c == rtl.ctrl
            t == ref.op
        IN /\ c.rd = HasRd(ref) /\ c.rs1 = HasRs1(ref) /\ c.rs2 = HasRs2(ref)
           /\ c.reg_write = RegWrite(ref)
           /\ (c.mem = "load") = MemRead(ref) /\ (c.mem = "store") = MemWrite(ref)
           /\ c.mem # "none" => c.size = MemSize(ref)
           /\ MemRead(ref) => c.sext = (t \in {"LB", "LH", "LW"})
           /\ c.alu = AluOpOf(t)
           /\ c.a = CASE t = "LUI" -> "ZERO" [] t \in {"AUIPC", "JAL"} -> "PC" [] OTHER -> "RS1"
           /\ (c.b = "RS2") = (t \in OpReg \cup Branches)
           /\ c.branch = IF t \in Branches THEN t ELSE "NONE"
           /\ c.jump = CASE t = "JAL" -> "pc" [] t = "JALR" -> "reg" [] OTHER -> "none"
           /\ c.csr = IF IsCsr(ref) THEN t ELSE "NONE"
           /\ c.sys = IF t \in {"FENCE_I", "ECALL", "EBREAK", "MRET", "WFI"} THEN t ELSE "none"

(* The immediates, put together from the scattered bits of the word in two *)
(* ways, are the same number.  Of a shift the ALU uses the low five bits.  *)
ImmediatesAgree ==
    WellFormed /\ ~RtlTraps /\ ref.op \notin OpReg \cup CsrReg =>
        IF ref.op \in {"SLLI", "SRLI", "SRAI"} THEN rtl.imm % 32 = ref.imm
        ELSE rtl.imm = ref.imm

(* The reference takes only the word of fence.i as fence.i: rd, rs1 and    *)
(* the immediate are zero (the comment of the decode table).               *)
FenceIExact == ref.op = "FENCE_I" => w = Fields(15, 1, 0, 0, 0, 0)

(* ecall, ebreak, mret and wfi have rd = 0 and rs1 = 0: the core executes  *)
(* no other word as one of them.                                           *)
SystemExact ==
    rtl.ctrl.sys \in {"ECALL", "EBREAK", "MRET", "WFI"} /\ ~RtlTraps => w.rd = 0 /\ w.rs1 = 0
=============================================================================
