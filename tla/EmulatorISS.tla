---------------------------- MODULE EmulatorISS ----------------------------
(***************************************************************************)
(* The reference instruction-set simulator, emulator/src/emulator_iss.cpp  *)
(* with hart.cpp, memory.cpp, clint.cpp and uart.cpp: one instruction per  *)
(* step, no timing.  StepInst maps the state before an instruction to the  *)
(* state after it and the CommitEvent it reports.                          *)
(*                                                                         *)
(* The UART has no input queued, as in a difftest run, and its output is   *)
(* not kept.                                                               *)
(***************************************************************************)
EXTENDS Rv32e

VARIABLE iss    \* pc, x, csr, mem, time and halted of the simulator

IssReset(image) ==
    [pc |-> ResetVector, x |-> [r \in 0..(GprCount - 1) |-> 0], csr |-> CsrReset,
     mem |-> image, time |-> 0, halted |-> FALSE]

Event(pc, inst, rd, v, next, exception, cause) ==
    [pc |-> pc, inst |-> inst, rd |-> rd, rd_value |-> v, next_pc |-> next,
     exception |-> exception, cause |-> cause]

(* Hart::take_exception *)
TakeException(s, cause) ==
    [s EXCEPT !.csr = [@ EXCEPT !["mepc"] = s.pc, !["mcause"] = cause],
              !.pc = s.csr["mtvec"]]

(* An instruction that traps, and one that completes. *)
Trap(s, w, cause) ==
    LET t == TakeException(s, cause)
    IN [state |-> t, ev |-> Event(s.pc, w, 0, 0, t.pc, TRUE, cause)]

Retire(s, w, rd, v, next) ==
    [state |-> [s EXCEPT !.pc = next,
                         !.x = IF rd # 0 /\ rd < GprCount THEN [@ EXCEPT ![rd] = v] ELSE @],
     ev    |-> Event(s.pc, w, rd, v, next, FALSE, 0)]

(* Register fields that execute() checks against GPR_COUNT: its lambdas    *)
(* has_rd, has_rs1_reg (which leaves out the register-register group) and  *)
(* has_rs2_reg.                                                            *)
IssHasRd(op)  == op \notin Stores \cup Branches
IssHasRs1(op) == op \in OpImm \cup {"JALR"} \cup Loads \cup Stores \cup Branches \cup CsrReg
IssHasRs2(op) == op \in OpReg \cup Stores \cup Branches

ReservedReg(d) == \/ IssHasRd(d.op) /\ d.rd >= GprCount
                  \/ IssHasRs1(d.op) /\ d.rs1 >= GprCount
                  \/ IssHasRs2(d.op) /\ d.rs2 >= GprCount

ReadReg(s, r) == IF r = 0 \/ r >= GprCount THEN 0 ELSE s.x[r]

IssAlu(op, a, b) ==
    CASE op \in {"ADDI", "ADD"}    -> Plus(a, b)
      [] op = "SUB"                -> Minus(a, b)
      [] op \in {"SLTI", "SLT"}    -> Truth(Signed(a) < Signed(b))
      [] op \in {"SLTIU", "SLTU"}  -> Truth(a < b)
      [] op \in {"XORI", "XOR"}    -> BitXor(a, b)
      [] op \in {"ORI", "OR"}      -> BitOr(a, b)
      [] op \in {"ANDI", "AND"}    -> BitAnd(a, b)
      [] op \in {"SLLI", "SLL"}    -> ShiftLeft(a, b)
      [] op \in {"SRLI", "SRL"}    -> ShiftRight(a, b)
      [] op \in {"SRAI", "SRA"}    -> ShiftRightArith(a, b)

IssTaken(op, a, b) ==
    CASE op = "BEQ"  -> a = b
      [] op = "BNE"  -> a # b
      [] op = "BLT"  -> Signed(a) < Signed(b)
      [] op = "BGE"  -> Signed(a) >= Signed(b)
      [] op = "BLTU" -> a < b
      [] op = "BGEU" -> a >= b

AccessSize(op) == CASE op \in {"LB", "LBU", "SB"} -> 1
                    [] op \in {"LH", "LHU", "SH"} -> 2
                    [] op \in {"LW", "SW"} -> 4

(* A jump to an address that is not a multiple of four traps. *)
ExecJump(s, w, d, target) ==
    IF target % 4 # 0 THEN Trap(s, w, CauseInstMisaligned)
                      ELSE Retire(s, w, d.rd, Plus(s.pc, 4), target)

(* The branch is checked after it is resolved; a target of pc + 4 is not.  *)
ExecBranch(s, w, d) ==
    LET taken == IssTaken(d.op, ReadReg(s, d.rs1), ReadReg(s, d.rs2))
        next  == IF taken THEN Plus(s.pc, d.imm) ELSE Plus(s.pc, 4)
    IN IF next # Plus(s.pc, 4) /\ next % 4 # 0
       THEN Trap(s, w, CauseInstMisaligned)
       ELSE Retire(s, w, 0, 0, next)

(* Clint::load for a word. *)
ClintLoad(s, a) == CASE a - ClintBase = MtimeOffset  -> s.time % WordMod
                     [] a - ClintBase = MtimehOffset -> s.time \div WordMod
                     [] OTHER -> 0

ClintStore(s, a, v) ==
    CASE a - ClintBase = MtimeOffset  -> s.time - (s.time % WordMod) + v
      [] a - ClintBase = MtimehOffset -> (s.time % WordMod) + v * WordMod
      [] OTHER -> s.time

IssLoad(s, a, size) ==
    IF InClint(a) THEN IF size # 4 THEN [result |-> "MISALIGNED", data |-> 0]
                                   ELSE [result |-> "OK", data |-> ClintLoad(s, a)]
    ELSE IF InUart(a) THEN [result |-> "OK", data |-> ByteMod - 1]
    ELSE MemLoad(s.mem, a, size)

ExecLoad(s, w, d) ==
    LET size == AccessSize(d.op)
        res  == IssLoad(s, Plus(ReadReg(s, d.rs1), d.imm), size)
        v    == IF d.op \in {"LB", "LH"} THEN SignExtend(res.data, size) ELSE res.data
    IN CASE res.result = "MISALIGNED"   -> Trap(s, w, CauseLoadMisaligned)
         [] res.result = "ACCESS_FAULT" -> Trap(s, w, CauseLoadFault)
         [] OTHER -> Retire(s, w, d.rd, v, Plus(s.pc, 4))

ExecStore(s, w, d) ==
    LET a    == Plus(ReadReg(s, d.rs1), d.imm)
        v    == ReadReg(s, d.rs2)
        size == AccessSize(d.op)
        res  == CASE InClint(a) -> IF size # 4 THEN "MISALIGNED" ELSE "OK"
                  [] ~InClint(a) /\ InUart(a) -> "OK"
                  [] OTHER -> MemStoreResult(a, size)
        t    == CASE InClint(a) -> [s EXCEPT !.time = ClintStore(s, a, v)]
                  [] ~InClint(a) /\ InUart(a) -> s
                  [] OTHER -> [s EXCEPT !.mem = MemStore(s.mem, a, size, v)]
    IN CASE res = "MISALIGNED"   -> Trap(s, w, CauseStoreMisaligned)
         [] res = "ACCESS_FAULT" -> Trap(s, w, CauseStoreFault)
         [] OTHER -> Retire(t, w, 0, 0, Plus(s.pc, 4))

(* Set and clear with a zero source register or immediate do not write. *)
ExecCsr(s, w, d) ==
    LET old    == s.csr[d.csr]
        source == IF d.op \in CsrImm THEN d.imm ELSE ReadReg(s, d.rs1)
        none   == IF d.op \in CsrImm THEN d.imm = 0 ELSE d.rs1 = 0
        new    == CASE d.op \in {"CSRRW", "CSRRWI"} -> source
                    [] d.op \in {"CSRRS", "CSRRSI"} -> BitOr(old, source)
                    [] d.op \in {"CSRRC", "CSRRCI"} -> BitAndNot(old, source)
        write  == d.op \in {"CSRRW", "CSRRWI"} \/ ~none
        t      == IF write THEN [s EXCEPT !.csr = CsrWrite(s.csr, d.csr, new)] ELSE s
    IN IF d.csr \notin CsrNames THEN Trap(s, w, CauseIllegal)
       ELSE Retire(t, w, d.rd, IF d.rd = 0 THEN 0 ELSE old, Plus(s.pc, 4))

(* EmulatorISS::execute *)
Execute(s, w) ==
    LET d    == InstOf(w)
        a    == ReadReg(s, d.rs1)
        next == Plus(s.pc, 4)
    IN CASE d.op = "UNKNOWN"   -> Trap(s, w, CauseIllegal)
         [] d.op # "UNKNOWN" /\ ReservedReg(d) -> Trap(s, w, CauseIllegal)
         [] OTHER ->
            CASE d.op \in OpImm    -> Retire(s, w, d.rd, IssAlu(d.op, a, d.imm), next)
              [] d.op \in OpReg    -> Retire(s, w, d.rd, IssAlu(d.op, a, ReadReg(s, d.rs2)), next)
              [] d.op = "LUI"      -> Retire(s, w, d.rd, d.imm, next)
              [] d.op = "AUIPC"    -> Retire(s, w, d.rd, Plus(s.pc, d.imm), next)
              [] d.op = "JAL"      -> ExecJump(s, w, d, Plus(s.pc, d.imm))
              [] d.op = "JALR"     -> ExecJump(s, w, d, LET t == Plus(a, d.imm) IN t - (t % 2))
              [] d.op \in Branches -> ExecBranch(s, w, d)
              [] d.op \in Loads    -> ExecLoad(s, w, d)
              [] d.op \in Stores   -> ExecStore(s, w, d)
              [] d.op \in CsrOps   -> ExecCsr(s, w, d)
              [] d.op \in {"FENCE", "FENCE_I", "WFI"} -> Retire(s, w, 0, 0, next)
              [] d.op = "ECALL"    -> Trap(s, w, CauseEcallM)
              [] d.op = "EBREAK"   -> Trap([s EXCEPT !.halted = TRUE], w, CauseBreakpoint)
              [] d.op = "MRET"     -> Retire(s, w, 0, 0, s.csr["mepc"])

(* A fetch that fails reports the pc after the exception was taken. *)
FetchTrap(s, cause) ==
    LET t == TakeException(s, cause)
    IN [state |-> t, ev |-> Event(t.pc, 0, 0, 0, t.pc, TRUE, cause)]

(* EmulatorISS::step_inst for a hart that is not halted; the CLINT ticks   *)
(* once per instruction.                                                   *)
StepInst(s) ==
    LET f   == MemFetch(s.mem, s.pc)
        res == CASE f.result = "MISALIGNED"   -> FetchTrap(s, CauseInstMisaligned)
                 [] f.result = "ACCESS_FAULT" -> FetchTrap(s, CauseInstFault)
                 [] OTHER -> Execute(s, f.data)
    IN [res EXCEPT !.state = [@ EXCEPT !.time = (@ + 1) % (WordMod * WordMod)]]

IssInit(image) == iss = IssReset(image)
IssStep == ~iss.halted /\ iss' = StepInst(iss).state
=============================================================================
