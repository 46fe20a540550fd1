----------------------------- MODULE UnitCheck -----------------------------
(***************************************************************************)
(* The combinational units of the core against the functions of the        *)
(* reference that compute the same thing: every instruction type on every  *)
(* pair of operands.  Evaluate puts an instruction and its operands on the *)
(* inputs and latches what the units answer.  Besides, the decoders of the *)
(* two: a behaviour puts either operands to the units or a word to the     *)
(* decoders.                                                               *)
(*                                                                         *)
(* Units: bytes of two bits, RAM of one line at 64; the operands hold both *)
(* signs, the extremes, a shift by more than the width and the four byte   *)
(* lanes of a word of RAM.  Decoders: every opcode of the instruction set  *)
(* and two that are none, every funct3; funct7 with the two legal values,  *)
(* the upper halves of 0x105 and 0x302, and both values of inst[31],       *)
(* inst[30] and inst[25]; register fields on both sides of x15.            *)
(***************************************************************************)
EXTENDS NpcDatapath, NpcAxiMaster, AxiMemory, TLC

CONSTANTS Operands,    \* values of the two source operands
          Opcodes, Funct7s, RegFields, NotUsed

ASSUME UnitAssumption == Operands \subseteq Word

VARIABLES op, v1, v2,    \* the inputs; v2 is also the immediate
          out,           \* the outputs, once done
          w, rtl, ref    \* Decoders

decVars == <<w, rtl, ref>>
vars == <<op, v1, v2, out, axiVars, axiMemVars>>

Ref == INSTANCE EmulatorISS WITH iss <- 0

Dec == INSTANCE Decoders WITH GprCount <- 16

ASSUME WordsAssumption == Dec!DecodersAssumption

MCOperands == {0, 1, 3, 64, 65, 66, 67, 127, 128, 150, 255}
MCOpcodes  == {3, 15, 19, 23, 35, 51, 55, 99, 103, 111, 115} \cup {0, 127}
MCEncoding == 0 :> Unknown

Inst == [op |-> op, rd |-> 1, rs1 |-> 1, rs2 |-> 2, imm |-> v2, csr |-> "mcause"]

Init == /\ op \in InstType /\ v1 \in Operands /\ v2 \in Operands
        /\ out = [done |-> FALSE, alu |-> 0, taken |-> FALSE, load |-> 0]
        /\ AxiInit
        /\ AxiMemInit([a \in RamWords |-> 90])

(* A store drives the write channel to the byte lanes of memory; a load    *)
(* formats what memory returns.  v1 is the address.                        *)
Req == [load |-> MemRead(Inst), store |-> MemWrite(Inst), addr |-> v1,
        size |-> MemSize(Inst), data |-> v2]

Evaluate ==
    /\ ~out.done
    /\ out' = [done |-> TRUE,
               alu |-> AluResult(Inst, ResetVector, v1, v2),
               taken |-> BranchTaken(Inst, v1, v2),
               load |-> LoadFormat(Inst, LoadResp(Req, RChannel(ArChannel(Req), mem)).data)]
    /\ mem' = MemAfter(WChannel(Req))
    /\ UNCHANGED <<op, v1, v2, axiVars, read_active, read_wait, read_addr, read_beats_left>>

DecodersOff == w = NotUsed /\ rtl = NotUsed /\ ref = NotUsed

(* the units rest on arbitrary but fixed inputs *)
UnitsOff == /\ op = NotUsed /\ v1 = 0 /\ v2 = 0 /\ out = [done |-> FALSE]
            /\ AxiInit /\ AxiMemInit([a \in RamWords |-> 90])

EvaluateUnits == op # NotUsed /\ Evaluate /\ UNCHANGED decVars
DecodeWord    == w # NotUsed /\ Dec!Decode /\ UNCHANGED vars

Spec ==
    /\ (Init /\ DecodersOff) \/ (UnitsOff /\ Dec!Init)
    /\ [][EvaluateUnits \/ DecodeWord]_<<vars, decVars>>
----------------------------------------------------------------------------
(* npc_alu and npc_branch compute what EmulatorISS::execute computes:      *)
(* signed and unsigned comparisons, logical and arithmetic shifts,         *)
(* wrap-around.                                                            *)
AluAgrees ==
    out.done =>
        /\ op \in OpImm \cup OpReg => out.alu = Ref!IssAlu(op, v1, v2)
        /\ op \in Loads \cup Stores => out.alu = Plus(v1, v2)
        /\ op \in Branches => out.taken = Ref!IssTaken(op, v1, v2)

(* The two shifts of a narrow store, store_wdata_shifted in the AXI master *)
(* and extract_narrow_write_data behind the port, undo each other, and a   *)
(* load formats its bytes as the reference does: memory and the loaded     *)
(* value are those of Memory::store and Memory::load.                      *)
LanesAgree ==
    out.done =>
        /\ op \in Stores =>
             mem = MemStore([a \in RamWords |-> 90], v1, Ref!AccessSize(op), v2)
        /\ op \in Loads =>
             LET size == Ref!AccessSize(op)
                 data == MemLoad(mem, v1, size).data
             IN out.load = IF op \in {"LB", "LH"} THEN SignExtend(data, size) ELSE data

(* On every word with zero where the instruction tables have zero, the     *)
(* decoder of the core and decode() of the reference agree: on whether it  *)
(* is an illegal instruction, on the control signals of one that is not,   *)
(* and on its immediate.                                                   *)
DecodersAgree ==
    w # NotUsed => Dec!TrapsAgree /\ Dec!ControlsAgree /\ Dec!ImmediatesAgree
=============================================================================
