-------------------------- MODULE MCEmulatorShell --------------------------
(***************************************************************************)
(* Sessions of the shell: each is an instance of EmulatorShell with its    *)
(* own program, commands and limits.  A behaviour is one session.          *)
(***************************************************************************)
EXTENDS Naturals, Sequences, TLC

VARIABLES session, m, ring, breaks, run, file, past

sessionVars == <<m, ring, breaks, run, file, past>>
vars == <<session, sessionVars>>

P(kind, next) == [kind |-> kind, next |-> next, ch |-> 0]
E(next, ch)   == [kind |-> "emit", next |-> next, ch |-> ch]

(* reads a byte, faults, prints 7 and loops; 5 is where it might end *)
LoopProgram == 1 :> P("read", 2) @@ 2 :> P("plain", 3) @@ 3 :> P("fault", 4) @@ 4 :> E(1, 7)
               @@ 5 :> P("ebreak", 5)
(* a spin at 2, reached over a fault *)
SpinProgram == 1 :> P("plain", 3) @@ 2 :> P("plain", 2) @@ 3 :> P("fault", 3)

Run(n)      == [kind |-> "n", n |-> n]
RunTo(pc)   == [kind |-> "to", n |-> 0, pc |-> pc]
RunReg(v)   == [kind |-> "reg", n |-> 0, value |-> v]
RunUart(s)  == [kind |-> "uart", n |-> 0, text |-> s]

(* stop conditions; nothing but their order limits the session *)
Stops == INSTANCE EmulatorShell WITH
    Program <- LoopProgram, ResetPc <- 1, Mtvec <- 4, RingSize <- 1, Inputs <- {<<9>>},
    Conditions <- {Run(2), RunTo(4), RunReg(9), RunUart(<<7>>)}, Many <- 2, TimeMod <- 1, MaxOut <- 2,
    MaxCycles <- 0, MaxPcStuck <- 0, Cmds <- {"step", "load_elf", "break", "uart", "run"}

(* a ring of three that wraps, between resets and loads *)
History == INSTANCE EmulatorShell WITH
    Program <- SpinProgram, ResetPc <- 1, Mtvec <- 2, RingSize <- 3, Inputs <- {},
    Conditions <- {}, Many <- 1, TimeMod <- 1, MaxOut <- 0,
    MaxCycles <- 0, MaxPcStuck <- 0, Cmds <- {"step", "reset", "load_elf", "checkpoint"}

(* --max-pc-stuck *)
Limits == INSTANCE EmulatorShell WITH
    Program <- SpinProgram, ResetPc <- 1, Mtvec <- 2, RingSize <- 2, Inputs <- {},
    Conditions <- {Run(0), Run(2)}, Many <- 4, TimeMod <- 2, MaxOut <- 0,
    MaxCycles <- 0, MaxPcStuck <- 3, Cmds <- {"step", "reset", "load_elf", "break", "run"}

ASSUME SessionsAssumption ==
    Stops!ShellAssumption /\ History!ShellAssumption /\ Limits!ShellAssumption

Init == \/ session = "stops"   /\ Stops!Init
        \/ session = "history" /\ History!Init
        \/ session = "limits"  /\ Limits!Init

StopsStep   == session = "stops"   /\ Stops!Next   /\ UNCHANGED session
HistoryStep == session = "history" /\ History!Next /\ UNCHANGED session
LimitsStep  == session = "limits"  /\ Limits!Next  /\ UNCHANGED session
LimitsLoop  == session = "limits"  /\ Limits!RunLoop /\ UNCHANGED session

(* A run goes on as long as nothing stops it. *)
FairSpec == /\ Init /\ [][StopsStep \/ HistoryStep \/ LimitsStep]_vars
            /\ WF_vars(LimitsLoop)
----------------------------------------------------------------------------
(* Breakpoints, `run to' and `run until' stop before the next instruction: *)
(* no run goes on from a pc, with a register value or after a text that it *)
(* should have stopped at.                                                 *)
StopsBeforeTarget == session = "stops" => Stops!StopsBeforeTarget

(* `last n' shows the last n instructions retired since the reset, newest  *)
(* first, however often the ring has wrapped and whatever was loaded or    *)
(* reset in between.                                                       *)
LastExact == session = "history" => History!LastExact

(* --max-pc-stuck ends a run that retires one pc for ever, and `run n'     *)
(* ends whatever the program does.                                         *)
RunEnds ==
    session = "limits" /\ run.on
        /\ (run.cond.n > 0 \/ SpinProgram[m.pc] = P("plain", m.pc))
        ~> ~run.on
=============================================================================
