--------------------------- MODULE EmulatorShell ---------------------------
(***************************************************************************)
(* A session of the interactive shell (emulator/src/shell.cpp) on the      *)
(* reference simulator: stepping, the run loop with its stop conditions,   *)
(* breakpoints, checkpoints, the ring of retired instructions and the UART *)
(* queues (emulator_iss.cpp, uart.cpp).                                    *)
(*                                                                         *)
(* What an instruction computes is EmulatorISS's matter.  Here a program   *)
(* is a control-flow graph: each pc has a kind of instruction and the pc   *)
(* that follows it.  Counters that are only compared with a limit stay at  *)
(* Many once they get there, and mtime wraps at TimeMod.                   *)
(***************************************************************************)
EXTENDS Naturals, Sequences

CONSTANTS Program,      \* pc -> [kind, next, ch]
          ResetPc, Mtvec,
          RingSize,     \* RING_SIZE
          Inputs,       \* what `uart input' may set
          Conditions,   \* what `run' may wait for, see RunCondition
          Many, TimeMod, MaxOut,
          MaxCycles, MaxPcStuck,   \* the limits of Config, 0 for none
          Cmds          \* the commands given

Pcs   == DOMAIN Program
Kinds == {"plain", "emit", "read", "ebreak", "fault"}

ShellAssumption ==
    /\ \A p \in Pcs : Program[p].kind \in Kinds /\ Program[p].next \in Pcs
    /\ {ResetPc, Mtvec} \subseteq Pcs
    /\ RingSize \in Nat \ {0} /\ TimeMod \in Nat \ {0} /\ MaxOut \in Nat
    /\ MaxCycles \in 0..Many /\ MaxPcStuck \in 0..Many

VARIABLES m,        \* the machine: hart, clint and UART
          ring,     \* ring_buffer_, ring_head_ and ring_full_
          breaks,   \* breakpoints_
          run,      \* the locals of run_with_condition
          file,     \* the checkpoint file
          past      \* history: events retired, newest first, RingSize of them;
                    \* the machine when the file was written; what was done last

vars == <<m, ring, breaks, run, file, past>>

NoByte  == 255      \* what an empty UART answers
NoEvent == [pc |-> ResetPc, exception |-> FALSE]
Limit(n) == IF n > Many THEN Many ELSE n
Contains(s, t) == \E i \in 0..(Len(s) - Len(t)) : SubSeq(s, i + 1, i + Len(t)) = t

(* Hart::reset *)
HartReset(s, pc) == [s EXCEPT !.pc = pc, !.x = 0, !.halted = FALSE]

Off == [on |-> FALSE]

Init ==
    /\ m = [pc |-> ResetPc, x |-> 0, halted |-> FALSE, cycle |-> 0, time |-> 0,
            uin |-> <<>>, uout |-> <<>>]
    /\ ring = [buf |-> [i \in 0..(RingSize - 1) |-> NoEvent], head |-> 0, full |-> FALSE]
    /\ breaks = {} /\ run = Off /\ file = [written |-> FALSE]
    /\ past = [events |-> <<>>, saved |-> m, last |-> "none"]
----------------------------------------------------------------------------
(* Mutant: ring_full_ is set by the last slot and not by the wrap. *)
PushRingEarly(r, ev) ==
    LET head == (r.head + 1) % RingSize
    IN [buf |-> [r.buf EXCEPT ![r.head] = ev], head |-> head,
        full |-> r.full \/ head = RingSize - 1]

push_ring(r, ev) ==
    LET head == (r.head + 1) % RingSize
    IN [buf |-> [r.buf EXCEPT ![r.head] = ev], head |-> head, full |-> r.full \/ head = 0]

last_events(r, n) ==
    LET count == IF r.full THEN RingSize ELSE r.head
    IN [i \in 1..(IF n < count THEN n ELSE count) |-> r.buf[(r.head + RingSize - i) % RingSize]]

(* step_inst of a machine that is not halted: the state after it *)
Stepped(s) ==
    LET i == Program[s.pc]
        t == CASE i.kind = "plain"  -> [s EXCEPT !.pc = i.next]
               [] i.kind = "emit"   -> [s EXCEPT !.pc = i.next, !.uout = Append(@, i.ch)]
               [] i.kind = "read"   ->
                     IF s.uin = <<>> THEN [s EXCEPT !.pc = i.next, !.x = NoByte]
                     ELSE [s EXCEPT !.pc = i.next, !.x = Head(s.uin), !.uin = Tail(s.uin)]
               [] i.kind = "ebreak" -> [s EXCEPT !.pc = Mtvec, !.halted = TRUE]
               [] i.kind = "fault"  -> [s EXCEPT !.pc = Mtvec]
    IN [t EXCEPT !.cycle = Limit(@ + 1), !.time = (@ + 1) % TimeMod]

EventOf(s) == [pc |-> s.pc, exception |-> Program[s.pc].kind \in {"ebreak", "fault"}]

(* bound: no more than MaxOut bytes of output *)
MayStep == Program[m.pc].kind = "emit" => Len(m.uout) < MaxOut

Remember(ev) ==
    [past EXCEPT !.events = SubSeq(<<ev>> \o @, 1, IF Len(@) < RingSize THEN Len(@) + 1 ELSE RingSize),
                 !.last = "step"]

(* step_inst: what changes when an instruction retires *)
StepInst ==
    /\ ~m.halted /\ MayStep
    /\ m' = Stepped(m)
    /\ ring' = push_ring(ring, EventOf(m))
    /\ past' = Remember(EventOf(m))
----------------------------------------------------------------------------
(* The commands *)
Prompt(cmd) == cmd \in Cmds /\ ~run.on

Step == Prompt("step") /\ StepInst /\ UNCHANGED <<breaks, run, file>>

(* EmulatorISS::reset; RAM and breakpoints stay *)
Reset ==
    /\ Prompt("reset")
    /\ m' = [HartReset(m, ResetPc) EXCEPT !.cycle = 0, !.time = 0, !.uin = <<>>, !.uout = <<>>]
    /\ ring' = [ring EXCEPT !.head = 0, !.full = FALSE]
    /\ past' = [past EXCEPT !.events = <<>>, !.last = "reset"]
    /\ UNCHANGED <<breaks, run, file>>

(* load_elf of a program with another entry point *)
LoadElf(entry) ==
    /\ Prompt("load_elf")
    /\ m' = HartReset(m, entry)
    /\ past' = [past EXCEPT !.last = "load_elf"]
    /\ UNCHANGED <<ring, breaks, run, file>>

Break(a)       == Prompt("break") /\ breaks' = breaks \cup {a} /\ UNCHANGED <<m, ring, run, file, past>>
DeleteBreak(a) == Prompt("break") /\ breaks' = breaks \ {a} /\ UNCHANGED <<m, ring, run, file, past>>

UartInput(data) ==
    /\ Prompt("uart")
    /\ m' = [m EXCEPT !.uin = data]
    /\ past' = [past EXCEPT !.last = "uart"]
    /\ UNCHANGED <<ring, breaks, run, file>>

CheckpointSave ==
    /\ Prompt("checkpoint")
    /\ file' = [written |-> TRUE, cycle |-> m.cycle, pc |-> m.pc, x |-> m.x]
    /\ past' = [past EXCEPT !.saved = m, !.last = "save"]
    /\ UNCHANGED <<m, ring, breaks, run>>

CheckpointLoad ==
    /\ Prompt("checkpoint") /\ file.written
    /\ m' = [m EXCEPT !.cycle = file.cycle, !.pc = file.pc, !.x = file.x]
    /\ past' = [past EXCEPT !.last = "load"]
    /\ UNCHANGED <<ring, breaks, run, file>>

(* run, run n, run to, run until *)
RunStart(c) ==
    /\ Prompt("run")
    /\ run' = [on |-> TRUE, cond |-> c, count |-> 0, stuck_pc |-> 0, stuck |-> 0,
               before |-> Len(m.uout)]
    /\ past' = [past EXCEPT !.last = "run"]
    /\ UNCHANGED <<m, ring, breaks, file>>

(* the conditions tested after an instruction, t the machine then *)
(* Mutant: the pc tested is that of the instruction just executed. *)
ConditionMetLate(c, t) ==
    \/ c.kind = "to"   /\ m.pc = c.pc
    \/ c.kind = "reg"  /\ t.x = c.value
    \/ c.kind = "uart" /\ Len(t.uout) > run.before /\ Contains(t.uout, c.text)
    \/ m.pc \in breaks

ConditionMet(c, t) ==
    \/ c.kind = "to"   /\ t.pc = c.pc
    \/ c.kind = "reg"  /\ t.x = c.value
    \/ c.kind = "uart" /\ Len(t.uout) > run.before /\ Contains(t.uout, c.text)
    \/ t.pc \in breaks

(* the length of the row of retirements of one pc, ev the last of them *)
(* Mutant: the row never grows. *)
StuckCountOne(ev) == IF ev.exception THEN 0 ELSE 1

StuckCount(ev) ==
    IF ev.exception THEN 0
    ELSE IF ev.pc = run.stuck_pc THEN Limit(run.stuck + 1) ELSE 1

RunStep ==
    /\ run.on /\ StepInst
    /\ LET ev    == EventOf(m)
           count == Limit(run.count + 1)
           stuck == StuckCount(ev)
           stop  == \/ MaxCycles # 0 /\ m'.cycle >= MaxCycles
                    \/ MaxPcStuck # 0 /\ stuck >= MaxPcStuck
                    \/ run.cond.n # 0 /\ count >= run.cond.n
                    \/ ConditionMet(run.cond, m')
       IN run' = IF stop THEN Off
                 ELSE [run EXCEPT !.count = count, !.stuck = stuck,
                                  !.stuck_pc = IF ev.exception THEN 0 ELSE ev.pc]
    /\ UNCHANGED <<breaks, file>>

(* step_inst of a halted machine returns false *)
RunHalted == run.on /\ m.halted /\ run' = Off /\ UNCHANGED <<m, ring, breaks, file, past>>

RunLoop == RunStep \/ RunHalted

Next ==
    \/ Step \/ Reset \/ CheckpointSave \/ CheckpointLoad \/ RunLoop
    \/ \E a \in Pcs : LoadElf(a) \/ Break(a) \/ DeleteBreak(a)
    \/ \E data \in Inputs : UartInput(data)
    \/ \E c \in Conditions : RunStart(c)

Spec == Init /\ [][Next]_vars

(* A run goes on as long as nothing stops it. *)
FairSpec == Spec /\ WF_vars(RunLoop)
----------------------------------------------------------------------------
(* `last n' shows the last n instructions retired since the reset, newest  *)
(* first, however often the ring has wrapped and whatever was loaded or    *)
(* reset in between.                                                       *)
LastExact ==
    \A n \in 0..(RingSize + 1) :
        last_events(ring, n) = SubSeq(past.events, 1, IF n < Len(past.events) THEN n ELSE Len(past.events))

(* an occurrence of t in s ends at i *)
EndsAt(s, t, i) == i >= Len(t) /\ SubSeq(s, i - Len(t) + 1, i) = t

(* Breakpoints and `run to' stop before the instruction at the target: a   *)
(* run that has started never goes on from such a pc, and never after the  *)
(* register it waits for has its value or the text it waits for is out.    *)
StopsBeforeTarget ==
    run.on /\ run.count > 0 =>
        /\ m.pc \notin breaks
        /\ run.cond.kind = "to"  => m.pc # run.cond.pc
        /\ run.cond.kind = "reg" => m.x # run.cond.value
        /\ run.cond.kind = "uart" => ~\E i \in (run.before + 1)..Len(m.uout) : EndsAt(m.uout, run.cond.text, i)

(* --max-pc-stuck ends a run that retires one pc for ever, and `run n'     *)
(* ends whatever the program does.                                         *)
RunEnds ==
    run.on /\ (run.cond.n > 0 \/ (MaxPcStuck # 0 /\ Program[m.pc] = [kind |-> "plain", next |-> m.pc, ch |-> 0]))
        ~> ~run.on

(* --max-pc-stuck "catches tight fault loops": a run that does nothing but *)
(* fault ends too.                                                         *)
FaultLoopEnds ==
    run.on /\ Program[m.pc].kind = "fault" /\ m.pc = Mtvec ~> ~run.on

(* `run until uart' runs until the string is emitted, in this run: when it *)
(* stops for the string, the string's last byte is new.                    *)
UntilNewOutput ==
    [][run.on /\ run.cond.kind = "uart" /\ ConditionMet(run.cond, m') /\ m'.pc \notin breaks =>
         \E i \in (run.before + 1)..Len(m'.uout) : EndsAt(m'.uout, run.cond.text, i)]_vars

(* checkpoint load puts the machine into the state it was saved in,        *)
(* the UART and the halted hart included.                                  *)
CheckpointRestores == past.last = "load" => m = past.saved
=============================================================================
