----------------------------- MODULE AmContext -----------------------------
(***************************************************************************)
(* Context switching on the abstract machine: rt_hw_context_switch of the  *)
(* RT-Thread port makes a self-trap (yield), __am_asm_trap saves the       *)
(* registers on the stack of the thread that runs, the handlers choose     *)
(* another frame, and the way out of the trap loads that one.              *)
(*                                                                         *)
(* An address is a slot of a thread's stack; slots are filled upwards from *)
(* 1.  A slot holds a Context, a word of the thread's own, or nothing that *)
(* will be read again.  Code addresses are counted in instructions modulo  *)
(* CodeSize.                                                               *)
(***************************************************************************)
EXTENDS Integers

CONSTANTS Threads, Nobody,
          Regs,         \* general registers without sp
          CalleeSaved,  \* those that the C calling convention preserves
          Written,      \* the registers that the threads write in this model
          Slots,        \* slots of a stack
          CodeSize

ContextAssumption ==
    /\ {"t0", "a0", "a5", "ra"} \subseteq Regs
    /\ CalleeSaved \subseteq Regs \ {"t0", "a0", "a5", "ra"} /\ Written \subseteq Regs
    /\ Nobody \notin Threads /\ Slots \in Nat \ {0} /\ CodeSize \in Nat \ {0}

VARIABLES cpu,          \* gpr, sp, pc, mepc, mcause
          mem,          \* the stacks
          sp,           \* thread->sp of each thread: the address of its Context
          rt_switch_to, rt_switch_fromp,
          mode,         \* "boot", "user", "trap", "handler", "leave"
          running,      \* history: the thread whose code the processor runs
          atEcall       \* history: the registers when the trap was taken, for the handler

vars == <<cpu, mem, sp, rt_switch_to, rt_switch_fromp, mode, running, atEcall>>

Addr == Threads \X (0..Slots)

Free == [kind |-> "free"]
Word == [kind |-> "word"]
Used == [kind |-> "used"]         \* the first frame of a stack, once it was loaded

NoRegs == [r \in Regs |-> "zero"]

Below(a) == <<a[1], a[2] + 1>>    \* the slot that is used next
Above(a) == <<a[1], a[2] - 1>>

Init ==
    /\ cpu = [gpr |-> [r \in Regs |-> "zero"], sp |-> <<Nobody, 0>>, pc |-> 0,
              mepc |-> 0, mcause |-> "none"]
    /\ mem = [a \in Addr |-> Free]
    /\ sp = [t \in Threads |-> Nobody]
    /\ rt_switch_to = Nobody /\ rt_switch_fromp = Nobody
    /\ mode = "boot" /\ running = Nobody
    /\ atEcall = NoRegs

(***************************************************************************)
(* rt_hw_stack_init: the stack begins below the frame, which is used once. *)
(* kcontext: the stack begins above the frame.                             *)
(***************************************************************************)
StackInitContext(t) ==
    [kind |-> "context",
     gpr |-> [r \in Regs |-> CASE r = "ra" -> "texit" [] r = "a0" -> "param" [] OTHER -> "zero"],
     sp |-> <<t, 1>>, mepc |-> 0, mcause |-> "none"]

kcontext(t) ==
    [kind |-> "context",
     gpr |-> [r \in Regs |-> IF r = "a0" THEN "param" ELSE "zero"],
     sp |-> <<t, 0>>, mepc |-> 0, mcause |-> "none"]

(* before the scheduler starts, or by the running thread *)
CreateThread(t) ==
    /\ mode \in {"boot", "user"} /\ sp[t] = Nobody
    /\ \E c \in {StackInitContext(t), kcontext(t)} : mem' = [mem EXCEPT ![<<t, 1>>] = c]
    /\ sp' = [sp EXCEPT ![t] = <<t, 1>>]
    /\ UNCHANGED <<cpu, rt_switch_to, rt_switch_fromp, mode, running, atEcall>>

(***************************************************************************)
(* The code of the running thread                                          *)
(***************************************************************************)
NextPc(pc) == (pc + 1) % CodeSize

WriteRegister(r) ==
    /\ mode = "user"
    /\ cpu' = [cpu EXCEPT !.gpr[r] = "v", !.pc = NextPc(@)]
    /\ UNCHANGED <<mem, sp, rt_switch_to, rt_switch_fromp, mode, running, atEcall>>

(* there is room for a trap frame left *)
PushWord ==
    /\ mode = "user" /\ cpu.sp[2] + 1 < Slots
    /\ cpu' = [cpu EXCEPT !.sp = Below(@), !.pc = NextPc(@)]
    /\ mem' = [mem EXCEPT ![Below(cpu.sp)] = Word]
    /\ UNCHANGED <<sp, rt_switch_to, rt_switch_fromp, mode, running, atEcall>>

PopWord ==
    /\ mode = "user" /\ mem[cpu.sp] = Word
    /\ cpu' = [cpu EXCEPT !.sp = Above(@), !.pc = NextPc(@)]
    /\ mem' = [mem EXCEPT ![cpu.sp] = Free]
    /\ UNCHANGED <<sp, rt_switch_to, rt_switch_fromp, mode, running, atEcall>>

(* yield: a5 is set and the ecall traps *)
yield ==
    /\ cpu' = [cpu EXCEPT !.gpr["a5"] = "minus1", !.mepc = cpu.pc, !.mcause = "ecall"]
    /\ mode' = "trap"
    /\ atEcall' = cpu'.gpr

(* rt_schedule switches only to another thread that has a context *)
rt_hw_context_switch(t) ==
    /\ mode = "user" /\ t # running /\ sp[t] # Nobody
    /\ rt_switch_to' = sp[t] /\ rt_switch_fromp' = running
    /\ yield
    /\ UNCHANGED <<mem, sp, running>>

(* from rt_system_scheduler_start, on the boot stack *)
rt_hw_context_switch_to(t) ==
    /\ mode = "boot" /\ sp[t] # Nobody
    /\ rt_switch_to' = sp[t] /\ rt_switch_fromp' = Nobody
    /\ yield
    /\ UNCHANGED <<mem, sp, running>>

(***************************************************************************)
(* __am_asm_trap                                                           *)
(***************************************************************************)
(* t0 carries the old stack pointer into the frame before it is saved      *)
(* itself.  The boot stack is nobody's: its frame is never read.           *)
TrapEntry ==
    /\ mode = "trap"
    /\ LET frame == Below(cpu.sp)
           gpr == [cpu.gpr EXCEPT !["t0"] = "stackaddr"]
       IN /\ mem' = IF running = Nobody THEN mem
                    ELSE [mem EXCEPT ![frame] = [kind |-> "context", gpr |-> gpr, sp |-> cpu.sp,
                                                 mepc |-> cpu.mepc, mcause |-> cpu.mcause]]
          /\ cpu' = [cpu EXCEPT !.sp = frame, !.gpr = [gpr EXCEPT !["t0"] = "cause", !["a0"] = "stackaddr"]]
    /\ mode' = "handler"
    /\ UNCHANGED <<sp, rt_switch_to, rt_switch_fromp, running, atEcall>>

(* Mutant: mepc is left on the ecall. *)
HandlerKeepsMepc ==
    /\ mode = "handler" /\ cpu.mcause = "ecall"
    /\ sp' = IF rt_switch_fromp = Nobody THEN sp ELSE [sp EXCEPT ![rt_switch_fromp] = cpu.sp]
    /\ cpu' = [cpu EXCEPT !.gpr = [r \in Regs |-> IF r \in CalleeSaved THEN @[r] ELSE "junk"]]
    /\ mode' = "leave" /\ atEcall' = NoRegs
    /\ UNCHANGED <<mem, rt_switch_to, rt_switch_fromp, running>>

(* __am_irq_handle and ev_handler; being C code they keep the registers    *)
(* that a function must keep.                                              *)
Handler ==
    /\ mode = "handler" /\ cpu.mcause = "ecall"
    /\ mem' = IF rt_switch_fromp = Nobody THEN mem
              ELSE [mem EXCEPT ![cpu.sp].mepc = NextPc(@)]
    /\ sp' = IF rt_switch_fromp = Nobody THEN sp ELSE [sp EXCEPT ![rt_switch_fromp] = cpu.sp]
    /\ cpu' = [cpu EXCEPT !.gpr = [r \in Regs |-> IF r \in CalleeSaved THEN @[r] ELSE "junk"]]
    /\ mode' = "leave" /\ atEcall' = NoRegs
    /\ UNCHANGED <<rt_switch_to, rt_switch_fromp, running>>

(* a0 = rt_switch_to; all registers are loaded from there, sp last, and    *)
(* mret jumps to mepc                                                      *)
TrapLeave ==
    /\ mode = "leave"
    /\ LET frame == mem[rt_switch_to]
       IN cpu' = [cpu EXCEPT !.gpr = frame.gpr, !.sp = frame.sp, !.pc = frame.mepc,
                             !.mepc = frame.mepc]
    /\ mem' = [mem EXCEPT ![rt_switch_to] = IF mem[rt_switch_to].sp = rt_switch_to THEN Used ELSE Free]
    /\ mode' = "user" /\ running' = rt_switch_to[1]
    /\ UNCHANGED <<sp, rt_switch_to, rt_switch_fromp, atEcall>>

Next ==
    \/ \E r \in Written : WriteRegister(r)
    \/ PushWord \/ PopWord
    \/ \E t \in Threads : CreateThread(t) \/ rt_hw_context_switch(t) \/ rt_hw_context_switch_to(t)
    \/ TrapEntry \/ Handler \/ TrapLeave

Spec == Init /\ [][Next]_vars
----------------------------------------------------------------------------

(* the registers, sp and pc of t, wherever they are now *)
Part(c, pc) == [gpr |-> [r \in CalleeSaved |-> c.gpr[r]], sp |-> c.sp, pc |-> pc]

ContextOf(t) ==
    CASE sp[t] = Nobody -> Nobody
      [] t = running /\ mode \in {"user", "trap"} -> Part(cpu, cpu.pc)
      [] t = running /\ mode = "handler" -> Part(mem[cpu.sp], mem[cpu.sp].mepc)
      [] t = running /\ mode = "leave" -> Part(mem[sp[t]], cpu.pc)
      [] OTHER -> Part(mem[sp[t]], mem[sp[t]].mepc)

(* Whatever threads run in between, a thread that is switched to again     *)
(* finds its callee-saved registers and its stack as it left them and goes *)
(* on behind its yield; a new thread begins at its entry.                  *)
Private == INSTANCE PrivateContexts WITH
    Created <- LAMBDA t : {Part(c, 0) : c \in {StackInitContext(t), kcontext(t)}},
    PastYield <- LAMBDA c : [c EXCEPT !.pc = NextPc(@)],
    ctx <- [t \in Threads |-> ContextOf(t)]

(* Trap entry, handler and trap leave implement private contexts. *)
ImplementsPrivate == Private!Spec

(* specs/abstract-machine/specifications.md: on a trap "AbstractMachine    *)
(* saves the context of the current flow of execution (registers etc.)".   *)
FrameHoldsRegisters ==
    (mode = "handler" /\ running # Nobody) => mem[cpu.sp].gpr = atEcall
=============================================================================
