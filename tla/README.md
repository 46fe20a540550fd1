# Verification of the NPC core, its co-simulation and the RT-Thread kernel on it

The repository holds a small RV32E processor in Verilog (`core/rtl`), a C++
instruction-set simulator with an interactive shell that serves as its reference
(`emulator/src`), a difftest harness that runs the two side by side on the same
program, and the software that is built for them (`workloads`): an abstract
machine and, on top of it, the RT-Thread kernel. This project models the
processor, the simulation memory behind its AXI port, the reference, the
harness, the shell, the context switch of the abstract machine and the kernel in
TLA+. TLC checks them on small instances. TLAPS proves for every instance that the
memory side keeps its lines and bursts exact, that the pipeline executes
sequentially, and the central properties of the kernel's threads, semaphores,
mutexes, mailboxes, memory pools and timers.

Paths below are relative to the repository root; `rt/` stands for
`workloads/rt-thread-am/src/` and `am/` for
`workloads/abstract-machine/am/src/riscv/npc/`.

## 1. Inventory

### Hardware and simulators

| Component | Source | State | Operations | Speaks to |
|---|---|---|---|---|
| Pipeline | `core/rtl/npc_pipeline.v`, `npc_regfile.v`, `npc_csr_file.v` | pc, halted, outstanding fetch, four stage registers, 16 registers, 4 CSRs | one clock edge: fetch, decode with stalls, execute with forwarding, memory access, write-back, redirect, trap, halt | cache (lookup/response), AXI master (load/store request/answer), CLINT, commit port |
| Execution units | `npc_alu.v`, `npc_branch.v`, `npc_load_store_unit.v` | none | combinational | pipeline |
| Decoders | `npc_decoder.v`, `npc_imm.v`; `emulator/src/decoder.cpp` | none | two tables for one instruction set | pipeline; reference |
| CLINT | `npc_clint.v` | 64-bit `mtime` | read, write of either half, tick per commit | load/store unit |
| Instruction cache | `npc_icache.v` | two lines of four words, fill state machine, fill buffer, fault response | lookup, miss, fill, flush | pipeline, AXI master |
| AXI master | `npc_axi_master.v` | fetch burst state | line-fill burst; loads and stores driven combinationally | cache, load/store unit, AXI port |
| Simulation memory | `emulator/src/rtl_iss.cpp`, `memory.cpp` | RAM, one read burst with a wait | answer loads and stores in the cycle, burst beats after a wait | AXI port |
| Reference simulator | `emulator/src/emulator_iss.cpp`, `hart.cpp`, `memory.cpp`, `clint.cpp`, `uart.cpp` | pc, registers, CSRs, RAM, timer, halted, ring of commit events | `reset`, `step_inst`, load, checkpoints | harness, shell |
| Difftest harness | `emulator/src/difftest.cpp` | stopped, failed, mismatch | `reset`, `step_inst`, `run` | reference, RTL wrapper |
| Shell | `emulator/src/shell.cpp` | breakpoints, the condition and counters of a run | step, run in all forms, break, reset, load, checkpoint, UART input, `last` | reference |
| Single-cycle core | `core/rtl/npc_single_cycle.v`, DPI memory | - | not instantiated any more | - |
| Trace, main programs | `emulator/src/trace.cpp`, `main.cpp`, `difftest_main.cpp` | open files | text output, options | simulators |
| ISA tests, benchmarks | `workloads/isa-test` ... | - | test programs | - |

### Software

| Component | Source | State | Operations | Speaks to |
|---|---|---|---|---|
| Context switch | `am/cte.c`, `am/trap.S`, `workloads/rt-thread-am/bsp/abstract-machine/src/context.c` | frames on the stacks, the two switch variables | trap entry, handler, trap leave, first switch, yield | the core; the scheduler |
| AM timer | `am/timer.c` | - | two-word read of `mtime` | CLINT |
| Scheduler and threads | `rt/scheduler_up.c`, `thread.c`, `idle.c`, `clock.c` | ready table and its bitmap, current thread, status, priority, time slice, error and timer of each thread, scheduler lock, defunct list | start, yield, sleep, suspend, resume, delete, exit, change of priority, critical sections, tick, schedule | all objects |
| Semaphores, mutexes, events, mailboxes, message queues | `rt/ipc.c` | value; owner, hold, ceiling, taken lists, pending object; flags; ring; block chains; suspend lists | take, try, release, send, urgent, receive, reset/control, drop, detach, delete | scheduler, thread timers |
| Memory pools | `rt/mempool.c` | free list, count, suspend list | alloc with and without waiting, free, detach, delete | scheduler, thread timers |
| Heap | `rt/mem.c` (`rt/kservice.c` locks) | linked items, lowest free item, bytes in use | malloc, realloc, free | every creator of objects |
| Timers | `rt/timer.c` | two timer lists, tick, the timer thread | start, stop, control, detach, tick, check, timer thread | clock, application |
| Objects, devices, signals, memheap, slab, printing | `rt/object.c`, ... | registration lists | - | - |
| Components and tools | `workloads/rt-thread-am/components`, `tools` | - | vendored file systems, shell, libc, build tools | - |

### What is hard

*Hardware.* Five instructions, a line fill and a flush are in progress in the same
cycle. The pipeline, the cache, the AXI master and the burst in the C++ wrapper
are four state machines that share one port and move together at each clock
edge. Operands and CSRs are read in one stage and written in another; fetches are
speculative and may fault or return after the path they belong to was left; a
load may wait behind a fill that the instruction stream no longer needs.

*Kernel.* A call that waits gives the processor away in the middle, and what it
finds when it returns was made by others: tokens, mail and blocks may be gone,
the object reset or deleted, the wait ended by a release, a timeout, a resume or
a deletion in any order. A thread has one list node and is on one of several
lists; bitmap, lists, status, timer and inherited priorities are kept apart and
must agree. Messages are copied with interrupts enabled. The timer thread looks
at the list, at the clock and then sleeps, with others in between; ticks wrap.

### What makes each component correct

* cache, AXI master, memory: the fill stays in step with its burst, a valid line
  holds what memory holds unless it was stored to since the last flush, a fault
  is reported for a line that is not all RAM and only then;
* pipeline: what commits is what a machine without a pipeline would execute, and
  no squashed instruction leaves a trace; a jump is never lost; `ebreak` stops
  everything; the core never hangs;
* execution units and decoders: equal to the functions of the reference;
* harness: stops together with both machines and never reports a difference on
  a legal program;
* shell: a run stops where it was told to and not later, ends if it is bounded,
  and `last` shows what was retired;
* scheduler: the ready table is exact and the most urgent ready thread runs;
* IPC objects: a semaphore is a counting semaphore, mailboxes and queues are
  bounded FIFOs, ownership and inheritance are exact, and no wakeup is lost;
* memory: every block is free or in one hand, the items of the heap tile it;
* timers: each is a countdown; timed calls and sleeps end;
* context switch: threads have private registers and stacks.

`PROJECT.json` lists the hazards behind these at their lines.

## 2. Modules

| Module | Models | Remarks |
|---|---|---|
| `NpcDefs` | `memory.cpp`, the memory map | words, byte lanes, RAM; `MemoryMapAssumption` |
| `NpcIcache` | `npc_icache.v` | one operator per state of the case statement, `IcacheClock` their disjunction |
| `NpcAxiMaster` | `npc_axi_master.v` | one operator per channel and per reachable state |
| `AxiMemory` | `rtl_iss.cpp`: `drive_axi_memory`, `toggle_clock` | one clock cycle per action |
| `MemSide` | the wiring of those three in `npc_core.v` | `FetchPathClock` |
| `FetchPath` | `MemSide` under an arbitrary pipeline | properties of the memory side |
| `FetchPathProofs` | - | theorems about `FetchPath` (section 4, like the other `...Proofs`) |
| `Rv32e` | instruction types, CSR semantics, word arithmetic | shared by core and reference |
| `NpcDatapath` | decoder control signals, ALU, branch unit, CSR operation, load/store unit | pure operators |
| `NpcPipeline` | `npc_pipeline.v` with register file, CSR file, CLINT | each wire is an operator, `PipelineClock` the clocked block |
| `NpcCore` | `npc_core.v` | pipeline on `MemSide`; core properties |
| `NpcCoreProofs` | - | theorems about `NpcCore` |
| `EmulatorISS` | the reference simulator | `StepInst` is a function from state to state and commit event |
| `Difftest` | `difftest.cpp`, the step loop of `RtlISS` | core and reference composed |
| `UnitCheck` | - | execution units and decoders against the reference, operand by operand and word by word |
| `Decoders` | `npc_decoder.v` with `npc_imm.v`, `decoder.cpp` | words as records of bit fields |
| `EmulatorShell` | `shell.cpp`, event ring, checkpoints, UART | a program is a control-flow graph |
| `AmContext`, `PrivateContexts` | `cte.c`, `trap.S`, `context.c`; its specification | refinement |
| `AmTimer` | `timer.c` of the abstract machine | one step per read; with its proof |
| `RtKernel` | `scheduler_up.c`, `thread.c`, `clock.c`, suspend lists of `ipc.c` | kernel functions as operators on the kernel state `k` |
| `RtKernelLemmas` | - | what each kernel function does to lists, states and timers |
| `RtThreads`, `RtThreadsProofs` | the calls on threads, cut where they enable interrupts; the idle thread; theorems | extends `RtKernel`, like the next six |
| `RtSemaphore`, `CountingSemaphore` | semaphores; their specification | refinement |
| `RtMutex` | mutexes with inheritance and ceilings | |
| `RtEvent` | events | |
| `RtMailbox`, `RtMessageQueue`, `MsgFifo` | mailboxes, message queues; their specification | refinement |
| `RtMemPool` | `mempool.c` | |
| `RtIpcProofs` | - | theorems about semaphores, memory pools and mutexes |
| `RtMailboxProofs` | - | theorems about mailboxes |
| `RtSmallMem` | `mem.c` | sequential: the heap's mutex is around each call |
| `RtTimerList`, `RtTimer`, `RtSoftTimer`, `Countdown`, `RtTimerProofs` | `timer.c`: list, hard timers, timer thread; their specification; theorems about list and hard timers | refinement |
| `MCCore`, `MCDifftest`, `MCEmulatorShell`, `MCRtThreads`, `MCRtIpc`, `MCRtKernel` | - | TLC instances; `MCCore` holds the programs of the runs |

### How state and actions correspond to the code

The core has one clock, so it has one action per clock edge. The wires of a
cycle are operators of the registers before the edge; the nonblocking
assignments are the primed variables. `CoreClock` evaluates them in the order
the wires depend on each other: the instruction in MEM drives the data request,
its answer decides `mem_access_wait`, that decides whether a fetch is asked for,
and the cache answers. A stage register is a record; clearing its valid bit
leaves the other fields, as in the code, because wires of invalid stages are
still evaluated. The branches of the clocked block are disjuncts: `FrontHalt`,
`FrontMemRedirect`, `FrontExRedirect`, `FrontAdvance` for IF/ID/EX and
`BackHalt`, `BackMemRedirect`, `BackWait`, `BackAdvance` for MEM/WB.

`Difftest::step_inst` is cut at clock edges: `RefStep` is the step of the
reference, `DutCycle` one iteration of the loop in `RtlISS::step_inst`, the last
of which compares.

A session of the shell is one action per command; the run loop is one action per
instruction, `RunLoop`, with the stop conditions in the order of the code.

Kernel functions call each other many deep, so each is an operator from one value
of the kernel state `k` (a record: ready table, bitmap, current thread, statuses,
priorities, time slices, errors, timers, suspend lists, scheduler lock, defunct
list) to the next, with the name it has in the code. A call of a thread is one
action up to the `rt_schedule` it ends in or waits in; `Schedule` is that
`rt_schedule`, and an action named `...Back` is the rest of the call when the
thread runs again. `call[t]` says where in a call thread `t` is. What is read
before the switch and used after it is kept with the call, as the code keeps it
on the stack. The clock interrupt is `TickIncrease` and one `TimerCheck` for each
timer that has run out, wherever interrupts are enabled. A message queue call is
also cut where it copies with interrupts enabled, and the timer thread between
its looks at list and clock.

`rt_thread_startup`, `rt_thread_resume`, `rt_thread_delete` and `rt_thread_detach`
enable interrupts between their parts (`thread.c:1077`, `:546`, `:428`), and the
next part does not look again. Called with interrupts disabled, as in `ipc.c` and
`_thread_exit`, they are one step. For the calls of the application `RtThreads` has
an action for each part, so that clock interrupts, timeouts and other threads come
between them. That breaks the kernel unless the application keeps two rules, which
the constant `Rules` names, so that each can be dropped:

* `"apart"`: there are no two calls on one thread at a time;
* `"still"`: on a port with a clock, no call is made on a thread that may run, or be
  woken by its timer, before the call is over. A resume of a thread that waits for a
  limited time is made with the scheduler locked; a deletion only of a thread whose
  timer is not running, and with the scheduler locked if that thread is ready.

The second says nothing of the abstract machine, which has no clock interrupt. Section 6
has counterexamples without each (`rt_resume` is without `"apart"`). The modules of
the IPC objects let the application resume or delete a waiter in one step. On a port
with a clock that is exact under the scheduler lock and for waiters without a
time limit; `InOneStep` is their guard, and `rt_exit_critical`, which releases the
lock, calls `rt_schedule`. A start is one step there too: nobody else makes calls on
a thread that is being started.

`AmContext` cuts the switch at trap entry, the handler and trap leave; a frame is
a slot of the thread's stack.

### Abstractions

* **Word size.** A byte has `ByteMod` values instead of 256; a word is still four
  bytes, a line four words, addresses are words, every sum wraps at
  `WordMod = ByteMod^4`. The bits are those of a smaller machine and the lanes,
  the alignment rules, signedness and wrap-around are those of the real one.
* **Encoding.** An instruction is a word of memory that the constant `Encoding`
  maps to the fields the decoders extract. Both machines use the same map;
  `Decoders` shows that they may, bit field by bit field. A word that is not in
  the map is illegal and has no control signals. Since instructions are words,
  programs can load and overwrite them.
* **Registers.** `GprCount` registers; the check of the fifth bit of a register
  number is `>= GprCount`.
* **mstatus** is the constant 24 instead of 0x1800.
* **Half cycles.** The wrapper evaluates the design twice per cycle and performs a
  store when it is first driven, just after the edge that brings it to MEM. The
  model performs it at the edge that ends that cycle; beats and loads of that
  cycle read the memory the store leaves, so no read can tell.
* **Left out:** performance counters, debug ports, tracing, `wstrb` (the wrapper
  ignores it), UART queues in difftest (no input; output is dropped).
* Registers of the AXI master that nothing reads (`size_reg`, `store_data_reg`,
  the two fault registers) and its four unreachable states are left out.
* **Shell.** What an instruction computes is `EmulatorISS`'s matter; the shell sees
  its kind (plain, emits, reads, faults, `ebreak`) and the next pc. Counters that
  are only compared with a limit stop at it.
* **Kernel.** Messages, mails and blocks are model values; names, hooks, cleanup
  functions and stack checks are left out. In `RtKernel` a thread timer is the
  ticks it has left; `RtTimer` shows that the list of `timer.c` implements that.
  Memory of a deleted object is taken to stay as it was, except where a property is
  about it (`MutexAtFailure`).
* **Heap.** Offsets in units of 4 bytes: alignment 2, header 4, `MIN_SIZE` 3, for 8,
  16 and 12 bytes. The statistic `max` is left out.

## 3. Runs

All runs with the core use 8-bit words (`ByteMod = 4`), four registers, RAM at
64..175, the CLINT at 16..31 and a UART at 4. Programs set `x3 = 128` and
`mtvec = 128` first; the handler at 128 adds 4 to `mepc` and returns; programs
end with `ebreak`.

| Run | Instance | Result |
|---|---|---|
| `fetch_path` | RAM of 3 lines and a half, lookups in four lines (two share an index, one is half outside RAM) and one misaligned address, byte stores and loads to two lines, flush at any time | `BurstInStep`, `LinesCoherent`, `FaultIsReal` hold |
| `difftest` | all programs of three of addi, add, lw, sw, lb, sb, beq and a fourth of add, lw, sb, beq, with shared registers and memory words (7^3 x 4); all programs of two of lw, jal, jalr, misaligned jalr, ecall, csrrw, csrrs, misaligned lw, faulting sw, reserved register, misaligned taken bne, fence.i and a third of lw, jal, ecall, csrrs, faulting sw (12^2 x 5) | `NoMismatch`, `ArchStateAgrees`, `WaitMeansExEmpty`, `CsrReadCurrent`, `HaltIsFinal`, `RetiresInOrder`, `RetiresSequentially` hold |
| `progress` | all 11^2 programs over both sets, the core alone | `ProgramHalts` holds |
| `units` | every instruction type on 11 x 11 operands with the extremes, both signs and the four lanes; every opcode, funct3 and boundary value of the other fields on both decoders | `AluAgrees`, `LanesAgree`, `DecodersAgree` hold |
| `shell` | three sessions: stop conditions on a program that reads, faults, prints and loops; a ring of three that wraps between resets, loads and checkpoints; `--max-pc-stuck` on a spin | `StopsBeforeTarget`, `LastExact`, `RunEnds` hold |
| `rt_ipc` | eleven applications on threads alone, mutexes, a semaphore or a memory pool, below | `ReadyTableExact`, `TimerOfSuspended` (in all eleven), `MostUrgentRunsUnlessOwed` (threads alone), `OwnershipExact`, `TakeOkOwns`, `InheritanceExact`, `NoWaitWithToken`, `WaitersOnList`, `ImplementsCounting`, `NoLostWakeup`, `BlocksAccounted` hold |
| `rt_kernel` | eleven applications, below | `NoLostWakeup`, `ConsumedOnce`, `ImplementsFifo`, `BlocksAccounted`, `ListIsActive`, `ImplementsCountdown`, `TimerThreadWakes`, `ImplementsPrivate`, `UptimeDuringCall` hold |
| `rt_live` | applications `SleepClock`, `MailboxClock`, `OneSoftTimer` | `SleeperWoken`, `TimedCallEnds`, `DueIsCalled` hold |
| `stale_csr`, `clint_store`, `rt_turns`, `rt_resume` | one program each; three threads that yield; three that sleep and resume each other | the findings of section 6 |

The type invariants of `FetchPath` and `RtThreads` are proved (section 4) and not
checked again.

*Why the bounds are enough: core.* A hazard in this pipeline is between an instruction
and one of the three ahead of it, and a register is free again when the fourth
has left WB; four instructions after the prologue fill every stage. Those of the
first set start at 80 and fill one cache line, so that they follow one another
without a gap and forwarding is needed at every distance. Those of the second start
at 72, in the line of the prologue, and cross into the next with a fill in the
middle. The two cache lines of the handler and of
the program share an index, so every trap evicts. In `fetch_path` the half line
lets bursts fault on their third beat; the state space does not depend on how
long the run is. Eight-bit words hold both signs and the wrap-around, and four
registers suffice for two sources and a destination next to `x0`.

*What the passing programs leave out*, because the two machines differ there (section
6): a handler whose first instruction reads a CSR, execution at the end of RAM,
code overwritten within four instructions before it runs, CLINT accesses,
register-register instructions with a reserved rs1, UART accesses (the memory
behind the RTL's port has no UART), fetching outside RAM.
`DecodersAgree` is about words in which the unused rd and rs1 of fence and system
instructions are zero and rs1 of a register-register instruction exists.

*Commit timeout.* `CommitTimeout = 30` is above the longest gap between commits
(two fills and the pipeline's depth), far below the code's default, and reached
at the end of every program when both machines have halted; a hang would show
as a mismatch.

### The applications of `rt_ipc`, `rt_kernel` and `rt_live`

A behaviour of `MCRtIpc` or `MCRtKernel` is the run of one application, `app`, on
one kind of object. Objects about which theorems are stated or planned are extended by the module of
the run, so that run and theorem are about the same definition, and rest in
their initial state while another application runs; the variables of the
others hold `NotUsed`. Port applications have no
clock interrupt, like the abstract machine; those whose name ends in `Clock`
are on a port that calls `rt_tick_increase`. Every application also starts
threads and yields, and the idle thread is among the threads.
`MostUrgentRunsUnlessOwed` is about the first three of the table: in the other
applications of `rt_ipc` the history variable `owed` is TRUE.

| Application | Threads (priorities; the last is idle) | Calls |
|---|---|---|
| `Threads` (`rt_ipc`) | 2 (1, 0) | all calls on threads, in parts; sleeps of 1 tick, locks nested twice, time slices of 2 ticks |
| `ThreadsClock` (`rt_ipc`) | 2 (2, 1) | the same but changes of priority, with sleeps of 1 and 2 ticks and time slices of 1 tick |
| `ResumeClock` (`rt_ipc`) | 3 (2, 1, 0) | sleep for 1 tick, suspend, resume, lock |
| `Semaphore` (`rt_ipc`) | 3 (1, 0, 1) | take for ever, trytake, release, reset, resume, delete; value up to 1 |
| `SemaphorePrio` (`rt_ipc`) | 3 (1, 0, 1) | take for ever, release, priority changes |
| `SemaphoreClock` (`rt_ipc`) | 3 (2, 1, 0) | take for 1 tick or for ever, release, resume |
| `Pool` (`rt_ipc`) | 3 (1, 0, 1), two blocks | alloc with and without waiting, free, delete |
| `PoolClock` (`rt_ipc`) | 3 (2, 1, 0), two blocks | alloc for 1 tick or for ever, free, resume |
| `Mutex` (`rt_ipc`) | 3 (2, 1, 0), two mutexes | nested take, release, deletion of waiters, suspend |
| `MutexLife` (`rt_ipc`) | 3, two mutexes | take, trytake, detach, priority ceiling |
| `MutexClock` (`rt_ipc`) | 3, one mutex | take for 1 tick or for ever |
| `Event` | 3, two flags | send, all forms of receive, reset, delete |
| `EventClock` | 2, two flags | receive for 1 tick or for ever, resume |
| `Mailbox` | 2 of equal priority, two mails | send, urgent, receive with and without waiting, reset, delete |
| `MailboxThree` | 3 (1, 0, 1) | send, receive with and without waiting |
| `QueueThree` | 3 of equal priority, two blocks | send, receive for ever |
| `QueueClock` | 2 of equal priority, two blocks | the same with preemption, urgent, reset, delete |
| `Heap` | sequential, 112 bytes | malloc, realloc, free with sizes that split, fit, shrink, are too large or 0 |
| `HardTimers` | two timers, ticks modulo 8, any first tick | start, stop, control, detach, from anywhere and from the timeout functions |
| `SoftTimers` | two timers, ticks modulo 8 | the same with the timer thread, at every step of it, also between its look at the list and its sleep |
| `Context` | two threads, stacks of three frames, five registers of every role in the trap code | switch, write registers and stack |
| `Uptime` | an `mtime` of two words of two bits | read the uptime while it counts |
| `SleepClock`, `MailboxClock`, `OneSoftTimer` | 2; 2 of equal priority; one timer | sleep and yield; timed send and receive; start and stop |

`TimerThreadWakes` excepts the time from a start that puts a timer first between the
look and the sleep (history variable `late`) to the next look: there the code does
oversleep (section 6). A timer that is started at any other moment, or behind the
first, is not late.

Three threads and the idle thread are a waiter, the one that wakes it and the one
that is faster; two mutexes and three threads form a chain of owners that wait.
A ring or pool of two wraps and is full. A tick modulo 8 puts every start on
both sides of the wrap-around with times far below its half, as the code asks.
Messages, blocks, flags, timers and the threads of `Context` are symmetric; the
other threads are not, since they have priorities and one of them starts the
others. The parts of calls on threads need one that calls, one that is woken, runs or
sleeps again in between, and in `ResumeClock` a third that resumes it first.

Four properties are refinements: a semaphore implements `CountingSemaphore`
(tokens in hand are those granted to woken threads), mailbox and message queue
implement `MsgFifo`, the timer list `Countdown`, the context switch
`PrivateContexts`.

*Deadlock* is off for the `Difftest`, `units` and `shell` runs: the harness stops
when both machines have, a unit is evaluated once, and a session may end. It is
on in the others.

*Fairness.* `progress`: weak fairness of the clock edge, since the wrapper's loop
toggles the clock until it sees a commit; the memory's wait states are part of
the model. `shell`: the run loop goes on, being a loop. `rt_live`: the current
thread executes and the clock ticks (weak fairness); the code that a thread is
in the middle of a kernel call gets done between clock interrupts (strong
fairness, because the thread is preempted and current again); the timer thread
gets the processor. `DueIsCalled` is about timers started while the timer thread
waits or calls a function. `rt_turns`: the current thread executes.

## 4. What is proved

TLAPS checks the theorems below for every value of the constants that meets the
named assumption. The assumptions are what the code asserts or what its data
types say (sizes, ranges, distinct sentinels, finitely many threads); TLC
evaluates them on the constants of the runs.

| Module | Theorems | Assumption |
|---|---|---|
| `FetchPathProofs` | `FetchPathTypes` (`TypeOK`), `FetchPathInStep` (`BurstInStep`), `FetchPathCoherent` (`LinesCoherent`), `FetchPathFaults` (`FaultIsReal`) | `MemoryMapAssumption`, `FetchPathAssumption` |
| `AmTimer` | `UptimeIsOfTheCall` (`UptimeDuringCall`) | `TimerAssumption` |
| `RtThreadsProofs` | `ThreadsTypes` (`ThreadsTypeOK`), `ReadyTableAlwaysExact` (`ReadyTableExact`), `TimersOfSuspended` (`TimerOfSuspended`), `UrgentThreadRuns` (`MostUrgentRunsUnlessOwed`) | `KernelAssumption`, `{"apart", "still"} \subseteq Rules` |
| `NpcCoreProofs` | `PipelineIsSequential` (`RetiresSequentially`), `RetirementFollowsNextPc` (`RetiresInOrder`), `LoadsWaitAlone` (`WaitMeansExEmpty`), `OperandsAreSequential`, `CsrFileSettled`, `CoreControl`; `CsrReadsAreCurrent` (`CsrReadCurrent`), `CsrOpsAreSequential` under `[]~TrapAtCsrRead`; `HaltsForGood` (`HaltIsFinal`) under `[](halted => ~fault_resp_valid)` | `CoreAssumption`, `MemoryMapAssumption` |
| `RtIpcProofs`, semaphores | `SemTypes` (`TypeOK`), `SemWaitersOnList` (`WaitersOnList`), `SemNoWaitWithToken` (`NoWaitWithToken`), `SemReadyTable` (`ReadyTableExact`, `TimerOfSuspended`), `SemImplementsCounting` (`ImplementsCounting`) | `KernelAssumption`, `SemAssumption` |
| `RtIpcProofs`, mutexes | `MutexOwnership` (`OwnershipExact`), `MutexTakeOk` (`TakeOkOwns`), `MutexTypes` (`MutexTypeOK`), `MutexLists` (`ReadyTableExact`, `TimerOfSuspended`, `PendingIsList`, `OnlyTakersOnList`) | `KernelAssumption`, `MutexAssumption`, `OnlyMutexWaits` |
| `RtIpcProofs`, memory pools | `PoolNoLostWakeup` (`NoLostWakeup`), `PoolBlocksAccounted` (`BlocksAccounted`), `PoolReadyTable` (`ReadyTableExact`, `TimerOfSuspended`) | `KernelAssumption`, `PoolAssumption` |
| `RtMailboxProofs` | `MailboxNoLostWakeup` (`NoLostWakeup`), `MailboxImplementsFifo` (`ImplementsFifo`), `MailboxTypes` (`TypeOK`, `IsRing`), `MailboxReadyTable` (`ReadyTableExact`, `TimerOfSuspended`) | `KernelAssumption`, `MailboxAssumption` |
| `RtTimerProofs` | `TimerListIsActive` (`ListIsActive`), `TimerImplementsCountdown` (`ImplementsCountdown`) | `TimerListAssumption`, `~OwnMode` |

### The memory side

Nothing is assumed of the pipeline: lookups, flushes, loads and stores come in any
order, so the theorems hold below any pipeline, for every byte width, memory
map, memory contents and set of addresses. `MemoryMapAssumption` says that the
address space is a whole number of pairs of lines and RAM a whole number of
words that ends before the address space does; that is true of the code's 2^32
and of its configuration. The inductive invariant is

    FetchInv == TypeOK /\ BurstInStep /\ LinesCoherent /\ FillCoherent

`LinesCoherent` alone is not inductive: a line becomes valid with the words
collected over four beats, so `FillCoherent` says of the words collected so far
what `LinesCoherent` says of a line. `BurstInStep` ties the address of the next
beat to the number of beats received, which makes the beat's data the right
word of memory. The history variable `dirty` records the words stored to since
the last flush that met no burst: a flush during a fill clears the lines but
not the fill buffer, so words that were stored to before it may still be stale
in the line installed after it, and the theorem says exactly that much.
`FaultIsReal` needs in addition that `fill_fault_seen` is set only by a beat
outside RAM.

The lemmas follow the argument: `LineArithmetic`, `RamWordsFetch` and
`StoreEffect` are about the operators; `BeatOfBurst` says what a beat carries;
`MemoryStep` and `OldLinesCoherent` say that RAM changes only at dirty words;
`IdleStep`, `ReqStep` and `DataStep` show preservation by the state of the
cache; `FetchInvStep` combines them.

### The pipeline

The theorems hold for every program, every encoding of instructions, every number
of registers, width of a byte, memory map and initial contents of memory.
`CoreAssumption` gives types to programs and encodings and asks for at least one
register.

What is in flight together comes first. `ControlInv` has five parts:

* `LockStep`: cache and AXI master are in matching states of a line fill;
* `FrontEmpty`: a fetch that waits has nothing before it in ID, and a fill on the
  bus nothing in ID and EX. `npc_pipeline.v` asks for a fetch only when ID can
  take it, and the cache answers a hit at once, so behind a miss the front of the
  pipeline has run dry when the burst begins. This is why a load, which waits for
  the bus, waits with EX empty (`WaitMeansExEmpty`): while MEM waits, a jump in EX
  would redirect the fetch and be squashed without moving on;
* `TrapsAlone`: behind an instruction that traps, ID, EX and then MEM are empty;
* `CsrAlone`: nothing is executed behind a CSR instruction that is not written
  back. With `TrapsAlone` it follows that mtvec and mepc are settled when an
  exception or mret takes its target from them (`CsrFileSettled`);
* `Shape`: the domains of stage registers, registers and CSRs.

`OnePath` says what the next pc of each instruction in flight has to do with the
pc of the one behind it: EX has not looked at an instruction in ID or EX, so
what is behind them is the next word; behind MEM and WB it is the next pc they
computed. Every redirect restores this by squashing just what is not on the path,
which gives `RetiresInOrder`: no instruction of an abandoned path retires and none
of the right path is lost.

`OperandsRead` says that an instruction that leaves ID carries registers as they
are in the register file after this cycle's write, and that the load it would have
to wait for is not in MEM; from it `ForwardedExact` derives that the forwarding
multiplexers give EX what all older instructions leave (`OperandsAreSequential`),
although older instructions are still in MEM and WB. `ExecutedInv` carries results
on: MEM holds what the datapath computes from those operands, and exactly the
causes of an exception that a sequential machine finds. `RetireStep` compares what
reaches WB with `RetiresAs`, the step of a machine without a pipeline: result,
next pc, exception, and the memory before and after. A store writes memory in
MEM already; it may, because an instruction ahead that traps leaves MEM empty
(`TrapsAlone`) and a store does not wait there.

Three theorems are conditional, since the code does not meet the property without:

* `CsrReadsAreCurrent` and `CsrOpsAreSequential` exclude the cycle in which a trap
  commits while ID reads mepc or mcause (`TrapAtCsrRead`). This is the finding
  `stale_csr`; the theorem says that it is the only way to read a stale CSR.
* `HaltsForGood` excludes that a fill left behind by `ebreak` faults after the halt,
  which is the deviation `HaltIsFinal` of section 6, and again the only way.

The comparison is with the values the machine itself loads and fetches: not
proved are what a load of the CLINT returns (section 6, `TimerReadAgrees`), that a
fetched word is the one in memory (`FetchPathCoherent` says when; fence.i, section
6) and the agreement with the reference simulator, which is another program.

### The kernel

`RtKernelLemmas` states what each kernel function does, once, for use under
every kind of object. Its invariant of a kernel state is `Sane(kk)`: the types,
with lists on which no thread is twice; the bitmap is exact; each thread is on
just the lists its state calls for (ready: the list of its priority; suspended: at
most one suspend list; closed: the defunct list); a timer runs only for a
suspended thread; at most the current thread is running, and idle is always
ready or running. Inside a kernel function
a thread may be off its list for a moment: `ExactBut(kk, X)` is the same but for
the threads in X, and `LeaveOut` and `TakeIn` move a thread into X and out. The
lemmas for `rt_schedule`, `rt_thread_suspend`, `rt_thread_resume`, thread timers
and the suspend lists then show `Sane` preserved and say what else changes.

`_ipc_list_resume_all` is a loop. Since induction over data is out of the
prover's reach, `ResumeAllChain` argues by a minimal counterexample: the set of
the numbers of iterations after which the claim fails, were it not empty, would
have a smallest member (`SmallestOf`, from the well-foundedness of `<`), which is not
0 and whose predecessor is not a member.

On top of `Sane`:

* `RtThreadsProofs`: between two parts of a call the kernel is not `Sane`, and what
  an earlier part has found must still hold. `HandledWell` says what that is: a thread
  that is resumed stays suspended, one that is deleted stays as it was, and with a clock
  it has no timer that could wake it, unless the scheduler is locked. `OneCallEach`,
  from rule `"apart"`, keeps other calls from changing it; rule `"still"` keeps the clock
  from it. One case is left in which lists and states disagree: under the lock, or
  without a clock, the caller has taken a ready thread off the table (`Torn`). Then
  the kernel is as it would be were that thread suspended, but for a bit that may be
  one too many (`HalfWay`, `Settled`), so that the lemmas about `Sane` kernels apply to
  everything that can happen before the next part. There is no such thread with a
  clock and without the lock, so `rt_schedule` never meets one of another's making.
  `UrgentThreadRuns` has the disjunct `owed`: `rt_thread_resume` and a change of
  priority do not call `rt_schedule` themselves, so a more urgent thread may be
  ready until the next call that does, and the history variable says until when.
  All four theorems are for applications that keep both rules.
* Semaphores: `SemInv` adds that calls fit their threads, that whoever is
  suspended in `rt_sem_take` is on the list and conversely, and that there is no
  waiter while the value is positive. The refinement maps the tokens in hand to
  the woken threads that have not returned yet; a release with a waiter is
  a token passed on, and a reset or a timeout takes none.
* Mutexes: a change of priority follows the chain of owners that wait
  themselves, through a function of the number of levels. `ChainOk` is what each
  level needs and keeps: whoever is suspended is on the list of its
  `pending_object`, and a mutex with a waiter has an owner. `UpdateShuffles` then
  shows, by a minimal counterexample again, that inheritance only changes
  priorities and the order within lists (`Shuffled`), however long the chain.
  `MutexInv` adds the books of the owners (`OwnerBooks`), the promise to a waiter
  that returns with `EOK` (`TakerBooks`) and that calls fit their threads
  (`LockCalls`). `TakeOkOwns` is not inductive without the books: it is kept
  while the new owner has not run yet because only an owner releases, and the
  owner is still in its own call. `OnlyMutexWaits` says that the application does
  not suspend or resume threads itself. It cannot be dropped: section 6 has a
  counterexample for each of the two calls; that the properties hold with the first
  and without timeouts is what application `Mutex` of `rt_ipc` shows.
* Memory pools: `PoolInv` adds the books of the blocks and `NoLostWakeup` itself.
  A woken thread is promised nothing and may find the pool empty, so the count
  of woken threads has to be compared with the count of free blocks through every
  call; the step lemmas are about cardinalities of the set of woken threads.
* Mailboxes: the same count on two sides at once. `Sides` are receivers and senders,
  `Stock` what each looks for: mails, free places. A call that passes something on
  (`PassKeeps`) has one more for one side, which wakes one of its threads, and one
  less for the other, to which the caller may have belonged. `MailInv` adds the ring:
  `in_offset` is `entry` places after `out_offset`, modulo the size (`IsRing`). That is what
  the refinement needs: `PutIsAppend`, `GetIsTail` and `UrgentIsFirst` say what the
  ring's three operations do to the queue it stands for, wherever it wraps
  (`SlotIs`), and `QueueStep` says that no other step touches it but a reset. A
  sender that waits keeps its mail, and sends that one when it is woken
  (`MailWaits`). Threads are not deleted or resumed by others in `RtMailbox`: with the
  deletion of a receiver that was woken and has not run yet, its wakeup would be lost.

### The system timer

`TimersInv` says: the list holds no timer twice and is in the order of the ticks
to go, counted modulo the range of ticks; no timer on it is as far away as half
of the range; a timer is on it exactly when activated, but for the one on the
local list of `rt_timer_check`, which is periodic if still activated; and
outside `rt_timer_check` none is due. `LaterIsFurther` is the reason for the
assumption on times that `rt_timer_init` asserts: below half of the range the
unsigned comparison of `rt_timer_start` orders timers by the ticks they have to go,
wherever the tick wraps. From it follow that insertion keeps the order
(`StartEffect`), that looking at the first timer is enough (`ExpiredIsDue`,
`CheckStep`) and that no tick passes over a timer that is due (`TickStep`).
`~OwnMode` excludes timeout functions that change the mode of their own timer, for
which `ListIsActive` is false (section 6).

### The two words of `mtime`

`TimerInv` keeps, for a call in progress, bounds on what the counter was when each
word was read. The two reads of the high word agree, so no carry came between
them, and the words read belong to one value.

### Only model-checked

* Liveness: out of the prover's reach.
* Agreement of core and reference (`NoMismatch`, `ArchStateAgrees`): the two are
  different programs, and that they agree rests on the agreement of their units and
  decoders (`AluAgrees`, `LanesAgree`, `DecodersAgree`), which compute bit by bit: folds
  over data.
* Exactness of inherited priorities (`InheritanceExact`): it compares a priority with
  those of all waiters along the chain, and does not hold between the failure of a
  wait and the end of that call.
* Shell, context switch, soft timers, heap, events and message queues. Those on
  `RtKernel` can be built on `RtKernelLemmas`; the shell and the heap compare recursive
  walks over data.
* The properties of `rt_kernel` as a whole (`MCRtKernel`) range over several objects;
  the theorem about mailboxes is about `RtMailbox` itself, of which the run holds an
  instance.

## 5. Not modelled

* `npc_single_cycle.v` and its DPI memory, which `npc_core.v` does not instantiate;
* parsing of ELF and binary files and of shell commands, memory dumps, trace files;
* RT-Thread objects, devices, printing and hooks: registration lists and driver
  glue without interleavings of their own; signals, slab and the multi-core
  scheduler, which are not compiled for this target; memheap, which is not its heap;
* the vendored components and tools of RT-Thread (file systems, process support,
  shell, libc, network, kconfig): nearly all of the repository's lines, almost none
  of it configured for this target, and none of it the repository's own;
* klib, demo programs, ISA tests and benchmarks.

`PROJECT.json` gives the reason for each.

## 6. Findings

Each has a run that shows it.

1. **`stale_csr`** (`npc_pipeline.v:546`). `csr_busy` waits for CSR instructions
   ahead, not for exceptions. An ecall writes `mepc` and `mcause` in WB in the
   cycle in which the handler's first instruction, if it hits in the cache,
   reads its CSR in ID; it gets the value from before the trap.
2. **`clint_store`** (`npc_clint.v:41`). The timer is written only in a cycle with
   a commit; a store behind the producer of its data passes MEM with none.
3. **`rt_turns`** (`scheduler_up.c:259`). `rt_schedule` clears the YIELD mark before
   it puts the yielding thread back, so the thread goes to the front of its list:
   of three threads of one priority that yield, two take turns and one starves.
4. **`rt_resume`** (`thread.c:1077`). `rt_thread_resume` enables interrupts between
   taking the thread off its list, with its timer, and putting it on the ready table.
   On a port with a clock the caller can be preempted there, and another thread resumes
   the same thread, which runs and sleeps again; then the first caller inserts the
   sleeping thread. It is READY with its timer running, and when that runs out the
   assertion of `_thread_timeout` fails (`thread.c:136`).

### Other deviations

The modules also state properties that the code does not meet; TLC refutes each
on the instance given. They are not among the runs. An instance is the
module's own, or one of a run, with the constants named.

| Property | Module, instance | What the code does, and what is said of it |
|---|---|---|
| `HaltIsFinal` | `MCCore` with RAM of 32 bytes and `TailImages` | `npc_pipeline.v:560`: a fetch behind `ebreak` whose fill faults after the halt enters IF/ID of the halted core and commits ("so the core stops fetching", `notes/core-design.md:174`) |
| `FaultBelongsToPc` | `MCCore` with RAM of 32 bytes and `LastJumpImages` | `npc_icache.v:110`: the fault of an abandoned fill answers the fetch of the jump target ("simply not used", `notes/core-design.md:298`) |
| `FetchedIsCurrent` | `MCDifftest` with `FenceIImages` | `npc_pipeline.v:746`: the cache is flushed with fence.i in WB; the instructions behind it are not refetched |
| `ReservedTrapped` | `MCDifftest` with `ReservedImages` | `emulator_iss.cpp:287`: the reference does not check rs1 of register-register instructions |
| `TimerReadAgrees` | `MCDifftest` with `TimerImages` | `npc_clint.v:29`: `mtime` is read in MEM, before older instructions have counted |
| `EventPcAgrees` | `MCDifftest` with `FarImages` | `emulator_iss.cpp:596`: the event of a fetch fault carries the pc after the trap |
| `FenceIExact`, `SystemExact` | `Decoders` as in `UnitCheck` | `decoder.cpp:78` ignores rd and rs1 of fence.i ("fence.i is exact"); `npc_decoder.v:225` those of ecall, ebreak, mret, wfi |
| `FaultLoopEnds` | `EmulatorShell`, a program whose instruction at `Mtvec` faults, `MaxPcStuck = 3` | `shell.cpp:78`: faults reset the stuck counter ("This catches tight fault loops", `notes/emulator-debugging.md:129`) |
| `UntilNewOutput` | `EmulatorShell` as in session `stops`, with a program that also prints another byte | `shell.cpp:64`: `run until uart` looks at output from before the run |
| `CheckpointRestores` | `EmulatorShell`, session `stops` with checkpoints | `emulator_iss.cpp:220`: UART, timer and halt flag are not in the file (`notes/emulator-design.md:424` lists UART state) |
| `SleeperWoken` | `RtThreads` as in `SleepClock`, `ClockISR = FALSE` | `clock.c:91`: nothing in the port calls `rt_tick_increase`, so sleeps and timeouts never end |
| `QueueInOrder` | `RtSemaphore` as in `SemaphorePrio` | `thread.c:852`: a waiter whose priority changes keeps its place |
| `PriorityExact` | `RtMutex` as in `Mutex`, `Ceilings = {0, 1}` | `ipc.c:1478`: a waiter that is handed a mutex is not raised to its ceiling |
| `TakeOkOwns` | `RtMutex` as in `Mutex`, `MutexOps = {"suspend", "resume"}` | `ipc.c:1186`: a resumed waiter returns RT_EOK without the mutex |
| `OwnerAtFailure` | `RtMutex` as in `MutexClock` | `ipc.c:1300`: after a timeout the owner is read, though it may have released the mutex |
| `MutexAtFailure` | `RtMutex` as in `MutexLife`, `MutexOps = {"freed"}` | `ipc.c:1300`: waiters use the mutex after `rt_mutex_delete` freed it |
| `OnlyTakersOnList` | `RtMutex` as in `MutexClock`, `MutexOps = {"suspend"}` | `ipc.c:807`: a take that timed out leaves `pending_object` set, and inheritance later links the thread to that list |
| `ListIsActive` | `RtTimer` as in `HardTimers`, `OwnMode = TRUE` | `timer.c:698`: a timer that turns one-shot in its own function stays ACTIVATED off the list |
| `ReadyTableExact` | `RtThreads` as in `ThreadsClock`, `Rules = {"apart"}`, `Ops = {"sleep", "delete", "critical"}` | `thread.c:546`: the timer of a sleeping thread runs out between the parts of its deletion; the thread is closed and on the ready table |
| `ReadyTableExact` | `RtThreads` as in `ThreadsClock`, `Rules = {"apart"}`, `Ops = {"sleep", "resume"}` | `thread.c:1064`: the timeout comes between the test of the state and the removal from the list; the resumed thread is inserted again |
| `SuspendedWithoutTimers` without the exception `late` | `RtSoftTimer` as in `SoftTimers` | `timer.c:822`: a timer started between the look at the empty list and the suspension wakes nobody |
| `FrameHoldsRegisters` | `AmContext` as in `Context` | `am/trap.S:46`: the frame's t0 is the old sp; harmless to a yield, for which t0 is caller-saved |

Two remarks from modelling the heap: `rt_realloc` to a size that is smaller but
leaves no room for an item asks for a new block and fails when the heap is
full; and the two updates of `lfree` in `plug_holes` never have an effect, since
both callers have lowered it before.

## 7. Plan

Done: memory side, pipeline, core, reference, harness, units and decoders, shell,
context switch, the RT-Thread kernel with its objects, memory and timers; proofs
for the memory side, the pipeline, the kernel with threads, semaphores, mutexes, memory
pools and mailboxes, the system timer and the uptime function. Next, in this order:

1. `ImplementsFifo` and `BlocksAccounted` of `RtMessageQueue`: the lists of the pool and the
   two sides of the mailbox, with the copy between two locks.
2. `StopsBeforeTarget` and `LastExact` of `EmulatorShell`.
3. `FetchedIsCurrent` of `NpcCore` for programs that do not write their own code,
   from `LinesCoherent`.
