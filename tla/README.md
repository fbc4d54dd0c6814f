# A verification development for the RISC-V core and its simulated machine

This directory holds TLA+ models of the five-stage RV64 core of this repository
(`src/vsrc`) and of the simulated machine and test bench around it
(`src/verilate`), the TLC runs that check them on small instances, and TLAPS proofs of
properties that hold for every size, program, list of calls and list of tests.

## 1. The system

The **core** is synchronous: every register is clocked by one clock, and every cycle all
units exchange combinational wires. What makes it hard is that a single event (a trap, a
return, a page fault, a taken branch) must be noticed in the same cycle by seven state
machines that are each in the middle of something else.

| part | code | state | what it does | what would make it wrong |
|---|---|---|---|---|
| fetch | `src/instr_mem.sv` | state, pc, pc_prepared, instr, registered request, pending redirect | walks NEW_INSTR, CHECKING, EXEC, COMMIT; offers an instruction; latches a redirect that meets a stall | a redirect lost or served twice, an instruction skipped |
| pipeline | `src/datapath.sv`, `if_id_reg`, `id_ex_reg`, `ex_mem_reg`, `mem_wb_reg`, `saf_unit`, `load_use_hazard` | four pipeline registers, `last_valid_pc` | moves instructions, stalls, flushes | an instruction lost, repeated, or executed after a trap; an operand read too early |
| traps, CSRs | `csr_file`, `privilege_unit`, `trap_router`, `final_redirect_pc_unit` | mode and CSRs | traps, mret, sret, CSR writes in write-back | wrong mode, pc or status after a trap |
| multiply/divide | `muldiv_unit.sv` | state, operands, partial results, counter | one bit per cycle, offers the result for one cycle | a wrong sign, word form or corner case; a result taken by another instruction |
| fetch bridge | `ibus_to_dbus.sv` | one outstanding miss, one 64-bit line | turns fetches into line reads | a miss forgotten, a stale line used |
| data bus arbiter | `dbus_arbiter.sv` | the request being served | data port first, then fetch | starvation, an answer to the wrong port |
| MMU | `mmu.sv` | walk state, request, TLB | Sv39 walk, TLB, page faults | wrong address, stale TLB, wrong answer taken |
| memory bus | `util/CBusArbiter.sv`, `DBusToCBus.sv`, `VTop.sv` | the transaction on the bus | keeps a request until it is answered | request changed under the device |

These units interact through wires: fetch asks the bridge, the bridge and the memory stage
ask the arbiter, the arbiter asks the MMU, the MMU asks the CBus; answers come back the
same way. `bus_cancel` (trap, mret, sret or page fault) tells bridge, arbiter, MMU and
memory stage to forget what they do. The CBus is not told.

The **simulated machine** and the **test bench** are C++ around the Verilated model:

| part | code | state | what it does | what would make it wrong |
|---|---|---|---|---|
| memory | `cbus_device.cpp`, `axi.h`, `memory.cpp` | the transaction in progress, the contents | answers with random pauses, bursts that wrap, two windows on one block | a beat at the wrong address, a request that changes under it |
| device registers | `confreg.cpp` | registers, UART context and FIFO | special stores, terminal in and out | a character lost, doubled or announced and not there |
| test client | `bus.h`, `cell.h` | the queue of ongoing tasks | puts bytes on lanes, one request at a time, fences | tasks out of order, a fence that never passes, wrong lanes |
| test driver | `testbench.cpp`, `testbench.h` | list of defers, worker processes and pipes | runs the tests in the process or in forked workers | a test forgotten or counted twice, a worker left behind |
| reporters | `ThreadWorker` in `common.cpp` | a heap flag shared with a detached thread | prints which test runs | a write to a freed flag, a thread that never ends |

The client calls the device through `tick`, once per clock edge; the terminal's thread
pushes into the UART's FIFO at any time; the master and its workers exchange one
character and one number per test over two pipes each.

The parts left out, with the reason for each, are in the `components` list of
`PROJECT.json` and in section 6.

## 2. The modules

| module | models | notes |
|---|---|---|
| `Common` | `include/common.sv` | addresses, modes, requests; data are named by the address they were read from |
| `FetchUnit` | `instr_mem.sv` | one action per state, plus stall and redirect |
| `TrapUnit` | CSRs and mode | trap to S, trap to M, mret, sret, CSR write |
| `MulDivControl` | `muldiv_unit.sv` | what the pipeline sees of it, and the specification `MduSpec` |
| `Pipeline` | `datapath.sv` and its registers | EXTENDS the three above; the bus side is an input record `in` |
| `PageTable` | the Sv39 rules of `mmu.sv` | pure operators, with the reference walk `Translation` (`Walk2`, `Walk1`, `Walk0`) |
| `Mmu` | `mmu.sv` | EXTENDS `PageTable` |
| `IBusToDBus`, `DBusArbiter`, `CBusArbiter`, `CBusDevice` | the units of the same name | `CBusDevice` is what a core sees of the memory |
| `Core` | the whole core and its memory | EXTENDS all of them and connects their wires |
| `Isa` | what a program is promised | abstract specification |
| `MulDiv` | the arithmetic of `muldiv_unit.sv` | the width is a constant; implements `MulDivControl` |
| `LoadOps` | byte lanes of `bus.h` | a word is a function from lanes to bytes |
| `AxiTransaction` | `axi.h` | addresses of a wrapping burst |
| `SimMemory` | `memory.cpp`, the layout of `model.cpp` | EXTENDS `LoadOps` |
| `Confreg` | `confreg.cpp` | operators: the effect of a tick on the registers |
| `Soc` | client, device, memory, registers, terminal | EXTENDS the four above; the state machine of the harness |
| `SerialSoc` | what a test is promised of its calls | abstract specification; that calls end is `FenceEnds` |
| `TestCase` | a test with its plug-ins, and `ThreadWorker` | the serial run |
| `Testbench` | `run_testbench` | EXTENDS `TestCase`; master, workers, pipes |
| `Campaign` | what a run of the tests promises | abstract specification |
| `MemoryImage` | loading a program file | `parse_memory_file`, `BlockMemory::map` |
| `PipelineProps`, `CoreProps`, `MulDivProps`, `SocProps`, `TestbenchProps` | properties, refinement mappings | |
| `Claims` | statements of comments in the core that do not hold | |
| `MCCore`, `MCClaims`, `MCMulDiv`, `MCSoc`, `MCTestbench`, `MCImage` | instances for TLC | |
| `PipelineProofs`, `CoreProofs`, `StreamProofs`, `AccessProofs`, `ProgramProofs` | theorems about the core | a chain: each EXTENDS the one before it |
| `MulDivProofs`, `SocProofs`, `TestbenchProofs` | theorems about the other parts | |

**The core.** One step is one rising clock edge. A unit's step is an operator
`XClock(inputs)`, a disjunction of named actions, and `PipeClock` and `CoreClock` conjoin
them: a step of the machine is the conjunction of one step of each unit, with the wires
computed from the state before the edge, exactly as the `always_ff` blocks do. There is
therefore no interleaving of units; the interleavings the machine meets are those of
*when* memory answers, the divider ends, an interrupt arrives and which outcome an
instruction has. These are the parameters of `CoreNext`.

A word of memory is named by its address, so "the right data" is "the data of the right
address". `Op` gives the class of the instruction at an address, `Outcome` the addresses
or targets it may compute (all of them are tried), `CsrArg` what a CSR instruction leaves
in its register. Loads and stores are doublewords. Reset is the initial state. `instr_exc`
(illegal instruction) is declared and never driven in the code, so it is absent here. In
an interrupt's cause the flags that `trap_cause` does not gate with valid
(`datapath.sv:411-440`) are left out: without an exception in write-back, none is up when
an interrupt is taken. The three interrupt lines are one line; its level is free in every
cycle. The reserved value of MPP is never written. `stores` and `orphan` in `Core` are
history variables: how many writes the memory performed for a store, and whether the
transaction on the CBus was begun for a request cancelled since.

**Multiply and divide.** A register of n bits is a number below 2^n and every operation
that can lose a bit is taken modulo; a word has `Half` bits, a doubleword twice as many.
`who` names the instruction that asks and is the link to `MulDivControl`.

**The harness.** `Tick` is one call of `DBusPipelineGen::tick` with everything it causes:
the answer sampled before the edge, the device's `eval_req` and `sync`, the registers'
`sync` and `checkout_confreg`, the task popped, its datum delivered, the next request
issued. `eval_req` and `sync` happen in the same tick, so of the pair `tx`, `ntx` only
`tx` is state, and `_strobe`, `_data` are wires. `Submit` is `submit`; the calls of a test
are one set after another, tried in every combination. A `get` reads a memory cell (a load
and a fence). `Type` is the terminal's thread, `Reset` the reset between tests. Reset and
tick of the top level are not in the repository, so their order of calls is taken from
what the device's comments need; the client of bursts stands for a cache. `output` and
`answer` are history. The client gives addresses as it writes them; the wrappers' masking
of bit 31 is left out, and so are the limits on ticks: 2^64 - 1 of `fence` (`bus.h:789`),
2^27 of `await` (`bus.h:575`), which panics after that long a wait. The free-running TIMER
and the `v_` members of the registers are left out.

**The test bench.** In a serial run a test's plug-ins, defers and end are steps of
`TestCase`. With more workers a test is one step with its outcome, since a worker's memory
is its own; what is modelled is what the processes share: pipes, end of file, `select`,
`kill`, `waitpid`. A worker forked later has inherited the master's write ends of the
earlier workers' pipes (`HungUp` waits for them). `ready` is the set `select` returned and
has not been scanned yet, so a worker may ask or die between `select` and `read`. The
number of workers is any from 0 to `MaxWorkers`, as nothing checks it. A negative one,
which `reserve` refuses with an exception before anything is forked, and a shortage of
descriptors (two per worker, `FD_SETSIZE` for `select`) are left out. Global defers are
empty in this repository; the text of the status line is left out. `Die` is an assertion's
`abort`, with or without `abort_testbench` as its signal handler, which is left to the
program that links the bench. A reporter in its sleep dies with the process.

## 3. What is checked

| run | instance | properties |
|---|---|---|
| `programs` | two machines: M, S, U with delegation and superpages; U with an M handler | `PremisesHold`, `LoadOwn`, `StoreOnce`, `MduOwn`, `TlbCurrent`, `LineCurrent`, `InstructionStream`, `ImplementsIsa`, `Progress` |
| `interrupted` | an interrupt in any cycle of a U loop | `CoreTypeOK`, `PipeInv`, `OneInFlight`, `OperandsReady`, `MissHeld`, `BusInv`, `DeviceStable`, `OwnAnswer`, `Progress` |
| `muldiv` | words of 3, doublewords of 6 bits; every request after one of two others | `ResultCorrect`, `DivisionHolds`, `ProductHolds`, `ImplementsControl`, `Answers` |
| `soc` | three calls, two at a time, 4 doublewords of memory, two characters typed | `SocTypeOK`, `IssuedIsFront`, `DeviceAsserts`, `FifoKept`, `ImplementsSerial`, `ImplementsDevice`, `FenceEnds` |
| `testbench` | 0 to 3 workers, ten lists of up to four tests | `BenchTypeOK`, `OneToken`, `PassedCounts`, `AllPassed`, `NobodyLeft`, `NothingLeftOn`, `FlagOwned`, `ImplementsCampaign`, `ReportersEnd`, `Ends` |

* `ImplementsIsa` is the main result of the core: with the pc of the oldest unfinished
  instruction as its pc, the machine's steps are those of a machine that executes one
  instruction at a time, each fetched and accessed through the page tables in force, each
  completing or trapping precisely. `Isa` may choose any outcome of an instruction, so it
  would accept a missing trap on an access that had a good address to choose instead; the
  programs therefore hold loads and stores whose every address is bad.
* `InstructionStream` says the same of the pc alone, step by step: the oldest instruction
  changes only when it leaves write-back, and then to its successor.
* `LoadOwn`, `StoreOnce`, `MduOwn` say that each access gets its own data, once.
* `PremisesHold` says that the programs are within the premises of the theorems
  (section 4); a TLB that is not emptied when the mode changes would break it. It does not
  catch the permission check that a TLB hit leaves out (`mmu.sv:205`): its part
  `HitsPermitted` holds because these programs use each page as it was first used.
* `OperandsReady` says that registers and CSRs are read only when every older instruction
  has written them: forwarding and the register file's bypass never decide a value.
* `MissHeld`, `DeviceStable`, `OwnAnswer` are the agreements between neighbouring units
  of the bus that no unit can check by itself.
* `Progress` is liveness: instructions keep reaching write-back.
* `ResultCorrect` compares the unit with division and multiplication of integers;
  `DivisionHolds` and `ProductHolds` are the loops' invariants. `ImplementsControl` ties
  the arithmetic to the state machine that `programs` and `interrupted` are checked with.
* `ImplementsSerial`: the harness performs calls one at a time and in order, each beat in
  one step, on bytes, registers and a terminal; lanes, masks, requests, bursts and pauses
  disappear. It asks of the calls what `PlainCalls` says (section 4). `ImplementsDevice`: the same device is the memory that `Core` is checked with.
* `DeviceAsserts` is what `CBusDevice::eval_req` asserts; `FifoKept` what `Confreg::sync`
  asserts, at the granularity of calls.
* `ImplementsCampaign`: every test is started once and in order, a run passes only if all
  ended, and fails only for a test that does, with no more tests at a time than workers.
  `OneToken` is the protocol behind it, in which one character is a request and the report
  of a pass. `PassedCounts` is exact: the tests that ended are those counted and one for
  each worker whose report the master has not read. Such reports stay unread after a
  failure, so the number of a failed run may be smaller than the number of passes.
* `AllPassed` and `ImplementsCampaign` say what happens without workers, which `-j 0` asks
  for (`runner.h:83` takes any number): nobody is forked, the loop is not entered
  (`testbench.cpp:126`), and the run reports no failure and 0 passed, whatever the tests.
* `NobodyLeft`, `NothingLeftOn`, `FlagOwned` are about what must not be left behind:
  workers, controllers and traces, heap flags.
* `Ends`, `ReportersEnd`, `FenceEnds`, `Answers` are the liveness of these parts.

**Bounds.** In `programs` memory has 1024 byte addresses in 16 pages of 64, in the other
runs of the core 256 in 8 pages of 32; tables have 2 entries and three levels, the TLB 2
rows. A program uses more pages than the TLB has rows, so it overflows and its pointer
wraps, walks end at all three levels, both halves of a line are fetched, and each kind of
leaf (4 KB, megapage, gigapage, misaligned gigapage, forbidden, missing) is met. `stores`
is capped at 2 by `Cap2`, enough to tell never, once and more. In `muldiv` six bits have
every combination of signs, carries, zero divisors and overflows, and the request before
leaves every register far from zero. In `soc` (`Depth`, `MaxTyped`, three calls) a task is
submitted to an idle and to a busy bus, every width, both windows and both halves of a
doubleword are used, bursts of 2 and 4 wrap, a store overlaps a load and a character
arrives in any cycle. In `testbench` (`MaxWorkers`) there are more and fewer tests than
workers, no worker at all, failures first, last and twice, and skips in the middle of the plug-ins.
`muldiv`, `soc`, `testbench` and `map_bytes` stop when all is done, so deadlock is not
checked there.

**Fairness.** `CoreFairSpec` adds weak fairness of `Served`, the clock edges at which the
memory is enabled and a running multiply or divide ends: the simulated memory is enabled
at random in every cycle (`cbus_device.cpp`, `p_disable`), the BRAM answers after a fixed
delay, and a multiply or divide takes 32 or 64 cycles. Nothing is assumed of interrupts or
of the outcomes of instructions. `MdSpec` assumes that the clock goes on. `SocSpec`
assumes that the test keeps ticking in its fence and that ticks with the device enabled
come again, which a `p_disable` below 1 gives with probability 1. `BenchSpec` assumes that
the system schedules the master, each worker and the threads, and that a test comes to an
end; not that a worker's death is noticed before anything else. It lets a reporter run on
after the driver's end, where the end of the process would end a sleeping one: so
`ReportersEnd` shows that a reporter that was told to stop does so if the process lives on.

**Preconditions.** `LoadOwn` to `LineCurrent`, `InstructionStream` and `ImplementsIsa`
hold of programs in which no interrupt is taken, without sret and changes of satp under
translation; `ImplementsIsa` also needs that no fetch is refused. (The interrupt lines of `programs` are up and down at
will; the program in U mode masks them, and sets and clears mie in M mode.) Each of these is dropped in a run of its own, which finds a violation
(section 4 states them as the formulas the theorems assume):

| run | the code's statement | what happens |
|---|---|---|
| `sret` | `final_redirect_pc_unit.sv:2`, with an sret arm | `final_redirect_valid` has no sret term: mode changes, fetch goes on at pc + 4 |
| `fetch_fault` | `mmu.sv:504`: a fault stays up long enough to be captured | it is up for one cycle, with fetch in EXEC; IF/ID samples it in COMMIT; the instruction retires as a nop, and the next one may suffer (below) |
| `irq_resume` | `datapath.sv:374`: the saved pc is the point to resume at | `last_valid_pc` is stale after a redirect, e.g. after mret it is the mret's pc + 4 |
| `irq_younger` | `saf_unit.sv:72`: younger instructions are cleared | the one in MEM goes on to WB, as `mem_wb_flush` is 0 |
| `stale_answer` | `dbus_arbiter.sv:84`: an old transaction does not pollute | CBusArbiter is not cancelled, the MMU takes the old answer for its new request |
| `satp_switch` | `ibus_to_dbus.sv:12`: no old line after a change of satp | a csrw to satp raises no cancel |
| `map_bytes` | `runner.h:97`, `memory.h:22`: the file initialises the memory, addressed by bytes | the mask in `BlockMemory::map` is a 32-bit number: mapping a byte clears the upper four lanes, whatever the undefined shift by 32 or more gives |

What follows a refused fetch was found by TLC while the invariant about misses was being
strengthened for the proofs of section 4. In COMMIT the request of the refused fetch is
still up, so the bridge misses once more, and nobody waits for that answer. The fetch that
comes next may take it for its own. When the refused word is the upper half of its line,
the next instruction is dropped, or the machine executes the half line at pc 96, say, as
the instruction at pc 100. The order of pcs is kept (`ProgramOrder`), the buses, loads,
stores, the TLB and the line are right (`DataSurvivesFetchFaults`); the words are not, and
`Isa` cannot be implemented without `NoFetchFault`.

With these exceptions `interrupted` shows which properties survive interrupts: the shape
of pipeline and buses and progress do, precision does not.

## 4. What is proved

TLAPS checks the theorems below for every address space, page size, TLB size, program,
page table and memory delay, every width, every list of calls, every number of workers,
0 included, and every list of tests. The safety properties of the passing runs are all among them,
except `PremisesHold`, which is about the programs of one run.

### Assumptions

On the constants: `AddrAssumption`, `ProgramAssumption`, `PageAssumption`,
`TlbAssumption`, `NumInputsAssumption`, `NumMastersAssumption`, `CoreAssumption`;
`HalfAssumption`, `OfferedAssumption`; `MemAssumption`, `SocAssumption`,
`CallsAssumption`; `SuitesAssumption`, `MaxWorkersAssumption`. Three need a word.
`PageAssumption` says that pages are whole lines and fill the address space, and
`CoreAssumption` that a value written to satp is the address of a page: the code composes
both by concatenation, so nothing else can be written down. `CallsAssumption` says that a
test's calls keep within what the memory's assertions let pass, over the whole block of a
burst, since a burst that starts in the middle wraps. `PlainCalls`, which only
`SocImplementsSerial` assumes, says that an address is a multiple of its width (`bus.h:722`
asserts it of the pipelined client, the other relies on it), that a burst is of
doublewords, and that a datum has no more bytes than its width, since `place` masks
nothing; TLC evaluates it in `soc`. `PowersAssumption` is arithmetic,
`2^(m+n) = 2^m * 2^n` for the widths in use, which the provers do not know; TLC evaluates
it in `muldiv`.

On behaviours, all in `CoreProps`, each justified by the run that drops it or by the code:

| premise | meaning | without it |
|---|---|---|
| `NoInterrupts` | no interrupt is taken: a line that is up is masked | `irq_resume`, `irq_younger`, `stale_answer` |
| `NoSret` | no sret is in write-back | `sret` |
| `NothingAtZero` | no instruction has pc 0 | fetch takes 0 for "no instruction yet" (`instr_mem.sv:237`) |
| `NoFetchFault` | no fetch meets a page fault | `fetch_fault`; only `CoreImplementsIsa` and the theorems under `AccessInvariant` and `TableInvariant` below assume it |
| `SatpFromM` | satp is written in M mode | `satp_switch` |
| `HitsPermitted` | an access that hits the TLB is one the tables permit | a hit checks no permission (`mmu.sv:205`): a page filled by a load may then be stored to |

They are conditions on the states of the machine, not on the text of the program, so a
program may hold an sret it never reaches, and interrupt lines may be up as long as mie,
mstatus or the mode keep them out. The two machines of `programs` satisfy all six
(`PremisesHold` is an invariant of that run), with page faults of loads and stores, traps,
mret, delegation and writes of satp. `NoSret` is needed by more than the order of
instructions: with an sret at the end of a line, followed by a trap, the fetch that the
trap's cancel answers leaves a miss behind, and a later fetch takes its line (TLC finds
`LineCurrent` and the buses' invariants violated).

### The core, without premises

* `PipelineTypeCorrect`, `CoreTypeCorrect`: the type invariants.
* `PipelineInvariant`, `PipelineOneInFlight`, `PipelineOperandsReady`: under any behaviour
  of the buses at most one instruction is in EX, MEM and WB, and one in ID finds these
  empty. `OneInFlight` is not inductive. The strengthening `PipeInv` says how far the
  previous instruction has come in each fetch state (`Spacing`: in EXEC and COMMIT, ID and
  EX are empty, and so on), that an empty register decodes to nothing (`BubblesEmpty`, so
  that a flushed jump, whose redirect does not look at valid, cannot jump), and that a
  redirect left pending by a stall finds an empty pipeline (`PendingAlone`). A stall
  freezes fetch together with ID and EX, and one transition of fetch moves each stage by
  one: that is the argument.
* `CoreImplementsPipe`: `CoreSpec` implements `PipeSpec`: the wires of the whole machine
  are inputs of the pipeline. The invariants of the pipeline carry over
  (`CoreOneInFlight`, `CoreOperandsReady`).
* `FetchBusInvariant`, `MissNeverForgotten`: by `BusInv`, a fetch request is up only while
  no instruction is in MEM, so the arbiter's priority never matters in the single cycle of
  the miss, and what the arbiter holds is still wanted by its port. It rests on `PipeInv`.
* `DeviceRequestStable`: the CBus arbiter's registered request is the device's.
* `TransactionOwned`: by induction over the MMU's states, the request on the CBus is the
  MMU's present one unless a cancel left it behind.

### The core, for the programs it serves

Each step rests on the ones above it.

* `ProgramOrder` (`NoInterrupts`, `NoSret`, `NothingAtZero`): no instruction is lost,
  repeated or reordered. The invariant `InOrder` says that what fetch goes on with is the
  successor of the youngest instruction in the pipeline, at every stage of both, and that
  no redirect is pending. By `OneSource`, a redirect comes from WB or from a jump in EX,
  which is then the only one beyond ID, and never meets a stall. By `Masked` a line that is up
  and not taken acts on nothing: the step is one that the line down allows (`QuietCore`).
* `ResultOwned` (`NoInterrupts`): `MduOwn`, by `MduBusyFor`: a unit that works, works for
  the instruction in EX, and the result travels with that instruction.
* `AccessInvariant`, `StoreReachesOnce`, `NothingLeftBehind` (`NoInterrupts`, `NoSret`,
  `NoFetchFault`): fetch waits for a miss behind an empty pipeline (`MissAlone`); arbiter,
  MMU, CBus and memory hold one and the same access (`MmuServes`, `BusServes`), a load or store carries no exception from before
  MEM (`FlagsEarly`), and the writes counted for a store fit the MMU's state
  (`StoreCounted`). Under these premises every cancel comes when nothing is under way, or
  in the one cycle in which the MMU reports its fault and is done, so `orphan` stays false
  and a store is performed once, or not at all if it traps.
* `TableInvariant`, `TlbFollowsTables` (also `SatpFromM`): `TableInv` says that the walk is
  at the table the page tables name for the level it has reached (`WalkRight`) and that a
  TLB row is a leaf that some walk found (`TlbRight`).
* `TranslationInvariant`, `LoadsTheirOwn`, `LineFollowsTables` (`NoInterrupts`, `NoSret`,
  `NothingAtZero`, `SatpFromM`, `HitsPermitted`, so with refused fetches):
  `TranslateInv` adds that the access a walk or a hit ends in goes to the address the
  tables give (`AccessRight`), with `LineCurrent` and `LoadOwn`. Every trap and mret
  empties TLB and line. A write of satp does not, which `SatpFromM` makes harmless: nothing is translated
  in M mode, and M mode is left only by an mret. After a refused fetch `MissAlone` is
  false; `MissKept` takes its place. It says that a miss is one that fetch waits for, or
  one a refused fetch left behind (`MissLeft`): then every stage holds a bubble or a zero
  word, the line is empty, and fetch is between the refused pc and the end of the fetch
  after it. So nothing asks the buses or cancels them before the answer (`MissQuiet`),
  which is all that `AccessInv` needs of it. How far fetch may be takes `InOrder`, hence
  `NothingAtZero`.
* `DataSurvivesFetchFaults`, `FetchFaultsUnreported` (the same): stores, TLB and CBus are
  right after any number of refused fetches, and no trap ever has their cause: what the
  run `fetch_fault` finds in one program is so in all.
* `HitsOfFullLeaves` (the same, less `HitsPermitted`): where leaves grant everything
  (`GrantsAll`), `HitsPermitted` follows, so the unchecked permission is all that premise
  is about.
* `CoreImplementsIsa` (all six): the refinement of the core, step by step. `SlotsRight`
  says that each stage holds the word at its pc, with the flags the architecture gives it
  there: the misaligned pc or target, the page fault of its own access. Then
  an edge with an instruction in WB is one instruction of `Isa`, and every other edge a
  stutter. The mode and satp that `Isa` uses at the end are those that fetch and MEM used
  before, because what changes them is in WB, alone. The delicate case is a data fault: it
  is up for one cycle and traps in the next, and what fetch delivers meanwhile is dropped.

### Multiply and divide

* `UnitImplementsControl`: a refinement, step by step: `Accept` is an accept of the
  control, an iteration that is not the last a stutter or a busy step, `Release` a
  release; the reset state maps to the reset state.
* `UnitResultCorrect`, `UnitMultiplies`, `UnitDivides`: for every width, by `MdIInv`: the
  job is one that was asked; while it runs, the bits already taken and the registers that
  hold the rest make up the operands (`MulHolds`, `DivHolds`), and nothing shifted out is
  still needed; at the end, signs, word form, a zero divisor and the overflowing quotient
  give what the instruction set defines (`ResultCorrect`).

### The simulated machine

* `SocIssuedIsFront`, `SocDeviceAsserts`: the invariant `BusIInv` says that the request is
  the front task's and that a transaction is that request's, at a beat within its length
  and an address within its block. The two need each other: only because the task in
  front is popped with the last beat does the request stay as it was until then. The
  arithmetic of the block (`BeginShape`, `AdvanceShape`) is division with remainder.
* `SocFifoKept`: availability is sampled after the character is taken out, and between two
  samples the terminal's thread only adds.
* `SocTypes`, `SocBeatsMapped`, `SocImplementsDevice`: `HarnessIInv` adds the types and
  that every address of a transaction is in the block of a call (`InBlockOfCall`). So no
  beat falls outside the memory, and the device with bursts, pauses and contents
  implements `CBusDevice`, the memory that `Core` is checked and proved with.
* `SocImplementsSerial` (`PlainCalls`): the refinement of the harness. Beside `HarnessIInv`
  the induction needs one more fact, `BeatAt`: the transaction is at the beat whose address
  a serial execution would use. Then an edge that takes an answer is one `Perform`: what
  the lanes of the word hold, taken and placed by `bus.h` and masked by the device, are the
  bytes at the call's addresses (`Taken`, `Placed`, `BytesStored`, `BytesLoaded`), and
  every other edge is a stutter, a call asked for or a character heard.

### The test bench

* `BenchOneToken`, `BenchNobodyLeft`, `BenchAllPassed`: the invariant `PoolIInv` adds to
  the token of each worker that a pipe is closed exactly for a worker that was sent -1,
  that `exited` counts these, and that the tests dispatched are the passed ones and one
  for each worker that has not reported (cardinalities of sets of workers, `Owing`): with
  all exited, none is left. Without workers nothing is dispatched.
* `BenchNothingLeftOn`, `BenchFlagOwned`: `CaseIInv` says that in the serial run each
  plug-in that is on has its defer in the list, in the order in which they were switched
  on, and that a thread's flag is freed only by the thread, after its last read.
* `BenchPassedCounts`, `BenchTypes`, `BenchImplementsCampaign`: `TestsIInv` relates the
  numbers: which tests the workers hold, have passed, or died with. So the tests
  dispatched are the ended ones and one for each worker with a test not ended (`TwoParts`),
  and the workers of `Owing` are those and the ones with a report not read (`OwingParts`):
  what is left is that passed is exact. With `PoolIInv` and `CaseIInv` every step of master
  and workers maps to a step or a stutter of `Campaign`; a worker that asks runs no test,
  so a new one fits beside those that run (`HandsFree`).

### Only model-checked

* `PremisesHold`: that the programs of one run are within the premises.
* Liveness: `Progress`, `Answers`, `FenceEnds`, `Ends`, `ReportersEnd`. The prover does
  not know ENABLED, on which weak fairness rests.

## 5. Hazards without a property

They are in `PROJECT.json` with a note each. Of these, the ones a reader of the code should
know: write-back of a trapping load is not suppressed (`datapath.sv:930`); the registers
at offsets 4 modulo 8 answer in the lower half of the bus, where a client's lane
operations do not look (`confreg.cpp:40`); the number monitor is not reset with the
machine (`model.cpp:148`); a memory cell of eight bytes overruns a 32-bit variable
(`cell.h:115`).

## 6. Not modelled, and what comes next

* The 64-bit data path (ALU, immediates, comparisons) and the values of the register file:
  combinational; TLC would only repeat it at a small width.
* Value forms of the CSR file: read-modify-write, views of mstatus, mtval; the lines of
  `data_mem.sv` that pick bytes.
* `CBusToAXI`, the multiplexers, the crossbar, BRAM wrapper, UART and top levels of the
  FPGA system: they are beside the simulated machine.
* Option parsing, trace files, statistics and the difference test, whose reference is an
  external program.
* `CLI11.hpp` and `nameof.hpp` are vendored. They are most of the C++ lines of the
  repository, and of the SystemVerilog only what is instantiated matters.

Next steps, in order: the architectural registers (rd, rs, write-back of a trapping
instruction) as an extension of `Isa`; the CSR file in detail; the MMU on its own over
all shapes of small page tables; `CBusToAXI` and the BRAM wrapper as other
implementations of the memory side.
