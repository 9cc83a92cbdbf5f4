# A TLA+ verification of the RV32/RV64 pipelined processor

The system is an in-order RISC-V processor in Verilog (`design/`) with five or
six stages, optional caches, translation and branch prediction, a serial port
and a timer; the Python tools it is developed with (`sim/tools/`: the golden
model, the assembler and disassembler, the random program generator, the
debugger); and the SBI firmware that runs on it (`sim/firmware/`). Paths in this
file are relative to `src/`.

Two kinds of correctness are modelled. Some parts are right only if several
things happen in the right order: pipeline registers and the interlocks between
them, multi-cycle units, traps, the cache, the page-table walker, firmware and
devices, a generated program and its interrupt. Others are right only if several
independently written pieces of code agree: the assembler, the disassembler, the
golden model and the decoder on an encoding; ALU and golden model on a result;
floating-point datapath, golden model and a definition of rounding on a value.

1. [The system's parts](#1-the-systems-parts)
2. [Modules](#2-modules)
3. [What is checked](#3-what-is-checked)
4. [Bounds](#4-bounds)
5. [Fairness](#5-fairness)
6. [What is proved](#6-what-is-proved)
7. [Where the code and its documents disagree](#7-where-the-code-and-its-documents-disagree)
8. [What is not modelled](#8-what-is-not-modelled)
9. [Plan](#9-plan)

## 1. The system's parts

| Part | Source | State | Operations | Interacts with |
|---|---|---|---|---|
| Pipeline | `riscvpipeline.v`, `PC.v`, `reg1.v`..`reg4.v`, `reg1a.v` | PC, the registers between stages, prediction and squash bits | clock edge: fetch, decode, execute, memory, write back; stall, squash, redirect | everything |
| Hazard units | `Hazard.v`, `HazardNoForward.v` | none | load-use stall; stall on any producer | ID, PC |
| Forwarding, register file | `Forward.v`, `Register.v` | 31 registers | EX/MEM and MEM/WB to EX; write-first read | EX, WB |
| Divider | `Divider.v` | `busy`, `done`, `count`, R, Q, D | start, iterate, finish | EX, `div_stall` |
| Data port | `RamWishboneAdapter.v`, `DataMemoryBRAM.v`, `MemoryLatencyModel.v` | pending read, delay counter, `mem_stall_done_r`, `amo_*_r` | request, acknowledge, two-phase AMO | MEM, bus |
| Data cache | `DCache.v` | lines, tags, dirty bits, refill and flush state | hit, miss, write back, refill, flush | MEM, bus, fences |
| Translation | `Tlb.v`, `Ptw.v`, `Tlb39.v`, `Ptw39.v` | entries, walk state, request snapshot | lookup, walk, fill, `sfence.vma` | IF, EX, bus |
| CSRs and traps | `CSR.v` | mstatus, delegation, enables, saved state, privilege | csrrX, trap, xret, interrupt | EX, devices |
| Serial port | `Uart.v` | shift registers, bit counters, ready flag | write THR, read RBR/LSR, bit clock | bus |
| Timer | `Timer.v` | `mtime`, `mtimecmp` | tick, write, compare | bus, `mip` |
| Firmware | `boot.S`, `trap_entry.S`, `sbi.c`, `payload.c` | save area, stack, CSRs | boot, trap, dispatch, return | timer, serial port, supervisor |
| Golden model | `iss.py` | architectural state | one instruction, the run loop | reference of the test benches |
| Assembler, disassembler | `asm.py`, `disasm.py` | labels, words, memory image | assemble, write the image, disassemble | all programs |
| Random generator | `random_gen.py` | the program being written | budget, instructions, prefix, handler | assembler, golden model, core |
| Debugger | `debugger.py` | simulator, breakpoints, history | step, continue, break, delete, restart | golden model |
| Fetch, instruction cache | `ICache.v`, `InstructionMemory.v` | lines, fill state | hit, miss, fill | IF |
| Branch predictor | `Bht.v`, `Btb.v` | counters, targets | predict, update | IF, EX |
| Decode, ALU | `Control.v`, `ImmGen.v`, `ALUCtrl.v`, `CompressedExpander.v`, `ALU.v` | none | combinational | ID, EX |
| Floating point | `FALU.v`, `FDivider.v`, `FSqrt.v`, ... | iteration state, F registers | issue, iterate, round | EX |
| Test driver, profiler, benchmarks, image builders | the rest of `sim/tools/` | none that outlives a run | offline | external programs |
| Benches, FPGA top | `sim/tb/`, `sim/formal/`, `fpga/` | none of their own | | |

What makes the hardware hard: six sources of stalls that hold overlapping sets of
stages, with priorities that differ from register to register; operands that
are right only while their producers are within the forwarding window; a bus
and a walker shared without an arbiter; acknowledgements that outlive their
request; trap state at two levels on one register; and devices with their own
clocking. What makes the tools hard: an encoding taken apart in four places, and
promises about every program a random generator can write. `PROJECT.json` lists
these hazards at their source lines.

What has to be right: every program executes as the instruction-set simulator
says, instruction by instruction; saved state survives; loads return what was
stored; translation follows the tables; bytes and ticks are neither lost nor
repeated; floating-point results are the correctly rounded ones; what the
assembler writes is what everyone else reads; a generated program ends and stays
where it may be; and nothing waits for ever.

## 2. Modules

One step is one clock edge in every module of the hardware except `CSR` (one
occupant of EX that retires or traps). In `Isa` and `IssRun` it is one
instruction, in `Toolflow` one phase of a tool, one instruction of the program
or one command of the debugger. Wires are operators with the
source's names, registers are variables with the source's names, and the
`...Edge` operators are the `always @(posedge clk)` blocks. A *build* is a record
with the elaboration parameters, the freedom of the environment, and the
instructions of the programs; `Builds` is the constant a configuration chooses.
Programs are not fixed: a fetch returns any instruction of the build's kinds, so
a property covers every program made of them.

| Module | Models | Notes |
|---|---|---|
| `Divider` | `Divider.v` and the EX interlock around it | operands may go stale once their producers move on (`Presented`) |
| `Instructions`, `Isa` | the instruction kinds, as `iss.py` executes them | `Isa` is the abstract specification: one instruction, or an interrupt, per step |
| `Pipeline` | the integer pipeline, both hazard units, both fetch profiles, the two-phase AMO | refines `Isa` through `ArchBar`: the state if all that has left EX were written back |
| `CSR` | `CSR.v` with the trap and interrupt wires of `riscvpipeline.v` | `frames` is history: what each level's last trap saved |
| `IssPrivilege` | the same operations in `iss.py` | the reference `MatchesIss` compares with |
| `FpFormat`, `Fpu` | `FALU.v`, `FMADDUnit.v`, `fp_round.vh`; `FDivider.v`, `FSqrt.v` and `fp_stall` | bit vectors are naturals, in a format of 4 exponent and 3 fraction bits; two iterative units in EX, held by MEM at will |
| `FpIss` | the `f_*` operations and rounding of `iss.py` | exact fractions; `MCFpu` also defines correct rounding itself |
| `Encoding` | tables and encoders of `asm.py`, `disasm.py`, the decoder of `iss.py`, image writers and readers | a word is a record of the six fixed fields, so no width is lost |
| `Alu`, `IssAlu` | `Control.v`, `ALUCtrl.v`, `ImmGen.v`, `ALU.v`; the integer arithmetic of `iss.py` | the register width is a parameter |
| `IssTranslate` | `translate` of `iss.py`, Sv32 and Sv39 | shared by `Mmu` (as the reference) and `IssRun` |
| `IssRun` | `ISS.step`, traps, CSRs, memory, `ISS.run` | keeps the values that decide where a program goes (`XKnown`, page tables, trap CSRs) and forgets the rest; every branch goes both ways |
| `Generator` | `random_gen.py` | a random choice is any of the ends of its range |
| `Debugger`, `Toolflow` | `debugger.py`; the way from a text to its execution | `Toolflow` composes the modules above, from `Encoding` on |
| `RamAdapter`, `DCache`, `DataPort` | memory and its adapter; the cache; MEM, fences and the composition | `flat` is history: memory if stores took effect in program order |
| `Mmu`, `Translation` | TLB and walker; the pipeline around them | the cache is reduced to its use of the bus; `DCache` has the rest |
| `Uart`, `Timer`, `Firmware` | the devices; firmware and a supervisor using them | M-mode code is cut at its bus accesses and at instructions that touch `mscratch`, `mip`, `mepc` |
| `MC*` | the builds TLC runs | |
| `IssDiv` | the division of `iss.py` | the reference of `Divider`; no recursion, so that theorems may use it |
| `PipelineProofs`, `DividerProofs`, `CSRProofs`, `DataPortProofs`, `TranslationProofs`, `FirmwareProofs` | theorems | section 6 |
| `ArithmeticLemmas`, `PowerLemmas` | lemmas on quotients, remainders and powers of two | used by `DividerProofs` and `FirmwareProofs` |

In `Pipeline`, `interrupt_taken` depends on `pc_stall`, which depends on
`branch_taken`, which contains `interrupt_taken` (`riscvpipeline.v:1798`).
`Settled` admits every self-consistent value. Where the hardware loop has no
stable value, the model has no step.

The memory image at reset, the contents of shift registers nobody resets, branch
predictions, the length of misses and the arrival of interrupts are
nondeterministic choices.

## 3. What is checked

| Run | Question | Properties |
|---|---|---|
| `divider` | Does a divide return the ISA's result whatever MEM does meanwhile? | `DoneCorrect` (against `RefResult`), `StallReleased` |
| `programs` | Does every program execute as the ISA says, with both hazard units, AMOs and divides; do branches, jumps, traps, predictions and interrupts lose or repeat nothing? | `LoadUseSafe`, `OperandsFresh`, `RefinesIsa` |
| `stall` | The same while translation and fetch misses of any length hold loads, stores and divides, with `minstret` counted | `RefinesIsa`, `Progress` |
| `csr` | Do `CSR.v`'s parallel update chains do what the simulator does one step at a time? | `FramesIntact`, `HandlerNotReentered`, `MatchesIss`, `MachineStateProtected` |
| `cache` | Do loads return what program order stored, with and without the cache? | `LoadsRight`, `OneWay`, `Coherent`, `FenceFlushes`, `Progress` |
| `mmu` | Does every access go where `iss.py` sends it, with both sides missing at once? | `BusExclusive`, `WalkAwaited`, `TlbFaithful`, `FetchRight`, `AccessRight`, `Progress` |
| `soc` | Do firmware, timer and serial port lose nothing between them? | `ContextRestored`, `TickTimely`, `ForwardedOnce`, `TickDelivered`, `BytesIntact`, `BytesOnce`, `ConsoleReturns` |
| `float` | Do datapath and golden model round alike, and correctly, also when MEM holds a finished division? | `IssRoundsCorrectly`, `CombinationalMatchesIss`, `IterativeMatchesIss`, `StallReleased` |
| `tools` | Is an instruction the same thing to all that read it; is every generated program safe to compare; does the debugger stop where it should? | `ReadersAgree`, `AluMatchesIss`, `Contained`, `Resumes`, `Halts`, `StopsWhereAsked` |
| `trap_lost`, `stale_walk`, `byte_order` | Three disagreements (section 7) | one each, violated |

All properties of the first nine hold on the builds of their `MC` module. **The
builds leave out the situations of section 7**: each is excluded by a named
field (`AmoNotAfter`, `BootNop`, `Rewiden`, `Overlap`, `Orphans`, `agree`), by a
build's choice of instruction kinds and addresses, or by an explicit disjunct of
the property. A reader who repairs one of them in the source should remove its
exclusion here. The `TypeOK` of `Pipeline`, `Divider`, `CSR`, `DataPort`,
`Translation` and `Firmware` is proved.

`RefinesIsa` is the strongest: each clock leaves `ArchBar` alone, executes
exactly the instruction in EX, or takes an interrupt between two instructions. A
stale operand, a squash too few or too many, a second write of a held CSR access
or a wrong return address all violate it.

The comparisons of `float` and `tools` are between texts that share nothing:
`Fpu` shifts bits with a sticky tail where `FpIss` rounds exact fractions, and
`CorrectlyRounded` only compares the result with its neighbours.
`AluMatchesIss` takes the assembled instructions at both values of xlen through
`Control.v`, `ALUCtrl.v`, `ImmGen.v` and `ALU.v` and through `iss.py`, and
compares results, branch decisions and offsets for every pair of operands. The
core refuses exactly the word forms on a 32-bit build, where the simulator does
not trap (section 7). `ReadersAgree` is about assembler, disassembler and
simulator: of the core it has only the byte order in which the image is read.
`ReadersAgree` takes every mnemonic with operands at the ends of their ranges and
one past them, and every opcode with the `funct` fields decoders look at.
`Contained`, `Resumes` and `Halts` hold for every program of a session, that is
for every choice the generator may make, and for an interrupt at every moment of
`MOMENTS`.

## 4. Bounds

| Constant | Values | Why they are enough |
|---|---|---|
| `XLEN`, `WLEN` | 3, 2 | every operand pair, every sign combination, zero, the most negative number, and a word form narrower than the iteration |
| `NVAL`, `NREG` | 2, 2 | the interlocks compare register numbers; register 0, one other, and two distinguishable values show a stale or misdirected operand |
| `NPC` | 2 to 4 | fetch returns any instruction at any pc, so the pc only has to tell the next instruction, a target and the handler apart |
| `INSTRETMOD` | 1, 2 | with 2 a missing or doubled count shows (`stall`); `programs` uses 1, since AMOs and the reset address are counted twice (section 7) |
| `WORDS`, `WAYS`, `NUM_SETS`, `LINE_WORDS` | 12, 2, 2, 2 | three lines compete for two ways, so dirty evictions happen; a second set for the flush scan |
| `STORES` | 2 | stores with a visible value; loads of other lines do the evictions |
| `FRAMES`, tables | 8; two entries per level | two pages per TLB entry, superpages at each level, misaligned ones, faults of each kind, a remapping |
| CSR builds | three sets of instructions | enable stacks; interrupts of both levels; every kind of fault and the plain registers. MPP is written as a pair, so the reserved level 2 is never restored |
| `BITS`, `Clks` | 2; 2 to 4 | every byte of two bits, even and odd bit periods, frames without a gap. A period of 1 is left out: `Uart.v:250` then never leaves the start bit |
| `TMAX` | 3 | targets in the past, near, and never, replaced before and after they fire |
| `EB`, `MB`, `IB`, `FRAME` | 4, 3, 7, 24 | the rounding logic looks at the last fraction bit, guard, round and sticky; three fraction bits have carries, ties and cancellation, four exponent bits overflow, underflow and alignments past the significand; 7-bit integers saturate. `FRAME` exceeds three significands and three bits, as the code's 112 does (`FrameAssumption`) |
| `First`, `Follow` | `AllFirst`, `SomeFollow` | every fraction at the exponents where something changes (`Wide`), in all five rounding modes; then one operation per way an iterative unit can end, so that leftovers show |
| `WIDTH`, `WIDE` | 4; word forms 2 | every pair of operands; shifts by all amounts, sign extension of the word forms, products that overflow |
| `Samples`, `RawText` | ends of ranges | an encoder or decoder goes wrong at a field's sign, end or cut |
| `Sessions` | 1 to 3 instructions, 13 that do not fit | every kind after the prefix and before the end; forward jumps over, to the end and from the last instruction; each mode |
| `MOMENTS`, `MAX_STEPS` | 1, 9 to 17; 40 | in the prefix, at each of its last instructions, in the seeds, the body and the halt loop; a moment stands for `schedule_interrupt` or for the core's own source |
| `FLOAT_SEED_BITS` | one of the six patterns | the seeds only differ in the value loaded |
| `COMMANDS`, `MAX_CONTINUE`, `ADDRS` | 4, 12, four addresses | break, continue, continue again, restart; a continue that reaches its limit |

## 5. Fairness

| Module | Assumption | Justification |
|---|---|---|
| `Divider`, `Fpu` | edges without `mem_stall` keep coming | the clock runs, and a memory access completes (`DataPort`'s `Progress`) |
| `Pipeline` | `WF(Clock(FALSE, FALSE, TRUE))`: walks, fills and divisions end | `Progress` of `Translation`, `StallReleased` of `Divider`; the instruction cache's part is assumed |
| `DataPort`, `Translation` | `WF(Next)` | the clock runs |
| `Toolflow` | the loop of `ISS.run` goes on (`Fairness`, weak fairness of `RunStep` spelled out) | a Python loop |
| `Firmware` | the processor does not stall for ever, and `mtime` counts | the same `Progress`; `Timer.v:108` |

No fairness is assumed on interrupts, predictions, what software does or what a
user of the debugger types.

## 6. What is proved

TLAPS proves these for every value of the constants, that is for every set of
builds, every number of registers, values, pages, lines and bits, and not only
for those of the runs. A theorem about the situations of section 7 would be
false, so some carry a hypothesis that leaves them out; it is named below. Each
inductive invariant was checked with TLC before it was proved, as an invariant of
a module that extends the `MC` module and the proofs.

`PipelineProofs` (assumptions: `IsaAssumption`, positive sizes with at least two
values, and `BuildsAssumption`):

- `TypeCorrect`: `Spec => []TypeOK`.
- `LoadUse`: `Spec => []LoadUseSafe`. It is inductive relative to `TypeOK`; the
  step splits on whether reg2 holds, takes a bubble or takes the instruction in
  ID (`Reg2Moves`), and on what reg3 takes (`Reg3Moves`).
- `Operands`: `Spec => []OperandsFresh`. This is not inductive: a translation
  that ends while MEM still holds the pipeline makes live operands visible again.
  The strengthening `OperandsTracked` says that, while an instruction's producers
  have not moved, a register that neither MEM nor WB writes still has the value
  read in ID, and that the stalling hazard unit leaves no producer in either.
- `Refines`: `Spec /\ Supported(build) => RefinesIsa`. `Supported` keeps every
  instruction kind but `sc` and the faulting load, both hazard units, both fetch
  profiles, predictions, interrupts and misses, and excludes the combinations
  that section 7 lists. The invariant is `Whole`: besides the three above, what
  kinds of instruction each stage may hold (`Kinds`), that each stage holds the
  successor of the one in front of it or a bubble (`Sequence`), that AMOs keep
  their distance (`Apart`), how far the access in MEM is (`Access`), and that an
  instruction EX has taken keeps its effect (`Taken`). From it every cycle leaves
  `ArchBar` alone or is a step of `Isa`: the instruction in EX, an interrupt, or
  the one and then the other. TLC finds `Whole` invariant on four sets of builds
  with 15 million states together.

`DividerProofs`, with `ArithmeticLemmas` and `PowerLemmas` (assumption:
`WidthAssumption`, words of at least two bits, narrower than registers):

- `TypeCorrect`, and `DividesRight`: `Spec => []DoneCorrect`. The invariant of
  the iteration says what R, Q and D are after `count` steps (`Divided`), which
  is one step of long division at a time, so that no induction over data is
  needed; the lemmas supply quotients, remainders and powers of two, the latter
  as numbers of subsets, because the provers know `2 ^ n` only for numerals. TLC
  finds `IInv` invariant at widths 4 and 2 (8,446,808 states).

`CSRProofs` (assumption: `BuildsAssumption`, any software and lines):

- `Invariant`: `IInv == TypeOK /\ FramesIntact /\ EnablesClear`.
  `EnablesClear`, a live frame's enable bit is clear, is what makes re-entry
  impossible, and has to be carried along because software may rewrite `mstatus`.
- `TypeCorrect`, `Intact`, `NotReentered`: its consequences.
- `Protected`: `Spec => MachineStateProtected`, an action property that follows
  from `TypeOK` and how each write is masked.
- `AgreesWithIss`: `Spec => [](Comparable => MatchesIss)`, by the kind of the
  instruction in EX. `Comparable` leaves out the write that meets an interrupt
  (`agree`) and the CSR or floating-point write whose fetch faulted.

`DataPortProofs` (assumptions: `WordsAssumption`, `StoresAssumption`,
`CacheAssumption`, a positive geometry, and `BuildsAssumption`):

- `TypeCorrect`, and `SingleHit`: `Spec => []OneWay`, for every number of ways,
  sets and words of a line, every latency and every program, the builds with
  wrong refills included. `OneWay` is not inductive: a refill writes its tag only
  with its last word. The strengthening `IInv` adds that while a line is written
  back or refilled the missing address is in no way of its set (`MissOpen`) and
  that a flush, which shares the writeback, is told apart (`FlushApart`).
- `CoherenceInvariant`: `CInv`, which adds where each word of `flat` is: in
  memory, in a dirty or clean line, in the part of a refill or write-back already
  done (`InMemory`, `InLine`, `Refilled`, `WrittenBack`), and whose answer is on
  its way (`Served`, `Answered`). TLC checked it on 499,142 states.
- `LoadsAreRight`, `StaysCoherent`, `FencesFlush`: `LoadsRight`, `Coherent` and
  `FenceFlushes` in the `Supported` builds, those without the defects of
  `DCache.v` and of the latency model in section 7.

`TranslationProofs` (assumptions: `BuildsAssumption`, `FramesAssumption`, memory
is a whole number of the largest superpages, and `TablesAssumption`, any tables):

- `TypeCorrect`: `Spec => []TypeOK`, without further hypotheses.
- `Invariant`: `Spec /\ []~Misfiled => []IInv`. `Misfiled` is the moment of
  `stale_walk`: an abandoned walk ends, and its fault meets another fetch or its
  translation is filed under another page. Up to that moment, in builds without
  `Overlap`, `IInv` keeps the walker on the tables' path (`OnPath`), its requester
  in place or the walk marked abandoned (`Requester`), the access's operand
  (`OperandKept`), fences in order (`FenceOrder`) and the bus with one owner
  (`BusOwned`). Abandoned walks themselves are covered: a handler may run, fetch
  and access memory while one is in flight.
- `OneBusOwner` (without a cache only while no walk is abandoned),
  `WalksAwaited`, `TlbTellsTruth`, `FetchesRight`, `AccessesRight`: the
  properties of `mmu` follow. TLC finds `IInv` and `~Misfiled` invariant on the
  builds of `mmu` (97,412 states), and `IInv` on the same builds with `Orphans`
  up to the first `Misfiled` (175,735 states).

`FirmwareProofs` (assumptions: `TmaxAssumption`, `BitsAssumption`, and
`BuildsAssumption`, targets within the time modelled or `NEVER`, and a bit period
of at least two clocks):

- `Invariant`: `IInv`, whose conjunct `Saved` says for each place of
  `trap_entry.S` and `sbi.c` where the supervisor's registers are, and `Tracked`
  where the timer asked for is: in `mtimecmp`, or past and in `mip.STIP`, except
  between the two writes of a `set_timer` or of a forwarding.
- `Restores`, `Timely`, `Once`: `ContextRestored`, `TickTimely` and
  `ForwardedOnce` follow, for every order of calls and interrupts.
- `ConsoleInvariant`: `BInv`, from the start bit to the stop bit the transmitter
  is half a bit and two clocks ahead of the receiver, and the bits received are
  the low bits of the byte in THR. `TypeCorrect`, `ReceivesRight` and `ReadsOnce`
  follow, for every number of data bits. TLC checked it on 46,391 states, and on
  870,037 with three data bits and periods up to 7.

Only model-checked:

- Liveness: `StallReleased`, `Progress`, `TickDelivered`, `ConsoleReturns`,
  `Halts`. No prover for fairness is available.
- `float`: the units are defined with bitwise operations and loops over the
  significand, and what a loop computes for every width needs induction over
  data.
- `tools`: encodings are tables, and the assembler and the simulator recursive
  operators over programs; the provers at hand take neither.

## 7. Where the code and its documents disagree

Three have a run whose property TLC finds violated; `PROJECT.json` quotes the
lines they contradict.

| Run | Source | What happens |
|---|---|---|
| `trap_lost` | `Hazard.v:41` | A load that page-faults redirects while it is also a load-use source. The stall wins in `PC.v`, reg1 and reg2 are squashed, and the trap's redirect is gone. |
| `stale_walk` | `riscvpipeline.v:2789` | Page 1 may not be executed. Its fetch faults and, before the trap, the fetch of the page behind it starts a walk. The trap marks the walk abandoned, which suppresses its fault but not its fill; the handler returns, and the translation is filed under the page then in the pc. |
| `byte_order` | `debugger.py:42` | `load_words` puts the first byte of a line group at the top of the word; `write_mem` (`asm.py:520`) writes the least significant byte first, and `InstructionMemory.v` reads it so. The docstring `asm.py:8-10` still says most significant first. `bench_runner.py` and `run_random_tests.py` have the same loop. |

TLC also finds the following when the exclusion named is lifted. They have no
run of their own, and the passing runs leave them out.

| Source | What happens | Exclusion |
|---|---|---|
| `CSR.v:733` | A `csrrX` that retires in the cycle an interrupt is taken loses its write to `mstatus` (or to the trap's registers), against `csr_formal.sv:68`. | `agree`; `MatchesIss` fails with `Builds <- CollisionBuilds` in `CSR.cfg` |
| `DCache.v:403` | At `MEM_LATENCY_D = 0` the adapter acknowledges a held read twice, so a refill stores the words one place too far. | latency 0 with a cache; `LoadsRight` fails with `Builds <- CacheFillBuilds` in `DataPort.cfg` |
| `riscvpipeline.v:2904` | Without a cache a walk can start behind a load or store in EX and take the bus from it one cycle later, against the comment at 2888. | `Overlap`; `BusExclusive` fails with `Builds <- OverlapBuilds` in `Translation.cfg` |
| `riscvpipeline.v:2582` | `dtlb_miss` is gated by `!branch_taken`, so an interrupt taken while a load waits for its translation lets the load go on without one. | no build has `DataStalls` and `Interrupts`; `RefinesIsa` fails with `mret` and `load` in such a build |
| `riscvpipeline.v:2789` | The abandoned walk of `stale_walk` has two more consequences. Its fault makes `itlb_miss` false for the page the handler returns to, which is then fetched untranslated (`FetchRight`); and without a cache the handler's own store meets it on the bus and takes its acknowledgement (`BusExclusive`). | `Orphans` |
| `iss.py:1074`, `iss.py:1173` | The word forms (`addw`, `addiw`, ...) on a 32-bit build: the core traps (`riscvpipeline.v:1649`), the simulator executes them, against `iss.py:1464-1466`, where "any opcode this core doesn't implement traps as an illegal instruction rather than being a simulator-level error". | stated by `Lacking` in `AluMatchesIss` |
| `FALU.v:18` | A result flushed to zero that is exact raises underflow without inexact, against the comment there and `docs/adr/0019:52`. | `Agree`; `TinyRaisesInexact` fails as an invariant of `Fpu.cfg` |
| `disasm.py` | `sret`, `sfence.vma` and `fence`, which the assembler accepts, print as unknown. | `Unlisted` in `ReadersAgree` |
| `riscvpipeline.v:1537` | The second of two adjacent AMOs finds `amo_write_done_r` set: it neither reads nor writes memory and returns the first one's value. | `AmoNotAfter` |
| `RamWishboneAdapter.v:75` | An AMO directly behind a load takes the load's lingering acknowledgement for its own read. | `AmoNotAfter` |
| `riscvpipeline.v:3222` | `sc` writes the old memory value to rd; `docs/adr/0038` says 0. | no build has `sc` |
| `riscvpipeline.v:1958` | An AMO is counted by `minstret` more than once, because the pulse is gated by `mem_stall` and not by `amo_stall`. | `INSTRETMOD = 1` in `programs` |
| `reg2.v:60` | The bubble of a load-use stall keeps the stalled branch's prediction and redirects past the branch (`docs/adr/0021:133-136`). | the predictor build has no loads |
| `riscvpipeline.v:1849` | With split fetch, an interrupt that meets a bubble in reg1 skips the instruction in reg1a. | the split-fetch build has no interrupts |
| `reg1a.v:75` | With split fetch, the instruction at the reset address enters reg1 twice. | `BootNop` |
| `riscvpipeline.v:1805` | A supervisor interrupt taken while a machine interrupt is pending but masked is reported with the machine interrupt's cause. | `MaskedCause` |
| `riscvpipeline.v:1887` | An instruction whose fetch faulted still writes a CSR or floating-point flags if its bits decode so. | no build has both |
| `CSR.v:584` | A machine interrupt delegated to S is taken again at once in the S handler: `mstatus.MIE` still enables it. | disjunct in `HandlerNotReentered` |
| `DCache.v:461` | A read miss returns the last word of the line, whichever was asked for. | loads that can miss are to the last word |
| `DCache.v:458` | A load of the address just served, with another width, gets the old width's extension. | `Rewiden` |
| `riscvpipeline.v:3073` | At `MEM_LATENCY_D >= 1` without a cache, a delay started for an answered read acknowledges the access behind it. | uncached builds have latency 0 |
| `riscvpipeline.v:2944` | In the cached build a walk can start in the first cycle of a fence and meet the flush on the bus. | `Overlap` |
| `boot.S:63`, `Timer.v:82` | `mtimecmp` resets to 0 and MTIE is enabled without setting it, so STIP is pending before the supervisor has called `set_timer`. `tb_sbi_firmware_s7.v:105` takes that tick for the round trip it means to observe. | `BOOT` in `TickTimely` |

Two more come out of `tools` without violating a property of it. `gen_program`'s
budget leaves out the final `fence`, so a session that exactly fills the code
space is generated and then refused by `write_mem` (the session of 12
floating-point instructions in `MCTools`). And `ISS.run` breaks out of its loop
at the halt instruction before an interrupt scheduled for a later step, so the
handler never runs, where the comment at `iss.py:1485-1488` wants it to fire
still; `Resumes` therefore speaks of the programs that took it.

By reading only: the simulator has no AMO opcode and skips a word of zeros, which
the core refuses (`iss.py:983`); the legacy console's value comes back in a1 while
`payload.c:47` reads a0 (`sbi.c:274`); AMOs are never acknowledged in the cached build; UART and
timer registers are cached like memory there; `interrupt_taken` is part of a
combinational loop (`riscvpipeline.v:1798`) although the comment at 1770 sets out
to avoid one.

## 8. What is not modelled

- Floating point is checked at a small format. Out of the model: `FForward.v`,
  `FRegister.v` and the accumulation of `fflags` in `CSR.v`.
  At the real width the operand space is out of TLC's reach.
- `Encoding` has no atomics and no compressed instructions
  (`CompressedExpander.v`). `IssRun` does not follow floating-point values,
  and the Sv39 prefix of the generator is left out: its constants have 64 bits,
  beyond TLC's integers.
- `ICache.v`, the tables of `Bht.v` and `Btb.v`: `Pipeline` meets them as a
  fetch miss of any length and as any prediction.
- `Pipeline` has no translation, cache or floating point of its own; it meets
  them as stalls of any length. `Translation` has the forwarding
  hazard unit and no interrupts, `sret`, memory latency or `satp` writes, and
  its page-table entries are not cached.
- `CSR` leaves out the counters other than `minstret` (in `Pipeline`).
- `Firmware` is the uncached RV64 build with the serial port's divisor latch and
  interrupt enables at their reset values. The firmware uses neither `msip` nor
  supervisor software interrupts.
- The instruction kinds `sc` and `csrmie` are in no build of `Pipeline`.
  `TypeCorrect`, `LoadUse` and `Operands` cover both, `Refines` covers `csrmie`
  without interrupts.
- `run_random_tests.py`, `bench_runner.py`, the profiler and the report, trace
  and viewer scripts run a simulation and format what it prints; `gen_dtb.py`,
  `elf2mem.py` and the build scripts convert files. They keep no state that
  outlives a run. The benches and the FPGA top have no behaviour of their own.

## 9. Plan

1. Fetch: `InstructionMemory.v`, `ICache.v` and the compressed fetch, with
   `CompressedExpander.v` against the simulator's expansion.
2. Floating-point issue: `FForward.v`, the F side of the interlocks and the
   accumulation of flags, in `Pipeline`.
3. The rest of `Uart.v` and `Timer.v`: divisor latch, interrupt registers,
   two-half accesses at XLEN = 32; `Bht.v` and `Btb.v`.
4. Atomics in `Encoding`, and `LR`/`SC` of the simulator.
5. Proofs: `Refines` for the builds section 7 excludes, once the code is
   repaired; the walker with a cache in front of the page tables.
