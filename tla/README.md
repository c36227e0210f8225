# A TLA+ model of the MC6809 test vector generator

The repository generates single instruction test vectors for the Motorola MC6809. A
program, `testgen/`, executes one instruction at a time on a re-hosted MAME core,
checks the result against a datasheet table and records registers, memory and every
bus cycle. Emulators are verified against these vectors, so that an error here becomes
an error that other projects are told to reproduce.

The modules in this directory model the whole path of a vector: the script that compiles
the listings of the core, the core, its interrupts, the opcode table, the random numbers,
the generation of a test, the bytes of a file and the runs of the program over a directory.
TLC checks them on small instances. TLAPS proves the invariants that they rest on for
every memory, every register state, every listing, every table and every number of runs.

## 1. Inventory

| Component | Source (under `src/`) | State | Operations | Status |
|---|---|---|---|---|
| ALU and condition codes | `testgen/mame/m6809inl.h`, `base6x09.lst` | `m_cc`, operand | `set_flags`, rotations, `daa`, `mul`, branch conditions | modelled: `M6809Alu`, `AluPrograms` |
| Instruction core | `testgen/mame/m6809.lst`, `base6x09.lst`, `m6809_core.cpp`, `m6809_shim.h` | registers, `m_cc`, operand latches, `m_icount` | three dispatch pages, about 90 labels | modelled: `M6809Dispatch`, `M6809Core`, `M6809Instructions` |
| State stack and labels | `testgen/mame/m6809make.py`, `m6809_shim.h`, `m6809_core.cpp` | `m_state`, `m_icount` | `push_state`, `pop_state`, `%` calls, `@` suspension, the numbering | modelled: `M6809Listing`, `StateStack`, `CallStack` |
| Interrupts | `base6x09.lst` 3-56, 439-453, 572-603, `m6809inl.h` | `m_nmi_asserted`, `m_firq_line`, `m_irq_line`, the stack in memory | `SYNC`, `CWAI`, `NMI`, `FIRQ`, `IRQ`, `RTI`, the software interrupts | modelled: `M6809Interrupts`, `InterruptedProgram`, `ContextStack` |
| Opcode table and timing | `testgen/opcode_table.h`, `expected_cycles` | none | table, operand length, penalties | modelled: `OpcodeTable` |
| Test generation | `testgen/main.cpp` 154-312 | device, memory, access log | `generate_test` | modelled: `TestGenerator` |
| Sanity cases | `testgen/main.cpp` 448-501 | device, memory | `run_sanity_case`, `run_sanity_checks` | modelled: `DecodeSweep` |
| Random numbers and seeds | `testgen/main.cpp` 45-59, 314-318 | `splitmix64::state` | `next`, `test_seed`, the draws | modelled: `TestSeeds` |
| Driver, manifest, metadata | `testgen/main.cpp` 320-446 | the output directory | `main`, `write_metadata`, `fail_test` | modelled: `CommandLine`, `GeneratorRun` |
| MOO writer | `testgen/moo_writer.cpp`, `moo_writer.h` | a buffer | chunks, `write_moo_file` | modelled: `MooFile` |
| `m6809.h` | `testgen/mame/m6809.h` | | | not compiled: the shim defines its include guard |
| Vectors | `v1/` | | | data |

**How they interact.** `main` walks the opcode table and calls `generate_test` for each
entry and index, with a seed of its own. `generate_test` fills memory and registers from
the seed, places the instruction and calls `execute_one()` until `m_state` is 0.
`execute_one()` pops a number from `m_state`, which stands for a place in the listings,
and runs from there to a `return;` or to an `@` line that finds the budget used up. The
core calls back into `logging_memory` for every access after eating one cycle of
`m_icount`. What comes out (`m_icount`, `m_free_run`, the access log, memory and
registers) is checked, turned into chunks, and written with gzip; after each file `main`
prints a line of `manifest.txt`, after the last one `metadata.json`. A test that fails,
or a file that cannot be written, exits from wherever the program is.

**What is hard.** Nothing here runs in parallel. The difficulty lies in these places:

* *Control that crosses calls.* An instruction with an addressing mode runs in two calls
  of `execute_one()`. In between it exists only as a 9 bit frame in a 32 bit word and as
  operand latches (`m_reg8`/`m_reg16`, `m_addressing_mode`, `m_ea`, `m_temp`, `m_cond`)
  that a later label trusts. Which number stands for which place, and whether a `%` is a
  call or a jump, is decided by a textual look at the next line.
* *Interrupts.* Lines move between two calls, while the core waits in `SYNC` or `CWAI`, or
  in front of any instruction. RTI knows only one bit, E, of what was pushed.
* *Two independent descriptions of the instruction set.* The core's dispatch and bus
  accesses, and the opcode table's modes, lengths and cycles, are written apart. The
  generator compares cycle counts on random samples, and nothing else.
* *Aliasing and wrap-around.* With random registers the stack, the operand, the vectors
  and the code overlap now and then, and every address may wrap at `0xFFFF`.
* *Flags.* The carry and overflow formulas are bit tricks on an untruncated result. A
  test vector records what they give; only a later instruction shows whether it is right.
* *Files that outlive runs.* Runs of different builds, counts and filters, some of which
  fail or are killed, write into one directory; stdio buffers the manifest, and the
  results of `gzclose` and `fclose` are ignored.

`PROJECT.json` lists every hazard with its line, and the properties that cover it.

## 2. Modules

| Module | Models |
|---|---|
| `M6809Data` | bytes, words, sign extension, bits; CC as a set of flags, with its byte layout |
| `M6809Alu` | values and flags of every operation; branch conditions |
| `OpcodeTable` | `opcode_table.h` and `expected_cycles` |
| `M6809Dispatch` | the labels of the core and the three dispatch pages |
| `M6809Core` | the core's state, the bus, operand access, `execute_one()`; the core's invariants |
| `M6809Instructions` | one action per label |
| `M6809Interrupts` | `SYNC`, `CWAI`, `NMI`, `FIRQ`, `IRQ`; the refinement of `CallStack` |
| `TestGenerator` | `generate_test` around the core; its properties |
| `DecodeSweep` | `run_sanity_case` on every page and opcode; the sanity cases |
| `AluPrograms` | sequences of ALU instructions on an accumulator and CC |
| `InterruptedProgram` | the core on a program, with a caller and an environment that moves the lines |
| `ContextStack` | abstract: an interrupt saves the context, a return restores the latest |
| `M6809Listing` | which label goes to or calls which, and the 248 numbers of `m6809make.py` |
| `CallStack` | abstract: what the notation of the listings promises to their author |
| `StateStack` | the numbers, `m_state` in 32 bits, and suspension at every `@` line |
| `TestSeeds` | `test_seed`, splitmix64 in 64 bits, the draws of a test |
| `MooFile` | the bytes of a file, and a reader of the layout in the README |
| `CommandLine` | the options of the program |
| `GeneratorRun` | `main` over one directory, run after run |
| `MC*` | the instances that TLC checks |
| `*Proofs` | lemmas and theorems |

`M6809Alu` EXTENDS `M6809Data`; `M6809Core` EXTENDS the ALU and the dispatch;
`M6809Instructions` and `M6809Interrupts` build on it in turn. `TestGenerator` composes
the instructions with `OpcodeTable`, `DecodeSweep` the interrupts as well,
`InterruptedProgram` the interrupts with an environment. `MCStateStack` composes
`StateStack`, which is about any listing, with the listing of the core. The
opcode table refers to nothing of the core, as in the code: the runs compare the two.

There are three abstract specifications. `CallStack` is implemented twice: by the numbers
of `StateStack` for any listing and any budget (`ImplementsNotation`), and by the labels
of the core for any contents of registers and memory (`FollowsListing`). `ContextStack`
is implemented by the interrupted program (`Transparent`). The reader in `MooFile` states
the layout that the writer implements (`RoundTrip`).

### State and code

* `reg`, `cc`, `lds`, `line` are the device's registers and lines. `cc` is the *set* of
  flags that are 1. `CCByte` and `CCSet` convert where the code moves the byte (push,
  pull, EXG, TFR, ORCC, ANDCC), through the bit positions of the header.
* `regop`, `mode`, `ea`, `temp`, `cond` are the operand latches. `regop` names the
  register behind `m_reg8`/`m_reg16`. `regop = "none"` is the null pointer of
  `initialize_device`.
* `mem` holds the bytes that differ from `Background`, the constant that stands for the
  64 KB of random bytes. `bus` is `logging_memory.accesses`. Each entry also has a `role`
  (opcode, argument, data, dead), history that only properties read.
* `icount` is `m_icount`: every access takes one off before it is logged.
* `at` is the label reached inside `execute_one()`, `"idle"` between calls. `stack` is
  `m_state` as a sequence of labels, top first; the empty sequence is 0, which
  `pop_state()` turns into `MAIN`.
* In `TestGenerator`, `test` is what `generate_test` was given and drew, `calls` its
  counter, `verdict` the failing check (`fail_test` exits) or `"ok"`, `vector` the result.
* In `StateStack`, `m_state` is the number itself, `pos` the last `@` line passed in the
  label, `icount` what is left of the budget, with 0 for every `m_icount <= 0`.
* In `InterruptedProgram`, `raised`, `served`, `saved` and `returning` are history: edges
  and levels raised, NMI vectors taken, the frames on the stack in memory with what they
  saved, and whether a pull belongs to an RTI.
* In `GeneratorRun`, `files`, `manifest` and `metadata` are the directory, with the run
  and build that made each of them; a file is cut, whole, or lost in part by a close that
  failed. `pc`, `entry`, `printed`, `generated` are where `main` is.
* In `TestSeeds` a 64 bit number is a sequence of 8 bytes; `state` is `splitmix64::state`.

### One action per label

An action is the whole code of a label up to its `goto`, `%` or `return;`: operand reads,
flags, registers, dead cycles and writes, in the order of the bus. `%X; %Y; return;`
compiles to "push Y, jump to X", which is `Call(X, Y)`; a `%X;` in the middle pushes the
code behind it (`SWI_PUSHED`, `PUSHED`, `CWAI_WAIT`, `NMI_PUSHED` and so on). Labels that
differ only in what they compute share an action (`ReadModifyWrite`, `Accumulate8`,
`Accumulate16`, `SoftwareInterrupt`, `InterruptEntry`), and the computation is in
`M6809Alu`.

The `@` lines of the listings suspend an instruction when the budget is used up. In the
modules of the core the budget is the 10000 cycles that the generator gives and an
instruction takes at most 21, so that they act only where the code gives its budget up
itself (`eat_remaining()` in `SYNC` and `CWAI`); `Suspend` is that. Suspension at all other
lines is the subject of `StateStack`. That an instruction gives the same result when it
is suspended follows from control alone: no value lives in a C++ local across an `@` line.

`m_ppc`, `m_opcode` and the `e`/`f` halves of `m_q` are not kept: nothing reads them
later. `m_temp` is kept where a later label reads it. The debugger hooks and line
callbacks are empty in the shim.

### The environment

In this repository the caller holds the lines clear. The environment of
`InterruptedProgram` is the one that the labels are written for: NMI is an edge that a latch
remembers, so that a further edge can only be told apart once the latch is clear, and
FIRQ and IRQ are levels that rise and fall freely, all between two calls of
`execute_one()`. The environment of `GeneratorRun` makes any file impossible to open, any
write fail, any close lose data, and kills the program at any point; between runs the
generator may be rebuilt.

Definitions marked `Mutant of X` are plausible mistakes in `X`. No behaviour uses them.
Substituted for `X`, each one makes a property fail: that shows what the property sees.

## 3. Runs

| Run | Configuration | States | Question |
|---|---|---|---|
| generate | `MCTestGenerator.cfg` | 65179 | does every test of every opcode pass, and is its vector right? |
| sweep | `MCDecodeSweep.cfg` | 5463 | is the opcode table complete, are the skipped opcodes the right ones? |
| alu | `MCAluPrograms.cfg` | 27808 | do sequences of instructions compute what they are for? |
| finishes | `MCTestFinishes.cfg` | 5939 | does every test come to its verdict? |
| interrupts | `MCInterruptedProgram.cfg` | 298372 | do interrupts leave the program as it was, in every order of the lines? |
| interrupts_served | `MCInterruptsServed.cfg` | 12486 | is an NMI taken, do SYNC and CWAI end? |
| state_stack | `MCStateStack.cfg` | 7091 | do the numbers implement the notation when any line is suspended? |
| generator_run | `MCGeneratorRun.cfg` | 1100194 | what can the directory be relied on for? |
| seeds | `MCTestSeeds.cfg` | 32808 | are tests independent of each other, and reproducible? |
| moo_file | `MCMooFile.cfg` | 4039 | is a file what the tests recorded, is a cut one noticed? |
| dead_cycles | `MCDeadCycles.cfg` | violation | are dead cycles where the README says? |
| filtered_run | `MCFilteredRun.cfg` | violation | does the manifest have every file's count? |

**generate.** A behaviour is one test, and `MCTests` is a set of them:

* every entry of the table on three register states with three condition codes. `Plain`
  is ordinary, `Edge` puts PC, both stacks and the index registers at the ends of the
  address space, `Alias` points stacks and index registers into the instruction;
* every branch with all 16 values of N, Z, V, C;
* every indexed instruction with all 32 long postbytes of one register and a sample of
  the others; LEAX and STD with all 256;
* every register mask of PSH and PUL in `Edge` and `Alias`, every postbyte of EXG and
  TFR, RTI with E set and clear.

These are all the bytes that select control, timing or length. The other data reaches
only values, which the alu run and the proofs cover. `MCBackground` gives neighbouring
bytes, and the two halves of a word, different values. Properties:

* `TypeOK`: bytes and words keep their width.
* `TestsPass`: no `fail_test`: cycles equal the datasheet's for every documented
  instruction and postbyte, opcodes are fetched first, the cycle list is complete.
* `AtMostTwoCalls`, `StackDiscipline`: an instruction is one call, or one addressing label
  with the instruction as the only frame, and a second call.
* `OperandsLatched`: the asserts of `regop8()`/`regop16()` and the fatal errors of the
  operand helpers, and that no latch is a left-over.
* `InstructionBytes`: the table's length is what the core fetches, in front of every other
  access. The generator never compares the two.
* `ReturnAddress`: PC, or the pushed PC, is the address behind the instruction.
* `VectorReplays`: a vector's reads and final RAM follow from its initial RAM and its
  writes, in order, and its RAM list covers every changed byte.
* `IdleCycles`: README, "Cycle encoding": cycles without an access only in opcode 38.

**sweep.** All 3 * 256 pairs of page and opcode on the state of `run_sanity_case`, with
NOP in all other bytes, so that an opcode that a prefixed page does not list and
dispatches again ends as an instruction with three opcode fetches. `TableIsComplete`:
listed if and only if the core executes it as an instruction of its own.
`SkippedForTheirReasons`: SYNC and CWAI are still waiting after 64 calls, FREERUN free
runs, and nothing else does. `SanityCasesPass`: the six cases take the cycles listed for
them, which are also those of the datasheet table.

**alu.** Programs over 20 words at the boundaries of both bytes and signs (all pairs), 16
packed decimal numbers whose digits carry (all pairs) and CMP of every byte with 7
bytes, each with all flags clear and all set. `WideArithmetic`: ADD and ADC, SUB and SBC,
NEG and SBC, word by word, are arithmetic on longer numbers. `WideShifts`: no bit is
lost between bytes. `DecimalAddition`: ADD or ADC and DAA add decimal digits.
`ComparisonsDecide`: the ten comparing branches decide the order of what was compared.

**finishes.** One state and one condition code for every table entry, and every mask of
PULS. `EveryTestFinishes` is liveness.

**interrupts.** A loop of LDA, SYNC, CWAI, ANDCC, SWI, XSWI2 (undocumented) and SWI3, with
a handler for each vector, in which NMI rises twice, FIRQ twice and IRQ once
(`MaxRaises`), and the levels fall, in front of any call of `execute_one()`. Two NMIs and
two FIRQs nest in each other and in the handlers in every order; an IRQ cannot be
nested in itself. Nothing else is bounded, and deadlock is checked.

* `Transparent` (refinement of `ContextStack`): RTI restores the context that was saved last, PC,
  stacks, accumulators and flags, or PC, CC and S for a FIRQ, after any nesting.
* `EDescribesFrame`: E in a saved CC says what was pushed. The exception is real:
  XSWI2, XFIRQ and XRES push everything and leave E alone (`m6809.lst` 725-754). After a
  FIRQ returned, E is clear; an XSWI2 then pushes a frame that its own RTI takes for a
  short one. `ContextStack` names such a frame "unmarked" and promises nothing for it.
* `NestedByPriority`: IRQ handlers are interrupted by FIRQ and NMI, FIRQ and SWI handlers by
  NMI only, also when the interrupt came through CWAI.
* `NmiTakenOnce`: the NMIs raised are those taken, pending or on their way.
* `FollowsListing` (refinement of `CallStack`): labels are left as the listings say, and
  every continuation is entered once and in its turn.

**interrupts_served.** The same program with each line raised once. `NmiIsTaken`: an NMI is taken whatever
the other lines do. `WaitsEnd`: the program comes to a next instruction again and again,
unless the lines that SYNC or CWAI wait for are clear again and again.

**state_stack.** The 248 numbers of the real listings with budgets of up to two `@` lines per
call (`MaxBudget`), so that a label is suspended behind any of its lines, once or line after
line; a larger budget only leaves out suspensions. `TwoFrames`: `m_state` holds at most two of the three frames that 32
bits have room for. `ResumesInPlace`: no `@` line is left out or executed twice.
`ImplementsNotation`: refinement of `CallStack`. `CallerIsServed`: the caller gets control
back again and again, also while memory holds one page prefix behind the other, where
one call would never end without the check of the fetch. `InstructionsEnd`: however small the
budgets, `m_state` becomes 0 again, but for waits and prefixes. The order in which the
script meets the lines gives the numbers; which `@` lines a label with conditions passes
is left open (`Conditional`), which is more than the code does.

**generator_run.** Three opcodes, two builds of which one fails a test that only the larger
count reaches, seven command lines, three runs (`MaxRuns`): one to leave something, one
to change it, one to fail over it. Every error path and a kill at any point.

* `SuccessIsComplete`: exit code 0 of a full run means one build's vectors of the whole
  table, their manifest and the metadata, but for closes that failed unnoticed.
* `ManifestIsTrue`: no line, after any history, is of a file that is cut or has another
  count, unless a later run replaced that file.
* `MetadataIsLast`, `ReplacedInOrder`: files are replaced in the order of the table and the
  metadata last.
* `VectorsPassed`: no file is of a build that fails one of its tests.
* `FilteredRunIsLocal`: a run with `--opcode` changes its own file only.

**seeds.** The seeds of every listed opcode with the indexes whose bits are single or all ones
up to 2^24 - 1 (`MCIndexes`): an exclusive or keeps bits apart one by one, so that two seeds that
coincide for some indexes coincide for these. `SeedsDistinct`: they differ up to the
index 2^24. `StreamsApart`: no test draws, within its 8201 numbers, what another one
starts with. `ReproducesVectors`: the model draws the registers that three files of
`v1/` record.

**moo_file.** Up to two tests (`MaxTests`) of three kinds, with empty and filled lists, and
every status; every file is cut at every byte. `RoundTrip`: a reader of the README's layout finds what the
tests recorded and nothing else. `CutIsNoticed`: a cut file is not taken for a file with
fewer tests.

**dead_cycles** is expected to fail. README, "Cycle encoding", says: "dead cycles read from
`0xFFFF` (VMA cycles) or re-read the instruction stream at PC". PSHS and PSHU read their
dead cycle at the stack pointer (`base6x09.lst` 623 and 640), and every pull ends with
such a read (`m6809.lst` 483), as the real chip does. The vectors are right and the
sentence is too narrow for an author of an emulator.

**filtered_run** is expected to fail. README line 15 says that `manifest.txt` has one
`<stem> <test count>` line per generated file. With `--opcode`, `main` rewrites a file with
the count of that run and opens no manifest (`main.cpp` 400): the line of the last full
run stays.

**Fairness.** `finishes` and `state_stack` assume `WF_vars(Next)`: the program is one thread, and
a step that is enabled is taken as long as the process runs; in `state_stack` this
includes the caller, whose loops call `execute_one()` until `m_state` is 0.
`interrupts_served` assumes `WF_vars(Execute \/ Step)`: the same thread, with the
environment left free to move the lines or not. Nothing else is assumed.

**Deadlock** is checked in `interrupts`, `interrupts_served`, `state_stack`, `generator_run` and
`filtered_run`. The other systems really stop: a behaviour is one test, one program or
one file. (After `MaxRuns` runs the generator can still be rebuilt, which keeps the last
state of that model from being a deadlock.)

**Bounds.** The code's own: 64 calls, 10000 cycles, 1000 tests by default. The
models': `MaxRaises`, `MaxBudget`, `MaxRuns`, `MaxTests` and the sets of tests, programs,
indexes and command lines, as described with each run.

## 4. Proofs

| Theorem | Module | States |
|---|---|---|
| `TypeCorrect` | `TestGeneratorProofs` | `Spec => []TypeOK` |
| `StackNeverOverflows` | `TestGeneratorProofs` | `Spec => []StackDiscipline` |
| `LatchesAreFresh` | `TestGeneratorProofs` | `Spec => []OperandsLatched` |
| `TwoCallsSuffice` | `TestGeneratorProofs` | `Spec => []AtMostTwoCalls` |
| `NoTestFails` | `TestGeneratorProofs` | `Spec => []TestsPass` |
| `LengthIsFetched` | `TestGeneratorProofs` | `Spec => []InstructionBytes` |
| `ReturnsBehindInstruction` | `TestGeneratorProofs` | `Spec => []ReturnAddress` |
| `VectorsReplay` | `TestGeneratorProofs` | `Spec => []VectorReplays` |
| `IdleOnlyInMaskedAndcc` | `TestGeneratorProofs` | `Spec => []IdleCycles` |
| `WordsAreExact` | `AluProgramsProofs` | `Spec => []WideArithmetic` |
| `WordsShift` | `AluProgramsProofs` | `Spec => []WideShifts` |
| `DecimalsAdd` | `AluProgramsProofs` | `Spec => []DecimalAddition` |
| `BranchesCompare` | `AluProgramsProofs` | `Spec => []ComparisonsDecide` |
| `TypeCorrect` | `StateStackProofs` | `Spec => []TypeOK` |
| `NoFrameIsLost` | `StateStackProofs` | `Spec => []TwoFrames` |
| `LinesInOrder` | `StateStackProofs` | `Spec => []ResumesInPlace` |
| `NumbersImplementNotation` | `StateStackProofs` | `Spec => ImplementsNotation` |
| `ProgramTypeCorrect` | `InterruptedProgramProofs` | `Spec => []CoreTypeOK` |
| `InterruptsKeepDiscipline` | `InterruptedProgramProofs` | `Spec => []StackDiscipline` |
| `InterruptsKeepLatches` | `InterruptedProgramProofs` | `Spec => []OperandsLatched` |
| `ProgramFollowsListing` | `InterruptedProgramProofs` | `Spec => FollowsListing` |
| `EveryNmiIsTakenOnce` | `InterruptedProgramProofs` | `Spec => []NmiTakenOnce` |
| `FramesAreMarked` | `InterruptedProgramProofs` | `Spec => []EDescribesFrame` |
| `InterruptsAreTransparent` | `InterruptedProgramProofs` | `Spec /\ [][FramesKept]_vars /\ []ReturnsToFrame => Transparent` |
| `HandlersNestByPriority` | `InterruptedProgramProofs` | `Spec /\ [][FramesKept /\ MasksKept]_vars /\ [](ReturnsToFrame /\ CallsUpward) => []NestedByPriority` |
| `TestsHaveTheirSeeds` | `TestSeedsProofs` | `IndexesFit => (Spec => []SeedsDistinct)` |
| `StreamsStayApart` | `TestSeedsProofs` | `IndexesFit => (Spec => []StreamsApart)` |
| `TypeCorrect` | `GeneratorRunProofs` | `Spec => []TypeOK` |
| `SuccessMeansComplete` | `GeneratorRunProofs` | `Spec => []SuccessIsComplete` |
| `ManifestCanBeTrusted` | `GeneratorRunProofs` | `Spec => []ManifestIsTrue` |
| `VectorsHavePassed` | `GeneratorRunProofs` | `Spec => []VectorsPassed` |
| `FilesReplacedInOrder` | `GeneratorRunProofs` | `Spec => []ReplacedInOrder` |
| `MetadataIsWrittenLast` | `GeneratorRunProofs` | `Spec => []MetadataIsLast` |
| `FilteredRunsAreLocal` | `GeneratorRunProofs` | `Spec => FilteredRunIsLocal` |

The assumptions are those on the constants, named in the modules that declare them:
`BackgroundAssumption` (memory holds bytes), `TestsAssumption` (the tests are of listed
opcodes and their registers have their widths), `ProgramsAssumption` (words, bytes and,
for the decimal programs, digits that are decimal),
`MaxRaisesAssumption`, `ListingAssumption` (below) and `RunAssumption` (no stem is
listed twice). TLC evaluates them for the instances. Four theorems have hypotheses that
the table shows. `IndexesFit` says that the test indexes have 24 bits (the default count is
1000): above these `test_seed` holds the opcode, and a larger index would give the seed of a
test of another opcode. `FramesKept`, `ReturnsToFrame`, `MasksKept` and `CallsUpward` are about the
program that is interrupted, below.

**The core.** `M6809CoreProofs` shows that every action of the core
preserves `CoreInv`, a conjunction of types, stack and latches. Neither is
inductive alone. A type holds behind an operand read only if `mode` and `regop` are the
right ones for the label. They are only if the label was reached from the dispatch or
from the stack, and the frame that waits there carries the same demand: while an
addressing label runs, or between two calls, `CoreInv` states for the frame on the stack
(`Waiting`) what `OperandsLatched` states for the label itself. The dispatch tables
establish it (`DispatchOK`, which splits on the three pages), addressing labels make
`mode` "ea" for it, and `Return` keeps it until the frame is popped (`Pops`).
`TestGeneratorProofs` adds `CallsOK`: `calls` is 0 only before the first call, 1 as long
as a frame may wait, and 2 only with nothing on the stack that could come back. This
gives `TwoCallsSuffice` from the same invariant.

**A test.** What `TestsPass`, `InstructionBytes` and `ReturnAddress` say when a test is over
is not inductive, and no single label knows it: the datasheet counts the cycles of an
instruction, the labels count down one cycle per access. Three layers connect them.

* The bus (`M6809CoreProofs`). Every action is a sum of fetches, other reads and writes, one
  cycle each, in this order (`Moves`). `BodyCycles` and `BodyBytes` are what a label and those behind
  it still take in cycles and bytes, and a step takes from them what it appends to the log
  (`Completes` for the labels that end in themselves, `Advances` for all (`InstructionAdvances`)).
* The table (`TestGeneratorProofs`). For each of the listed pairs of page and opcode, and for every
  postbyte, mask, condition and stacked byte, the label that the dispatch jumps to, its
  addressing mode and the labels behind take the cycles that `ExpectedCycles` gives and
  step over the bytes of `TestLength` (`ListedFits`, by rows and columns of the three pages).
* The test (`TestGeneratorProofs`). `TestInv` says where a test is (in front of the dispatch, on a
  page, at its label, in the idle cycle of opcode 38, or on the path from there) and, on the
  path, that cycles counted and cycles ahead add up to the instruction's (`Onward`), that the
  log begins with the code and has nothing else of it (`Log`), and that PC, or the word
  that was pushed, is the address behind the instruction. The operands that decide on the
  cycles are those of the memory that was set up, because they are fetched before
  anything is written. `Ended` carries this into the verdict.

The cycle list is proved to hold the log with the idle cycles between (`FlattenIs`); what a
recursive function does to a log of any length is shown with the least length at which it
would fail (`Least`, from the minimum of a set of naturals). `VectorsReplay` adds `Replay`: for
every address and every read, the value read is that of the last write before it in the
log, or the initial one, and memory holds the last write. It is preserved because the
accesses of a step that write come behind those that read.

**The interrupted program.** The same `CoreInv` is preserved by the labels that wait for
lines and serve them, by the caller's fresh budget, and by any movement of the lines. For
`ProgramFollowsListing` the actions are sorted by how they end: those that return are not
among `Continuing`, the labels with a jump or a call in the tables of `M6809Listing`;
those that jump or call do so to an entry of the tables, which for the dispatch is the
entry of the opcode that was read (`DispatchActions`). `EveryNmiIsTakenOnce` strengthens
`NmiTakenOnce` with `NmiInv`: at label NMI the latch is set, and a software interrupt
whose frame is being pushed has another vector in `m_ea` (`OtherVector`). Each action then
keeps the sum or moves one of it: from raised to pending, from the latch to the push or,
in CWAI, straight to the vector, from the vector to served (`Balance`). Labels that have nothing to do
with it only have to stay `Calm`.

`FramesAreMarked` needs `FrameInv`: while registers are being pushed for an interrupt, E
says what the mask in `m_temp` holds (`FramePrepared`), and a frame becomes "unmarked" only
behind one of the undocumented labels, or is the newest one and on its way to their vector
(`FramesMarked`). At most one frame is waiting for its vector, the newest.

`InterruptsAreTransparent` cannot hold of every program: one that writes over its stack, or
moves S before RTI, gets something else back. `FramesKept` says that no step changes a
byte of a marked frame that is still to be returned to, and `ReturnsToFrame` that RTI is executed
with S at the newest frame; both hold in every state that the run `interrupts` reaches, which
TLC has checked. Nothing else is assumed of the program, the registers, the
place of the stack (which may wrap at `0xFFFF`), the depth of nesting or the lines.
`ResumeInv` then says three things: each marked frame lies in memory as its registers were when it was
pushed, with E as its kind (`Intact`, the twelve or three bytes from `Bottom` on); whoever pushes for an
interrupt pushes to S; and between the pull of CC by RTI and that of the other registers, CC
is the frame's, S is one above its bottom and `m_temp` has the mask for its kind. The proof
follows the bytes in the order in which `PUSH_REGISTERS` writes them and `PULL_REGISTERS` reads
them, from the registers to memory and back. `HistoryMoves` sorts the steps into those that push a
frame, pull one, or do neither, and `StepRestores` maps them to the actions of `ContextStack`.

`HandlersNestByPriority` needs the same of the program, and two things more, without which the
property is false: an instruction other than RTI clears no flag that the handler it is in
was entered with as its mask (`MasksKept`), and the program executes no XFIRQ, which takes
the vector of FIRQ and masks nothing, and in the handlers of IRQ, FIRQ and SWI no software
interrupt but SWI in that of IRQ (`CallsUpward`). TLC has checked these, too, in every state and
step of the run `interrupts`, and `NestInv`. A handler that is interrupted has its masks no
longer in CC but in the CC that was stacked, so that `NestInv` puts them into one frame or
the other (`Nested`: the masks of the newest frame are in CC, those of each other frame in the CC of the frame
above). RTI brings them back, and that it does is `ResumeInv`. `Arriving` follows an
interrupt from the label where it was found pending to its vector: what it is may come above
the newest frame before the push and above the second behind it (`Above`). CWAI pushes its
frame first and looks at the masks later, which is why they still have to be in CC then.

**The state stack.** The theorems hold for every listing that satisfies `ListingAssumption`:
the numbers fit 9 bits, 0 is the first label, whatever is pushed has a number, and a
called label calls nothing, goes nowhere and does not wait. TLC checks that the listing
of the core is one. `TwoFrames` is not inductive: `IInv` says that `m_state` is one digit,
0 or the continuation of the called label that runs (`Running`), and between two calls
two digits of which the lower is such a continuation and the upper, if it is above
another, a suspended place in a called label (`Between`). The refinement maps `m_state`
to the labels of its digits, and a suspended label to itself, still running; an `@` line
and a resumption are then stutters, and the other steps those of `CallStack`.

**The runs over a directory.** `IInv` joins the properties to what holds while a run is under way: the
entries before the current one are done, by this build and with this count, and their
lines printed; those behind it are older than the run; `manifest.txt` has nothing on disk
until it is closed; the metadata is older (`Running`, `FullRunning`). Each property
depends on the others: success is complete because the count of generated files is the
table's position, the manifest is true because a line is printed behind a close.

**The comparisons.** `AluPrograms` executes LD and CMP from any flags.
`CompareInv` says what the accumulator and the next instruction are at each step of such
a program. `Bits8` and `Bits16` give the sign, carry and overflow bits of `a - b` as
inequalities, `Flags8` and `Flags16` the flags `SetFlags` makes of them, and `Compare8`
and `Compare16` turn N = V and C into the signed and unsigned order of the numbers.

**The seeds.** `TestSeeds` keeps 64 bits as eight bytes. `TestSeedsProofs` takes such a number as two
integers, its low 24 and its upper 40 bits (`Low`, `Top`), which the solver's
arithmetic can handle, and shows what addition and subtraction with their carries do to
them (`Add64Is`, `Minus64Is`). The exclusive or is injective bit by bit (`XorInjective`), so
that two tests with one seed would have one index, one opcode and one page
(`SeedsInjective`); as the tests are finitely many, there are as many seeds.
For `StreamsStayApart`, `StreamInv` says that behind n draws the state is the seed plus n times the
constant of splitmix64, modulo 2^64. The bits in which seeds agree, the upper 24, would
have to come back to where they were, or nearly, for a test to meet the seed of
another one. No multiple of the constant up to the 8201st is that near to a multiple of 2^64
(`FarFromZero`: 6765/10946 and 4181/6765 enclose the ratio of the two so closely that only
larger multiples come near).

**The multi-byte programs.** `WideInv` and `DecimalInv` say what accumulator, carry and the first
byte of the result are in front of each instruction: the first byte and its carry are
those of the low bytes, exactly. With the byte's result and carry as a number of nine bits, that
the second addition completes the word is arithmetic, and so are the sign and the
overflow. DAA is split into its four cases by half carry and digits; after ADD or ADC of decimal
bytes the digit sums say which case applies.

`M6809AluProofs` holds the typing of every operation of the ALU, cited throughout.

**Model-checked only.** The sweep's `TableIsComplete`, `SkippedForTheirReasons` and
`SanityCasesPass`: its 768 instances are all there are, and TLC runs through them.
`ReproducesVectors`, which is about three files. `RoundTrip` and `CutIsNoticed`, which would need induction over the chunks of a
file. All liveness (`EveryTestFinishes`, `NmiIsTaken`, `WaitsEnd`, `CallerIsServed`,
`InstructionsEnd`) stays with TLC: fairness is not within the reach of the provers used.

## 5. Not modelled, and why

* How `m6809make.py` reads, indents and prints text. What it decides (numbers, calls,
  suspension) is modelled. The labels of `base6x09.lst` that only the 6309 dispatches have numbers, but no build of this program
  executes them.
* `m6809.h` is never compiled: `m6809_shim.h` defines its include guard.
* The compression of the files. A gzip file that is cut yields at most the first bytes of
  its contents, which is what `CutIsNoticed` is about.
* The layout of `metadata.json`, mnemonics and the other text of the opcode table, console
  output, and `--out`: every run has the same directory.
* The bytes of `v1/`, except for the registers of three tests in `MCTestSeeds`.

## 6. Plan

Done, in this order: data, ALU, table, core, instructions, generator, sweep, programs and
the core's invariants; interrupts; the state stack; the driver; the seeds; the
files; the proofs about each.

Left, the most valuable first:

1. The properties of the sweep from the tables of `TestGeneratorProofs`.
2. `RoundTrip` and `CutIsNoticed`, by the least chunk at which a reader would go wrong.
3. Liveness, with provers that reason about fairness.
